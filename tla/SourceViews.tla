----------------------------- MODULE SourceViews -----------------------------
(***************************************************************************)
(* What the main window shows of sources beside its lists: the controls of *)
(* the audio mixer, and the projectors that fill a monitor, which it saves *)
(* by the names of their sources (UI/window-basic-main.cpp).               *)
(*                                                                         *)
(* libobs signals that a source became active or inactive or has another   *)
(* name, in the thread that made it so; the window's slot runs at once in  *)
(* the thread of the window, and is queued in any other.                   *)
(*                                                                         *)
(* Projectors in windows of their own, which are not saved, are left out.  *)
(***************************************************************************)
EXTENDS Integers, Sequences, FiniteSets, SequencesExt

CONSTANTS
  Sources,           \* the sources with audio
  Names,             \* their names
  Monitors,          \* the monitors projectors can be saved for
  MaxQueue,          \* bound on the slots that wait
  MaxViewSteps,      \* bound on signals, clicks and restarts
  ViewEnvironments   \* the surroundings, see ViewEnvironment

(* threads: other threads act on sources.  save: the option SaveProjectors. *)
ViewEnvironment == [threads : BOOLEAN, save : BOOLEAN]

ASSUME SourceViewsAssumption ==
  /\ Monitors \subseteq 1..10 /\ Monitors # {}
  /\ MaxQueue \in Nat /\ MaxViewSteps \in Nat
  /\ ViewEnvironments \subseteq ViewEnvironment /\ ViewEnvironments # {}

Nobody == "nobody"
NoName == ""
ASSUME NamesAssumption == {Nobody, NoName} \cap Names = {}
ASSUME SourcesAssumption == Sources \cap {Nobody, "preview"} = {}

VARIABLES
  viewEnv,         \* the environment of this behaviour, which stays as it is
  name,            \* of each source; NoName if there is no such source
  active,          \* the sources that are active
  hidden,          \* the sources whose private settings have mixer_hidden
  volumes,         \* the controls of the mixer: of which source, under which name
  slots,           \* Qt's queue: the slots other threads have posted
  screens,         \* the number of monitors there are
  projectors,      \* what fills each monitor
  projectorArray,  \* the name saved for each monitor, or NoName
  previewArray,    \* previewProjectorArray: whether the preview is saved for it
  odd,             \* history: sources unhidden while inactive, or handled
                   \* while a slot about them waits
  views            \* the number of signals, clicks and restarts so far

viewVars == <<viewEnv, name, active, hidden, volumes, slots, screens, projectors,
              projectorArray, previewArray, odd, views>>

Existing == {s \in Sources : name[s] # NoName}

(* RenameListItem refuses a name that a source has; other threads use such *)
(* names neither.  Nobody takes a name whose change waits in a slot.       *)
Unused ==
  {n \in Names : /\ \A s \in Sources : name[s] # n
                 /\ \A i \in DOMAIN slots :
                      slots[i].slot = "rename" => slots[i].prevName # n}

(* The source of a name, obs_get_source_by_name.                           *)
ByName(n) == IF \E s \in Existing : name[s] = n
             THEN CHOOSE s \in Existing : name[s] = n ELSE Nobody

-----------------------------------------------------------------------------
(* The slots, as operators on the controls.                                *)
ActivateAudioSource(vols, s, hid) ==
  IF s \in hid THEN vols ELSE Append(vols, [source |-> s, name |-> name[s]])

(* One for each of several sources that are not hidden.                    *)
Controls(on) == SetToSeq({[source |-> s, name |-> name[s]] : s \in on})

(* The first control of the source goes.                                   *)
DeactivateAudioSource(vols, s) ==
  LET i == SelectInSeq(vols, LAMBDA v : v.source = s)
  IN  IF i = 0 THEN vols ELSE RemoveAt(vols, i)

Renamed(n, newName, prevName) == IF n = prevName THEN newName ELSE n

RenameSources_Projectors(newName, prevName) ==
  /\ volumes' = [i \in DOMAIN volumes |->
                   [volumes[i] EXCEPT !.name = Renamed(@, newName, prevName)]]
  /\ UNCHANGED projectorArray

RenameSources(newName, prevName) ==
  /\ volumes' = [i \in DOMAIN volumes |->
                   [volumes[i] EXCEPT !.name = Renamed(@, newName, prevName)]]
  /\ projectorArray' = [m \in Monitors |->
                          Renamed(projectorArray[m], newName, prevName)]

Run(slot) ==
  \/ /\ slot.slot = "activate"
     /\ volumes' = ActivateAudioSource(volumes, slot.source, hidden)
     /\ UNCHANGED projectorArray
  \/ /\ slot.slot = "deactivate"
     /\ volumes' = DeactivateAudioSource(volumes, slot.source)
     /\ UNCHANGED projectorArray
  \/ slot.slot = "rename" /\ RenameSources(slot.newName, slot.prevName)

Waits(s) == \E i \in DOMAIN slots : slots[i].source = s

(* A signal: the slot runs, perhaps ahead of others, or waits.             *)
Signal(slot) ==
  \/ /\ Run(slot)
     /\ odd' = IF Waits(slot.source) THEN odd \cup {slot.source} ELSE odd
     /\ UNCHANGED slots
  \/ /\ viewEnv.threads /\ Len(slots) < MaxQueue
     /\ slots' = Append(slots, slot)
     /\ UNCHANGED <<volumes, projectorArray, odd>>

ViewStep == views < MaxViewSteps /\ views' = views + 1

RunViewSlot ==
  /\ slots # <<>>
  /\ Run(Head(slots))
  /\ slots' = Tail(slots)
  /\ UNCHANGED <<viewEnv, name, active, hidden, screens, projectors, previewArray,
                 odd, views>>

-----------------------------------------------------------------------------
SourceActivated(s) ==
  /\ ViewStep
  /\ s \in Existing \ active
  /\ active' = active \cup {s}
  /\ Signal([slot |-> "activate", source |-> s])
  /\ UNCHANGED <<viewEnv, name, hidden, screens, projectors, previewArray>>

SourceDeactivated(s) ==
  /\ ViewStep
  /\ s \in active
  /\ active' = active \ {s}
  /\ Signal([slot |-> "deactivate", source |-> s])
  /\ UNCHANGED <<viewEnv, name, hidden, screens, projectors, previewArray>>

SourceRenamed(s, n) ==
  /\ ViewStep
  /\ s \in Existing /\ n \in Unused
  /\ name' = [name EXCEPT ![s] = n]
  /\ Signal([slot |-> "rename", source |-> s, newName |-> n, prevName |-> name[s]])
  /\ UNCHANGED <<viewEnv, active, hidden, screens, projectors, previewArray>>

(* External: a source that is in no scene goes, with the slots about it    *)
(* done, unless a control of the mixer still holds it; another one comes.  *)
SourceGone(s) ==
  /\ ViewStep
  /\ s \in Existing \ active
  /\ slots = <<>>
  /\ \A i \in DOMAIN volumes : volumes[i].source # s
  /\ name' = [name EXCEPT ![s] = NoName]
  /\ hidden' = hidden \ {s}
  /\ odd' = odd \ {s}
  /\ projectors' = [m \in Monitors |-> IF projectors[m] = s THEN Nobody ELSE projectors[m]]
  /\ UNCHANGED <<viewEnv, active, volumes, slots, screens, projectorArray, previewArray>>

SourceNew(s, n) ==
  /\ ViewStep
  /\ s \notin Existing /\ n \in Unused
  /\ name' = [name EXCEPT ![s] = n]
  /\ UNCHANGED <<viewEnv, active, hidden, volumes, slots, screens, projectors,
                 projectorArray, previewArray, odd>>

-----------------------------------------------------------------------------
(* The menus of the mixer and of an item.                                  *)
HideAudioControl(s) ==
  /\ ViewStep
  /\ \E i \in DOMAIN volumes : volumes[i].source = s
  /\ s \notin hidden
  /\ hidden' = hidden \cup {s}
  /\ volumes' = DeactivateAudioSource(volumes, s)
  /\ UNCHANGED <<viewEnv, name, active, slots, screens, projectors, projectorArray,
                 previewArray, odd>>

ToggleHideMixer(s) ==
  /\ ViewStep
  /\ s \in Existing
  /\ IF s \notin hidden
     THEN /\ hidden' = hidden \cup {s}
          /\ volumes' = DeactivateAudioSource(volumes, s)
          /\ UNCHANGED odd
     ELSE /\ hidden' = hidden \ {s}
          /\ volumes' = ActivateAudioSource(volumes, s, hidden')
          /\ odd' = IF s \notin active \/ Waits(s) THEN odd \cup {s} ELSE odd
  /\ UNCHANGED <<viewEnv, name, active, slots, screens, projectors, projectorArray,
                 previewArray>>

UnhideAllAudioControls_Inactive ==
  /\ ViewStep
  /\ hidden # {}
  /\ hidden' = {}
  /\ volumes' = volumes \o Controls(hidden)
  /\ odd' = odd \cup {s \in hidden : Waits(s)}
  /\ UNCHANGED <<viewEnv, name, active, slots, screens, projectors, projectorArray,
                 previewArray>>

UnhideAllAudioControls ==
  /\ ViewStep
  /\ hidden \cap active # {}
  /\ hidden' = hidden \ active
  /\ volumes' = volumes \o Controls(hidden \cap active)
  /\ odd' = odd \cup {s \in hidden \cap active : Waits(s)}
  /\ UNCHANGED <<viewEnv, name, active, slots, screens, projectors, projectorArray,
                 previewArray>>

-----------------------------------------------------------------------------
(* A projector takes the place of the one on its monitor.                  *)
OpenProjector(what, m) ==
  /\ ViewStep
  /\ m <= screens
  /\ projectors' = [projectors EXCEPT ![m] = what]
  /\ projectorArray' = [projectorArray EXCEPT ![m] =
                          IF what = "preview" THEN NoName ELSE name[what]]
  /\ previewArray' = [previewArray EXCEPT ![m] = (what = "preview")]
  /\ UNCHANGED <<viewEnv, name, active, hidden, volumes, slots, screens, odd>>

(* A change of the mode "always on top" closes them; they remain saved.    *)
CloseProjectors ==
  /\ ViewStep
  /\ \E m \in Monitors : projectors[m] # Nobody
  /\ projectors' = [m \in Monitors |-> Nobody]
  /\ UNCHANGED <<viewEnv, name, active, hidden, volumes, slots, screens,
                 projectorArray, previewArray, odd>>

(* OpenSavedProjectors: a monitor whose source is gone is forgotten, one   *)
(* that is not there is left for another time.                             *)
Opens(m, there) ==
  IF ~viewEnv.save \/ m > there THEN Nobody
  ELSE IF projectorArray[m] # NoName THEN ByName(projectorArray[m])
  ELSE IF previewArray[m] THEN "preview" ELSE Nobody

RemoveSavedProjectors(m) ==
  viewEnv.save /\ projectorArray[m] # NoName /\ ByName(projectorArray[m]) = Nobody

(* The exit saves names and clears the scenes; the slots that wait are     *)
(* lost.  The next start loads them again, with any sources active and any *)
(* number of monitors.                                                     *)
Restart(there, on) ==
  /\ ViewStep
  /\ screens' = there
  /\ active' = on
  /\ volumes' = Controls(on \ hidden)
  /\ projectors' = [m \in Monitors |-> Opens(m, there)]
  /\ projectorArray' = [m \in Monitors |->
                          IF RemoveSavedProjectors(m) THEN NoName ELSE projectorArray[m]]
  /\ previewArray' = [m \in Monitors |-> previewArray[m] /\ ~RemoveSavedProjectors(m)]
  /\ slots' = <<>>
  /\ odd' = {}
  /\ UNCHANGED <<viewEnv, name, hidden>>

-----------------------------------------------------------------------------
ViewInit(envs) ==
  /\ viewEnv \in envs
  /\ name = [s \in Sources |-> NoName]
  /\ active = {} /\ hidden = {} /\ odd = {}
  /\ volumes = <<>> /\ slots = <<>>
  /\ screens = Cardinality(Monitors)
  /\ projectors = [m \in Monitors |-> Nobody]
  /\ projectorArray = [m \in Monitors |-> NoName]
  /\ previewArray = [m \in Monitors |-> FALSE]
  /\ views = 0

ViewNext ==
  \/ RunViewSlot
  \/ \E s \in Sources :
       \/ SourceActivated(s) \/ SourceDeactivated(s)
       \/ SourceGone(s)
       \/ HideAudioControl(s) \/ ToggleHideMixer(s)
       \/ \E n \in Names : SourceNew(s, n) \/ SourceRenamed(s, n)
  \/ UnhideAllAudioControls
  \/ \E m \in Monitors, what \in Existing \cup {"preview"} : OpenProjector(what, m)
  \/ CloseProjectors
  \/ \E there \in 1..Cardinality(Monitors), on \in SUBSET Existing : Restart(there, on)

-----------------------------------------------------------------------------
(* Once the slots have run, the mixer has one control for each source that *)
(* is active and not hidden, and none for any other, whatever the order of *)
(* signals, slots and clicks.                                              *)
(* Not so in the code for the sources in odd: ToggleHideMixer shows a      *)
(* control for a source that is not active; one that is unhidden before    *)
(* the slot that activates it runs gets two; and a signal of the window's  *)
(* own thread overtakes those that wait.                                   *)
MixerTruthful ==
  slots = <<>> =>
    \A s \in Sources \ odd :
      Cardinality({i \in DOMAIN volumes : volumes[i].source = s})
        = IF s \in active \ hidden THEN 1 ELSE 0

(* Once the slots have run, what the window knows by its name has the name *)
(* of its source: the controls of the mixer and the projectors it will     *)
(* open again; and a restart does open them where they were, if their      *)
(* monitor is still there.                                                 *)
NamesFollow ==
  /\ [](slots = <<>> =>
          /\ \A i \in DOMAIN volumes :
               volumes[i].source \notin odd => volumes[i].name = name[volumes[i].source]
          /\ \A m \in Monitors :
               /\ projectors[m] \in Sources \ odd => projectorArray[m] = name[projectors[m]]
               /\ projectors[m] = "preview" => previewArray[m]
               /\ ~(previewArray[m] /\ projectorArray[m] # NoName))
  /\ [][\A there \in 1..Cardinality(Monitors), on \in SUBSET Existing :
          Restart(there, on) /\ slots = <<>> /\ viewEnv.save =>
            \A m \in Monitors :
              m <= there /\ projectors[m] \notin odd \cup {Nobody} => projectors'[m] = projectors[m]]_viewVars
=============================================================================
