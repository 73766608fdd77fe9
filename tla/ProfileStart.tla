----------------------------- MODULE ProfileStart -----------------------------
(***************************************************************************)
(* What the main window makes of a profile when it starts: the sizes and   *)
(* rate of the video, the tracks of recordings and the streaming service   *)
(* (InitBasicConfig, ResetVideo, SaveService and InitService of            *)
(* UI/window-basic-main.cpp), over restarts with other screens and crashes *)
(* at any time.                                                            *)
(*                                                                         *)
(* A configuration is a function from keys to the values the user has;     *)
(* reading a key that has none gives the default.  config_save_safe        *)
(* replaces a file at once; obs_data_save_json_safe moves the old file     *)
(* away first.                                                             *)
(***************************************************************************)
EXTENDS Integers, Sequences, FiniteSets, SequencesExt

CONSTANTS
  ScreenSizes,         \* of the primary screen at a start
  Configs,             \* what basic.ini may hold before the first start
  VideoSettings,       \* what the user chooses in the settings
  Services,            \* the types of services
  MaxStarts,           \* bound on starts and on the user's choices
  ProfileEnvironments  \* the surroundings, see ProfileEnvironment

None == -1
SizeKeys == {"BaseCX", "BaseCY", "OutputCX", "OutputCY"}
FpsKeys == {"FPSType", "FPSCommon", "FPSInt", "FPSNum", "FPSDen"}
Keys == SizeKeys \cup FpsKeys \cup {"RecTrackIndex", "RecTracks"}

(* No rate is zero.  External: the code takes a rate as it finds it, and   *)
(* leaves it to the settings to offer none that is zero.                   *)
Rates(c) == \A key \in {"FPSInt", "FPSNum", "FPSDen"} : c[key] # 0

(* pre19: Pre19Defaults of the global configuration.  ini: basic.ini       *)
(* before the first start.                                                 *)
ProfileEnvironment == [pre19 : BOOLEAN, ini : Configs]

DefaultService == "rtmp_common"
NoService == "none"

ASSUME ProfileStartAssumption ==
  /\ ScreenSizes \subseteq (Nat \ 0..2) \X (Nat \ 0..2)
  /\ Configs \subseteq [Keys -> Nat \cup {None}]
  /\ \A c \in Configs : c["RecTrackIndex"] \in {None} \cup 1..6
  /\ VideoSettings \subseteq [SizeKeys \cup FpsKeys -> Nat]
  /\ \A c \in Configs \cup VideoSettings : Rates(c)
  /\ DefaultService \in Services /\ NoService \notin Services
  /\ MaxStarts \in Nat
  /\ ProfileEnvironments \subseteq ProfileEnvironment /\ ProfileEnvironments # {}

VARIABLES
  profileEnv,   \* the environment of this behaviour, which stays as it is
  ini,          \* basic.ini
  config,       \* basicConfig: the values of the user, and the defaults
  defaults,
  running,
  video,        \* the parameters libobs has
  service,      \* the service in use
  serviceFile,  \* service.json and its backup
  saving,       \* the service SaveService writes while the old file is away
  kept,         \* history: the video of the run before, or as chosen since
  wanted,       \* history: the services that are not older than the last but
                \* one; if the last was saved whole, that one
  starts        \* the number of starts and choices so far

profileVars == <<profileEnv, ini, config, defaults, running, video, service,
                 serviceFile, saving, kept, wanted, starts>>

Pixels(size) == size[1] * size[2]
Limit == 1280 * 720

Value(c, d, key) == IF c[key] # None THEN c[key] ELSE d[key]
Pair(c, keys) == <<c[keys[1]], c[keys[2]]>>
Both(c, d, keys) == <<Value(c, d, keys[1]), Value(c, d, keys[2])>>
With(c, keys, size) == [c EXCEPT ![keys[1]] = size[1], ![keys[2]] = size[2]]

Base == <<"BaseCX", "BaseCY">>
Output == <<"OutputCX", "OutputCY">>

-----------------------------------------------------------------------------
(* InitBasicConfigDefaults.                                                *)
scaled_vals == <<<<1, 1>>, <<5, 4>>, <<4, 3>>, <<3, 2>>, <<5, 3>>, <<7, 4>>, <<2, 1>>,
                 <<9, 4>>, <<5, 2>>, <<11, 4>>, <<3, 1>>>>

Scaled(size, k) == <<(size[1] * scaled_vals[k][2]) \div scaled_vals[k][1],
                     (size[2] * scaled_vals[k][2]) \div scaled_vals[k][1]>>

(* New users have a canvas of 1920x1080 at most.                           *)
DefaultBase(screen) ==
  IF ~profileEnv.pre19 /\ Pixels(screen) > 1920 * 1080 THEN <<1920, 1080>> ELSE screen

(* The first scale that is small enough, or the last.                      *)
DefaultOutput(screen) ==
  LET cx == DefaultBase(screen)
      k  == SelectInSeq([i \in 1..Len(scaled_vals) |-> Scaled(cx, i)],
                        LAMBDA size : Pixels(size) <= Limit)
  IN  Scaled(cx, IF k = 0 THEN Len(scaled_vals) ELSE k)

DefaultsFor(screen) ==
  [key \in Keys |->
     CASE key = "BaseCX" -> DefaultBase(screen)[1] [] key = "BaseCY" -> DefaultBase(screen)[2]
       [] key = "OutputCX" -> DefaultOutput(screen)[1] [] key = "OutputCY" -> DefaultOutput(screen)[2]
       [] key = "FPSType" -> 0
       [] key \in {"FPSCommon", "FPSInt", "FPSNum"} -> 30
       [] key \in {"FPSDen", "RecTracks"} -> 1
       [] key = "RecTrackIndex" -> 0]

(* The track of an older configuration becomes a set of tracks.            *)
MoveTracks(c) ==
  IF c["RecTrackIndex"] # None /\ c["RecTracks"] = None
  THEN [c EXCEPT !["RecTracks"] = <<1, 2, 4, 8, 16, 32>>[c["RecTrackIndex"]],
                 !["RecTrackIndex"] = None]
  ELSE c

Fix_BothMissing(c, keys, size) ==
  IF {c[keys[1]], c[keys[2]]} = {None} THEN With(c, keys, size) ELSE c

(* Defaults that must not change are saved as if they were the user's.     *)
Fix(c, keys, size) == IF None \in {c[keys[1]], c[keys[2]]} THEN With(c, keys, size) ELSE c

(* The configurations that are saved one after the other.                  *)
InitBasicConfig(c, screen) ==
  LET moved == MoveTracks(c)
      based == Fix(moved, Base, DefaultBase(screen))
  IN  <<moved, based, Fix(based, Output, DefaultOutput(screen))>>

-----------------------------------------------------------------------------
(* FPSCommon is a name in the code; here "24 NTSC", "29.97" and "59.94"    *)
(* have the whole number above them, and 24 no other meaning.              *)
GetFPSCommon(val) ==
  CASE val \in {10, 20, 25, 48, 60} -> <<val, 1>>
    [] val = 24 -> <<24000, 1001>> [] val = 29 -> <<30000, 1001>> [] val = 59 -> <<60000, 1001>>
    [] OTHER -> <<30, 1>>

GetConfigFPS(c, d) ==
  CASE Value(c, d, "FPSType") = 1 -> <<Value(c, d, "FPSInt"), 1>>
    [] Value(c, d, "FPSType") = 2 -> Both(c, d, <<"FPSNum", "FPSDen">>)
    [] OTHER -> GetFPSCommon(Value(c, d, "FPSCommon"))

(* ResetVideo: sizes of zero are replaced in the configuration.            *)
NonZero(c, d) ==
  LET based == IF Pixels(Both(c, d, Base)) = 0 THEN With(c, Base, <<1920, 1080>>) ELSE c
  IN  IF Pixels(Both(based, d, Output)) = 0
      THEN With(based, Output, Both(based, d, Base)) ELSE based

Video(c, d) == [base |-> Both(c, d, Base), output |-> Both(c, d, Output),
                fps |-> GetConfigFPS(c, d), tracks |-> Value(c, d, "RecTracks")]

ResetVideo(c, d) ==
  /\ config' = NonZero(c, d)
  /\ video' = Video(config', d)

-----------------------------------------------------------------------------
(* InitService.  External: a service is made if its plugin is there; a     *)
(* file that is not there is replaced by its backup.                       *)
LoadService(plugins) ==
  LET there == IF serviceFile.main # NoService THEN serviceFile.main ELSE serviceFile.bak
  IN  /\ service' = IF there \in plugins THEN there ELSE DefaultService
      /\ serviceFile' = IF serviceFile.main # NoService THEN serviceFile
                        ELSE [main |-> serviceFile.bak, bak |-> NoService]

ProfileStep == starts < MaxStarts /\ starts' = starts + 1 /\ UNCHANGED profileEnv

Start(screen, plugins) ==
  /\ ProfileStep
  /\ ~running
  /\ running' = TRUE
  /\ ini' = InitBasicConfig(ini, screen)[3]
  /\ defaults' = DefaultsFor(screen)
  /\ ResetVideo(ini', defaults')
  /\ LoadService(plugins)
  /\ kept' = video'
  /\ UNCHANGED <<saving, wanted>>

(* A crash after some of the files have been written.                      *)
StartCutShort(screen) ==
  /\ ProfileStep
  /\ ~running
  /\ \E k \in 1..3 : ini' = InitBasicConfig(ini, screen)[k]
  /\ UNCHANGED <<config, defaults, running, video, service, serviceFile, saving, kept, wanted>>

(* External: the settings write the configuration and reset the video.     *)
ChooseVideo(s) ==
  /\ ProfileStep
  /\ running
  /\ LET chosen == [key \in Keys |-> IF key \in DOMAIN s THEN s[key] ELSE config[key]]
     IN  ini' = chosen /\ ResetVideo(chosen, defaults)
  /\ kept' = video'
  /\ UNCHANGED <<defaults, running, service, serviceFile, saving, wanted>>

(* SaveService: the new file is written under another name, the old one    *)
(* becomes the backup, ...                                                 *)
SaveService(s) ==
  /\ ProfileStep
  /\ running /\ saving = NoService
  /\ service' = s
  /\ saving' = s
  /\ serviceFile' = IF serviceFile.main # NoService
                    THEN [main |-> NoService, bak |-> serviceFile.main] ELSE serviceFile
  /\ wanted' = {s, IF serviceFile'.bak = NoService THEN DefaultService ELSE serviceFile'.bak}
  /\ UNCHANGED <<ini, config, defaults, running, video, kept>>

(* ... and the new one takes its place.                                    *)
ServiceSaved ==
  /\ running /\ saving # NoService
  /\ serviceFile' = [serviceFile EXCEPT !.main = saving]
  /\ wanted' = {saving}
  /\ saving' = NoService
  /\ UNCHANGED <<profileEnv, ini, config, defaults, running, video, service, kept, starts>>

(* An exit, which saves neither of the files, or a crash.                  *)
Quit ==
  /\ running
  /\ running' = FALSE
  /\ saving' = NoService
  /\ UNCHANGED <<profileEnv, ini, config, defaults, video, service, serviceFile, kept,
                 wanted, starts>>

-----------------------------------------------------------------------------
ProfileInit(envs) ==
  /\ profileEnv \in envs
  /\ ini = profileEnv.ini
  /\ config = ini
  /\ defaults = [key \in Keys |-> 0]
  /\ running = FALSE
  /\ video = <<>> /\ kept = <<>>
  /\ service = NoService
  /\ serviceFile = [main |-> NoService, bak |-> NoService]
  /\ saving = NoService
  /\ wanted = {}
  /\ starts = 0

ProfileNext ==
  \/ \E screen \in ScreenSizes :
       \/ StartCutShort(screen)
       \/ \E plugins \in {Services, {DefaultService}} : Start(screen, plugins)
  \/ \E s \in VideoSettings : ChooseVideo(s)
  \/ \E s \in Services : SaveService(s)
  \/ ServiceSaved \/ Quit

-----------------------------------------------------------------------------
(* A profile that has been in use starts with the video and the tracks it  *)
(* had, on whatever screen, after exits and crashes; with the service the  *)
(* user chose last or, if a crash cut its saving short, the one before,    *)
(* unless its plugin is missing; and sizes and rate are never zero.  The   *)
(* sizes a new profile gets are those the comments promise: no defaults    *)
(* that change later, and an output of no more pixels than 1280x720.       *)
(* Not so in the code for an older user's screen of more than nine times   *)
(* those pixels.                                                           *)
ProfileKept ==
  /\ [](running =>
          /\ Pixels(video.base) > 0 /\ Pixels(video.output) > 0 /\ Pixels(video.fps) > 0)
  /\ [][\A screen \in ScreenSizes, plugins \in {Services, {DefaultService}} :
          Start(screen, plugins) =>
            /\ kept # <<>> => video' = kept
            /\ wanted # {} /\ plugins = Services => service' \in wanted
            /\ \A key \in SizeKeys : ini'[key] # None
            /\ ini["OutputCX"] = None /\ Pixels(DefaultBase(screen)) <= 9 * Limit
                 => Pixels(video'.output) <= Limit]_profileVars
=============================================================================
