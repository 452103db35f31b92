-------------------------------- MODULE Desktop --------------------------------
(***************************************************************************)
(* The setup assistant and the desktop (src/src/ui/desktop.c), driven by   *)
(* the events of src/src/device/input.c.  install_system is a sequence of  *)
(* calls of the persistent file system, each of which may fail, and the    *)
(* machine may lose power between two of them.  The volume is what those   *)
(* calls have made of it; what a single call does is module Mvhfs.         *)
(***************************************************************************)
EXTENDS Integers, Sequences

VARIABLES
  setup_mode, page, about,       \* the locals of desktop_run
  shown,                         \* the page on the screen
  step,                          \* the calls install_system has made, 0 when it is not running
  volume                         \* the last call whose effect it holds, 0 for anything else

desktop_vars == <<setup_mode, page, about, shown, step, volume>>

Devices == {0, 1}
Steps == <<"format", "mount", "create installed", "write installed",
           "create edition", "write edition">>
Complete == Len(Steps)

Enter == 10
Escape == 27
Typed == {Enter, Escape, 8, 32, 97, 114, 115}

(* input_poll: the kind of event a character makes.                        *)
EventType(c) ==
  CASE c = Enter -> "accept"
    [] c \in {Escape, 8} -> "back"
    [] c \in {9, 32} -> "next"
    [] OTHER -> "key"

RenderSetup(p) == shown' = <<"setup", p>>
RenderDesktop(a) == shown' = <<"desktop", a>>

Back ==
  /\ setup_mode /\ page # 0
  /\ page' = page - 1 /\ RenderSetup(page - 1)
  /\ UNCHANGED <<setup_mode, about, step, volume>>

(* With no disk the second page cannot be left forwards, and on the page   *)
(* of a running installation nothing is accepted.                          *)
Accept(block_count) ==
  /\ setup_mode
  /\ \/ page = 0 /\ page' = 1 /\ RenderSetup(1) /\ UNCHANGED <<setup_mode, step>>
     \/ /\ page = 1 /\ block_count # 0
        /\ step' = 1 /\ RenderSetup(2) /\ UNCHANGED <<setup_mode, page>>
     \/ page = 3 /\ setup_mode' = FALSE /\ RenderDesktop(0) /\ UNCHANGED <<page, step>>
  /\ UNCHANGED <<about, volume>>

DesktopKey(c) ==
  /\ ~setup_mode
  /\ \/ c = 115 /\ setup_mode' = TRUE /\ page' = 0 /\ RenderSetup(0) /\ UNCHANGED about
     \/ c = 97 /\ about' = 1 - about /\ RenderDesktop(1 - about) /\ UNCHANGED <<setup_mode, page>>
  /\ UNCHANGED <<step, volume>>

(* One event of the loop of desktop_run.                                   *)
desktop_run(c) ==
  /\ step = 0
  /\ \/ EventType(c) = "back" /\ Back
     \/ EventType(c) = "accept" /\ \E count \in Devices : Accept(count)
     \/ DesktopKey(c)

(* Mutation of install_system: the result of the last write is ignored.    *)
install_system_unchecked_write(ok) ==
  /\ step # 0
  /\ volume' = IF ~ok THEN volume ELSE IF step = 1 THEN 1 ELSE IF step = 2 THEN volume ELSE step
  /\ IF ok /\ step < Complete
     THEN step' = step + 1 /\ UNCHANGED <<page, shown>>
     ELSE /\ step' = 0
          /\ page' = IF step = Complete THEN 3 ELSE 1
          /\ RenderSetup(page')
  /\ UNCHANGED <<setup_mode, about>>

(* The next call; mounting leaves the volume alone, and a failed call does *)
(* too, except that a failed format may have destroyed what was there.     *)
install_system(ok) ==
  /\ step # 0
  /\ volume' = IF ~ok THEN IF step = 1 THEN 0 ELSE volume
               ELSE IF step = 2 THEN volume ELSE step
  /\ IF ok /\ step < Complete
     THEN step' = step + 1 /\ UNCHANGED <<page, shown>>
     ELSE /\ step' = 0
          /\ page' = IF ok THEN 3 ELSE 1
          /\ RenderSetup(page')
  /\ UNCHANGED <<setup_mode, about>>

(* hal_reboot from the desktop, or a power loss at any time; the command   *)
(* line of the next boot chooses between setup and desktop.                *)
Started(mode) ==
  /\ setup_mode' = mode /\ page' = (IF mode THEN 0 ELSE 3) /\ about' = 0 /\ step' = 0
  /\ IF mode THEN RenderSetup(0) ELSE RenderDesktop(0)
Restart == \E mode \in BOOLEAN : Started(mode) /\ UNCHANGED volume

DesktopInit ==
  /\ setup_mode \in BOOLEAN /\ page = (IF setup_mode THEN 0 ELSE 3) /\ about = 0
  /\ shown = (IF setup_mode THEN <<"setup", 0>> ELSE <<"desktop", 0>>)
  /\ step = 0 /\ volume = 0

DesktopNext ==
  \/ \E c \in Typed : desktop_run(c)
  \/ \E ok \in BOOLEAN : install_system(ok)
  \/ Restart
------------------------------------------------------------------------------
(* The page that announces a ready system is on the screen only when every *)
(* call of the installation succeeded and the volume holds both files:     *)
(* leaving the page, a failed or interrupted second installation and a     *)
(* restart never bring it back over an incomplete volume.                  *)
ReadyIsInstalled == shown = <<"setup", 3>> => volume = Complete /\ step = 0

=============================================================================
