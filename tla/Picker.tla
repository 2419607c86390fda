------------------------------- MODULE Picker ------------------------------
(* port/psp/platform.c's connection dialog: the firmware's chooser, which      *)
(* lives in the kernel, outlives the program, and cannot be closed by software *)
(* while it shows.  The counts of frames that bound a wait are a choice here:  *)
(* any frame may be the one that finds the bound passed.                       *)
EXTENDS Naturals

VARIABLES
  picker,  \* [up, gone, shown, closing, reclaim]: the module's flags
  dialog,  \* kernel: its status
  owner    \* kernel: whose dialog that is: "none", "ours", "left"

pickerVars == <<picker, dialog, owner>>

Flags == [up : BOOLEAN, gone : BOOLEAN, shown : BOOLEAN, closing : BOOLEAN,
          reclaim : BOOLEAN]
PickerTypeOK ==
  /\ picker \in Flags
  /\ dialog \in {"none", "init", "visible", "quit", "finished"}
  /\ owner \in {"none", "ours", "left"}

\* A run that left its dialog open has left it visible, or wedged: shut down
\* and never let go.
PickerInit ==
  /\ picker = [up |-> FALSE, gone |-> FALSE, shown |-> FALSE,
               closing |-> FALSE, reclaim |-> FALSE]
  /\ \/ dialog = "none" /\ owner = "none"
     \/ dialog \in {"visible", "finished"} /\ owner = "left"

platform_has_picker     == ~picker.gone /\ ~picker.up
platform_picker_showing == picker.up /\ picker.shown

Kernel(d, o) == dialog' = d /\ owner' = o
Same == UNCHANGED <<dialog, owner>>

\* The kernel may refuse to start it, for want of memory.
picker_open(opened) ==
  \/ /\ opened
     /\ picker' = [up |-> TRUE, gone |-> FALSE, shown |-> FALSE,
                   closing |-> FALSE, reclaim |-> FALSE]
     /\ Kernel("init", "ours")
  \/ /\ ~opened
     /\ picker' = [picker EXCEPT !.gone = TRUE, !.up = FALSE,
                                 !.reclaim = FALSE]
     /\ Same

\* `begun`: the page's `up`.
platform_picker_begin(begun) ==
  \/ /\ picker.gone \/ picker.up
     /\ ~begun /\ UNCHANGED picker /\ Same
  \/ /\ ~picker.gone /\ ~picker.up /\ dialog = "finished"
     /\ ~begun /\ picker' = [picker EXCEPT !.gone = TRUE] /\ Same
  \/ /\ ~picker.gone /\ ~picker.up /\ dialog \in {"init", "visible", "quit"}
     /\ begun /\ Same
     /\ picker' = [up |-> TRUE, gone |-> FALSE, shown |-> FALSE,
                   closing |-> TRUE, reclaim |-> TRUE]
  \/ /\ ~picker.gone /\ ~picker.up /\ dialog = "none"
     /\ picker_open(begun)

\* A dialog that has quit is shut down; one that is visible moves only in a
\* frame it is updated in, and drops a shutdown.
Pumped ==
  IF dialog = "quit" THEN Kernel("finished", "ours") ELSE Same

Reclaimed(result) ==
  \/ /\ dialog # "none" /\ Pumped
     /\ \/ result = "running" /\ UNCHANGED picker
        \/ /\ result = "unavailable"
           /\ picker' = [picker EXCEPT !.gone = TRUE, !.up = FALSE]
  \/ /\ dialog = "none"
     /\ picker_open(result = "running") /\ result \in {"running", "unavailable"}

\* Over, whatever the dialog says of how: whether it joined is the stack's.
picker_done(result, joined) ==
  /\ picker' = [picker EXCEPT !.up = FALSE]
  /\ result = IF joined THEN "joined" ELSE "cancelled"
  /\ Same

\* NONE is also what it is before it first shows.
Unseen(result, joined) ==
  \/ /\ picker.shown \/ picker.closing
     /\ \/ picker_done(result, joined)
        \/ /\ picker.closing   \* and not within its bound of frames
           /\ picker' = [picker EXCEPT !.up = FALSE, !.gone = TRUE]
           /\ result = IF joined THEN "joined" ELSE "cancelled"
           /\ Same
  \/ /\ ~picker.shown /\ ~picker.closing
     /\ result = "running" /\ Same
     /\ \/ UNCHANGED picker
        \/ picker' = [picker EXCEPT !.closing = TRUE]

Own(result, joined) ==
  CASE dialog = "visible" ->
         /\ picker' = [picker EXCEPT !.shown = TRUE]
         /\ result = "running" /\ Same
    [] dialog = "quit" -> result = "running" /\ UNCHANGED picker /\ Pumped
    [] dialog = "finished" -> picker_done(result, joined)
    [] dialog = "none" -> Unseen(result, joined)
    [] OTHER -> result = "running" /\ UNCHANGED picker /\ Same

platform_picker_step(result, joined) ==
  \/ ~picker.up /\ result = "unavailable" /\ UNCHANGED picker /\ Same
  \/ picker.up /\ picker.reclaim /\ Reclaimed(result)
  \/ picker.up /\ ~picker.reclaim /\ Own(result, joined)

(* ------------------------------ The kernel ------------------------------- *)
\* It shows, or goes again without having shown.
DialogShows ==
  /\ dialog = "init"
  /\ \/ Kernel("visible", owner)
     \/ Kernel("none", "none")
  /\ UNCHANGED picker

\* The viewer closes it, with a choice or with Back; only in a frame it is
\* updated in, so with a page that keeps pumping it.
DialogAnswered ==
  /\ dialog = "visible" /\ picker.up
  /\ owner = "ours" => picker.shown
  /\ Kernel("quit", owner)
  /\ UNCHANGED picker

DialogLetGo ==
  /\ dialog = "finished" /\ owner = "ours"
  /\ Kernel("none", "none")
  /\ UNCHANGED picker
=============================================================================
