--------------------------- MODULE FirmwareUpdate ---------------------------
(***************************************************************************)
(* What a firmware push promises, whatever carries it: the abstract        *)
(* specification that NodeOta (a node on the bus) and ThermostatLink (the  *)
(* Thermostat behind its ControllerNode) implement.                        *)
(*                                                                         *)
(* There is one application slot of flash, a processor that runs it or     *)
(* does not, and the server's job.  The slot can only be changed from the  *)
(* outside of the application, is filled in order, and is started whole.   *)
(* A job may fail at any time, but it ends, and it ends well only with the *)
(* whole image in the slot, where it stays.                                *)
(***************************************************************************)
EXTENDS Integers

CONSTANT Whole    \* units of flash that the image takes, a positive number

(* The image from before the push, of a length that does not matter.       *)
Old == -1

VARIABLES
    flash,    \* Old, or how much is programmed since the erase
    runs,     \* the application runs
    job       \* "open", "done", or "none": there is none, or it failed

vars == <<flash, runs, job>>

TypeOK ==
    /\ flash \in Old..Whole
    /\ runs \in BOOLEAN
    /\ job \in {"none", "open", "done"}

Bootable == flash \in {Old, Whole}

Init ==
    /\ flash \in {Old, 0}
    /\ runs \in BOOLEAN /\ (runs => Bootable)
    /\ job \in {"none", "open"}

(* The application resets into the bootloader, or loses its supply.        *)
Leave == runs /\ runs' = FALSE /\ UNCHANGED <<flash, job>>

Start == ~runs /\ Bootable /\ runs' = TRUE /\ UNCHANGED <<flash, job>>

Erase == ~runs /\ job # "done" /\ flash' = 0 /\ UNCHANGED <<runs, job>>

Program ==
    /\ ~runs /\ job # "done" /\ flash # Old
    /\ flash' \in (flash + 1)..Whole
    /\ UNCHANGED <<runs, job>>

Ask == job # "open" /\ job' = "open" /\ UNCHANGED <<flash, runs>>

Fail == job = "open" /\ job' = "none" /\ UNCHANGED <<flash, runs>>

Succeed == job = "open" /\ flash = Whole /\ job' = "done" /\ UNCHANGED <<flash, runs>>

Next == Leave \/ Start \/ Erase \/ Program \/ Ask \/ Fail \/ Succeed

(* Fail is possible as long as a job is open: what is asked of the         *)
(* scheduling is only that no job stays open.                              *)
Spec == Init /\ [][Next]_vars /\ []<>(job # "open")

(* What follows from it: a processor never runs a slot that was only       *)
(* partly programmed, and a job that is done has the image in the flash.   *)
Promise ==
    /\ runs => Bootable
    /\ job = "done" => flash = Whole

=============================================================================
