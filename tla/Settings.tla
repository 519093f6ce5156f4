------------------------------ MODULE Settings ------------------------------
(***************************************************************************)
(* A node's runtime settings and the flash page they live in: the page     *)
(* format of NodeLib::SettingsPage and the way its users keep their copy   *)
(* in RAM (Calibration of the TemperatureNode, with one record for two     *)
(* probe offsets; the DumpRoom flag of the ControllerNode and the room     *)
(* offset of the Thermostat are the same with a record of one value).      *)
(*                                                                         *)
(* A record is found by its magic and its CRC, so a page holds either one  *)
(* complete record or nothing that Load() accepts.  Erasing and            *)
(* programming are two steps: either may fail, and power may go in either. *)
(*                                                                         *)
(* The operators marked "Bug" are not the code: each is the definition     *)
(* that follows it with one plausible mistake, kept to show that a         *)
(* property notices.                                                       *)
(***************************************************************************)
EXTENDS Integers

CONSTANTS
    Fields,    \* the values of one record: the probes of Calibration
    Values,    \* what a Set that is in range may ask for
    Default    \* the value of every field without a record

ASSUME SettingsConstants == Fields # {} /\ Default \in Values

Records == [Fields -> Values]
Defaults == [f \in Fields |-> Default]

Blank == <<>>   \* a page Load() refuses: erased, cut short or corrupt

VARIABLES
    ram,       \* the copy the node works with and reports
    page,      \* the settings page in flash
    phase,     \* "Idle", or which flash operation of Save() runs
    next,      \* the record being saved
    answered,  \* history: the answer to the last Set, "none" after a reset
    trouble    \* history: a flash operation failed since the last good Save()

vars == <<ram, page, phase, next, answered, trouble>>

(* Calibration::Load().                                                    *)
Loaded(p) == IF p = Blank THEN Defaults ELSE p

Init ==
    /\ page \in {Blank} \cup Records
    /\ ram = Loaded(page)
    /\ phase = "Idle"
    /\ next = ram
    /\ answered = "none"
    /\ trouble = FALSE

(* SetOffset() with the value the RAM copy has already: no flash cycle.    *)
SetUnchanged(f, v) ==
    /\ phase = "Idle"
    /\ ram[f] = v
    /\ answered' = "Report"
    /\ UNCHANGED <<ram, page, phase, next, trouble>>

(* Bug: the new value is taken over before it is saved.                    *)
BeginSaveEarly(f, v) ==
    /\ phase = "Idle"
    /\ ram[f] # v
    /\ next' = [ram EXCEPT ![f] = v]
    /\ ram' = next'
    /\ phase' = "Erasing"
    /\ answered' = "none"
    /\ UNCHANGED <<page, trouble>>

BeginSave(f, v) ==
    /\ phase = "Idle"
    /\ ram[f] # v
    /\ next' = [ram EXCEPT ![f] = v]
    /\ phase' = "Erasing"
    /\ answered' = "none"
    /\ UNCHANGED <<ram, page, trouble>>

EraseDone ==
    /\ phase = "Erasing"
    /\ phase' = "Programming"
    /\ page' = Blank
    /\ UNCHANGED <<ram, next, answered, trouble>>

EraseFails ==
    /\ phase = "Erasing"
    /\ phase' = "Idle"
    /\ page' \in {page, Blank}
    /\ answered' = "Nack"
    /\ trouble' = TRUE
    /\ UNCHANGED <<ram, next>>

ProgramDone ==
    /\ phase = "Programming"
    /\ phase' = "Idle"
    /\ page' = next
    /\ ram' = next
    /\ answered' = "Report"
    /\ trouble' = FALSE
    /\ UNCHANGED next

(* Bug: nobody looks at how much was programmed.                           *)
ProgramFailsUnseen ==
    /\ phase = "Programming"
    /\ phase' = "Idle"
    /\ ram' = next
    /\ answered' = "Report"
    /\ trouble' = FALSE
    /\ UNCHANGED <<page, next>>

ProgramFails ==
    /\ phase = "Programming"
    /\ phase' = "Idle"
    /\ answered' = "Nack"
    /\ trouble' = TRUE
    /\ UNCHANGED <<ram, page, next>>

(* A reset, by command or by a power cut in the middle of a flash          *)
(* operation; Load() runs at start-up.                                     *)
Reset ==
    /\ page' \in CASE phase = "Idle"        -> {page}
                  [] phase = "Erasing"     -> {page, Blank}
                  [] phase = "Programming" -> {Blank, next}
    /\ ram' = Loaded(page')
    /\ phase' = "Idle"
    /\ next' = ram'
    /\ answered' = "none"
    /\ trouble' = FALSE

Next ==
    \/ \E f \in Fields, v \in Values : SetUnchanged(f, v)
    \/ \E f \in Fields, v \in Values : BeginSave(f, v)
    \/ EraseDone
    \/ EraseFails
    \/ ProgramDone
    \/ ProgramFails
    \/ Reset

Spec == Init /\ [][Next]_vars

-----------------------------------------------------------------------------
TypeOK ==
    /\ ram \in Records
    /\ page \in {Blank} \cup Records
    /\ phase \in {"Idle", "Erasing", "Programming"}
    /\ next \in Records
    /\ answered \in {"none", "Report", "Nack"}
    /\ trouble \in BOOLEAN

(* Whenever no flash operation runs, a page that would load holds what the *)
(* node works with, in every field: a failed or interrupted Set never      *)
(* leaves a record that differs from the running settings.                 *)
PageMatchesRam == phase = "Idle" /\ page # Blank => page = ram

(* A reset between two Sets loses no setting, unless a flash operation     *)
(* failed before it and no later Save() put that right.                    *)
SettingsSurviveReset ==
    [][phase = "Idle" /\ ~trouble /\ answered' = "none" /\ phase' = "Idle"
          => ram' = ram]_vars

(* A Set that is answered with a Report is in the page, or is what a blank *)
(* page stands for -- unless a save failed before: the code compares a Set *)
(* with the copy in RAM, and answers one that repeats it without a look at *)
(* the page (Calibration.cpp SetOffset(), TemperatureNode-Spec.md 4.3).    *)
ReportIsStored == answered = "Report" /\ ~trouble => Loaded(page) = ram

=============================================================================
