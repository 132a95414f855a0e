------------------------------ MODULE WeekSave ------------------------------
(***************************************************************************)
(* An instructor's week, saved from several browsers at a time:            *)
(* services/availability/week_save.py, bitmap_write.py, bitmap_io.py,      *)
(* repositories/availability_day_repository.py, and the browser's          *)
(* useAvailability.ts and availability page.                               *)
(*                                                                         *)
(* The bitmap of a day is open or not, and the version of a week, a hash   *)
(* of its bitmaps, is the week itself.  A save sends all days of the week. *)
(***************************************************************************)
CONSTANTS Editors, Days

VARIABLES week,     \* the availability_days rows
          editor    \* the browsers and their requests

weekVars == <<week, editor>>

Weeks == [Days -> BOOLEAN]

(* base: the week the editor was shown.  version: the one it would send.   *)
(* desired: the week as edited.  Of a save: writes, the days it will       *)
(* write; checked, whether the version of base was compared; windows,      *)
(* whether it came as windows (save_week_bits).                            *)
EditorType == [at : {"away", "viewing", "saving"}, base : Weeks, version : Weeks,
               desired : Weeks, writes : SUBSET Days, checked : BOOLEAN, windows : BOOLEAN]

WeekTypeOK == week \in Weeks /\ editor \in [Editors -> EditorType]

Empty == [d \in Days |-> FALSE]
Away == [at |-> "away", base |-> Empty, version |-> Empty, desired |-> Empty,
         writes |-> {}, checked |-> FALSE, windows |-> FALSE]

WeekInit == week \in Weeks /\ editor = [e \in Editors |-> Away]

Shows(w) == [Away EXCEPT !.at = "viewing", !.base = w, !.version = w, !.desired = w]

(* GET /week: the bitmaps and their version. *)
Fetch(e) == /\ editor[e].at \in {"away", "viewing"}
            /\ editor' = [editor EXCEPT ![e] = Shows(week)]
            /\ UNCHANGED week

Edit(e, d) == /\ editor[e].at = "viewing"
              /\ editor' = [editor EXCEPT ![e].desired[d] = ~@]
              /\ UNCHANGED week

Leave(e) == /\ editor[e].at = "viewing"
            /\ editor' = [editor EXCEPT ![e] = Away]
            /\ UNCHANGED week

Open(e) == {d \in Days : editor[e].desired[d]}

(* The days that differ; days that came with windows are written even      *)
(* where they do not (force_write_dates).                                  *)
Changed(e, windows) == {d \in Days : editor[e].desired[d] # week[d]}
                         \cup (IF windows THEN Open(e) ELSE {})

(* Mutant of Accepted: the version is not compared. *)
AcceptedAny(e, override, versioned) == override \in BOOLEAN

(* "Week has changed; please refresh and retry", unless the instructor     *)
(* insists or the request has no version.                                  *)
Accepted(e, override, versioned) ==
    override \/ ~versioned \/ editor[e].version = week

(* The version was compared, and it is that of the week the editor saw.    *)
Checked(e, override, versioned) ==
    versioned /\ ~override /\ editor[e].version = editor[e].base

(* _compute_bitmap_day_updates, outside of any transaction.  The answer to *)
(* the request that is refused (409) has the version of the week, which    *)
(* the browser will send next, whether or not it is shown that week; a     *)
(* request without an update is done.                                      *)
SaveStart(e, override, versioned, windows) ==
    LET writes == Changed(e, windows) IN
    /\ editor[e].at = "viewing"
    /\ editor' =
         IF ~Accepted(e, override, versioned) THEN [editor EXCEPT ![e].version = week]
         ELSE IF writes = {} THEN [editor EXCEPT ![e] = Shows(week)]
         ELSE [editor EXCEPT ![e].at = "saving", ![e].writes = writes, ![e].windows = windows,
                             ![e].checked = Checked(e, override, versioned)]
    /\ UNCHANGED week

(* upsert_week: the days that were found changed are written, unseen.  The *)
(* version that is answered is that of the desired week.                   *)
SaveWrite(e) ==
    /\ editor[e].at = "saving"
    /\ week' = [d \in Days |-> IF d \in editor[e].writes THEN editor[e].desired[d] ELSE week[d]]
    /\ editor' = [editor EXCEPT ![e] = Shows(editor[e].desired)]

WeekStep(e) == \/ Fetch(e)
               \/ \E d \in Days : Edit(e, d)
               \/ Leave(e)
               \/ \E override, versioned, windows \in BOOLEAN :
                     SaveStart(e, override, versioned, windows)
               \/ SaveWrite(e)

-----------------------------------------------------------------------------
(* A save that is not forced and is sent with the version of the week its  *)
(* editor was shown changes only days that were edited, and days it was    *)
(* told to open anew: what another browser saved on another day, before or *)
(* meanwhile, survives it (the version check and the day-wise upsert).     *)
OtherDaysSurvive ==
    [][\A d \in Days :
          week'[d] # week[d] =>
             \E e \in Editors : /\ editor[e].at = "saving"
                                /\ editor'[e].at = "viewing"
                                /\ \/ ~editor[e].checked
                                   \/ editor[e].desired[d] # editor[e].base[d]
                                   \/ editor[e].windows /\ editor[e].desired[d]]_weekVars
=============================================================================
