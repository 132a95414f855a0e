--------------------------- MODULE ScheduleProofs ---------------------------
(* Proofs about Schedule, for any bookings, slots, buffer, editors and days*)
EXTENDS Schedule, TLAPS

(* A row that is updated is still a row. *)
LEMMA Updates ==
    ASSUME NEW row \in RowType
    PROVE  /\ Forgiven(row) \in RowType
           /\ \A s \in {"PENDING", "CONFIRMED"} : [row EXCEPT !.status = s] \in RowType
           /\ \A slot \in Slots : [row EXCEPT !.slot = slot] \in RowType
           /\ [row EXCEPT !.declined = "now"] \in RowType
  BY DEF RowType, Forgiven

(* The rows that hold no slot. *)
LEMMA NoRows == /\ NoRow \in RowType /\ NoRow.status = "none"
                /\ [NoRow EXCEPT !.status = "CANCELLED"] \in RowType
                /\ [NoRow EXCEPT !.status = "CANCELLED"].status = "CANCELLED"
  BY DEF NoRow, RowType

(* A step of one booking leaves the rows and requests of the others alone. *)
LEMMA OneRowMoves ==
    ASSUME CalendarTypeOK, NEW b \in Bookings, CalendarStep(b)
    PROVE  /\ rows' \in [Bookings -> RowType]
           /\ req' \in [Bookings -> {"none", "validated", "locked", "insert", "authorize"}]
           /\ \A c \in Bookings \ {b} : rows'[c] = rows[c] /\ req'[c] = req[c]
<1> USE DEF CalendarTypeOK, Goes
<1>1. ASSUME NEW row \in RowType, rows' = [rows EXCEPT ![b] = row]
      PROVE  rows' \in [Bookings -> RowType] /\ \A c \in Bookings \ {b} : rows'[c] = rows[c]
  BY <1>1
<1>2. /\ NoRow \in RowType
      /\ Forgiven(rows[b]) \in RowType
      /\ \A slot \in Slots : [rows[b] EXCEPT !.slot = slot] \in RowType
      /\ [rows[b] EXCEPT !.declined = "now"] \in RowType
      /\ \A s \in {"PENDING", "CONFIRMED"} : /\ [rows[b] EXCEPT !.status = s] \in RowType
                                             /\ [Forgiven(rows[b]) EXCEPT !.status = s] \in RowType
      /\ [NoRow EXCEPT !.status = "CANCELLED"] \in RowType
  BY Updates, NoRows
<1>3. CASE \E slot \in Slots : Request(b, slot)
  BY <1>1, <1>2, <1>3 DEF Request
<1>4. CASE Lock(b) \/ Retry(b)
  BY <1>4 DEF Lock, Retry
<1>5. CASE Check(b)
  BY <1>1, <1>2, <1>5 DEF Check, Ends
<1>6. CASE Insert(b)
  BY <1>1, <1>2, <1>6 DEF Insert, Ends
<1>7. CASE ConfirmLater(b) \/ ConfirmNow(b)
  BY <1>1, <1>2, <1>7 DEF ConfirmLater, ConfirmNow
<1>8. CASE AuthorizeOK(b) \/ AuthorizeFails(b)
  BY <1>1, <1>2, <1>8 DEF AuthorizeOK, AuthorizeFails
<1>9. CASE Cancel(b)
  BY <1>1, <1>2, <1>9 DEF Cancel
<1>10. QED
  BY <1>3, <1>4, <1>5, <1>6, <1>7, <1>8, <1>9 DEF CalendarStep

(* The advisory lock belongs to the request that is between Lock and Ends. *)
LEMMA GuardTyped ==
    ASSUME CalendarTypeOK, NEW b \in Bookings, CalendarStep(b)
    PROVE  /\ guard' \in [Instructors -> Bookings \cup {"free"}]
           /\ \A c \in Bookings : guard'[Instructor(c)] = c <=> req'[c] \in {"locked", "insert"}
<1> USE DEF CalendarTypeOK, Goes
<1>1. \A c \in Bookings : Instructor(c) \in Instructors
  BY DEF Instructors
<1>2. CASE Lock(b)
  BY <1>1, <1>2, CalendarBounds DEF Lock
<1>3. CASE Ends(b) /\ req[b] \in {"locked", "insert"}
  <2>1. guard[Instructor(b)] = b
    BY <1>3
  <2>2. /\ guard' = [guard EXCEPT ![Instructor(b)] = "free"]
        /\ req' = [req EXCEPT ![b] = "none"]
    BY <1>3 DEF Ends
  <2>3. ASSUME NEW c \in Bookings
        PROVE  guard'[Instructor(c)] = c <=> req'[c] \in {"locked", "insert"}
    BY <1>1, <2>1, <2>2, CalendarBounds
  <2>4. QED
    BY <1>1, <2>2, <2>3
<1>4. CASE UNCHANGED guard /\ req[b] = "locked" /\ Goes(b, "insert")
  BY <1>4
<1>5. CASE /\ UNCHANGED guard
           /\ req[b] \notin {"locked", "insert"}
           /\ \/ UNCHANGED req
              \/ \E step \in {"none", "validated", "authorize"} : Goes(b, step)
  BY <1>5
<1>6. QED
  BY <1>2, <1>3, <1>4, <1>5
     DEF CalendarStep, Request, Check, Insert, AtRest, ConfirmLater, ConfirmNow, Retry,
         AuthorizeOK, AuthorizeFails, Cancel

LEMMA WeekTyped ==
    ASSUME WeekTypeOK, NEW e \in Editors, WeekStep(e)
    PROVE  WeekTypeOK'
<1> USE DEF WeekTypeOK
<1>1. /\ Away \in EditorType
      /\ \A w \in Weeks : Shows(w) \in EditorType
  BY DEF Away, Shows, EditorType, Empty, Weeks
<1>2. CASE Fetch(e)
  BY <1>1, <1>2 DEF Fetch
<1>3. ASSUME NEW d \in Days, Edit(e, d)
      PROVE  WeekTypeOK'
  <2>1. [editor[e].desired EXCEPT ![d] = ~@] \in Weeks
    BY DEF EditorType, Weeks
  <2>2. [editor[e] EXCEPT !.desired[d] = ~@] \in EditorType
    BY <2>1 DEF EditorType
  <2>3. editor' = [editor EXCEPT ![e] = [editor[e] EXCEPT !.desired[d] = ~@]]
    BY <1>3 DEF Edit, EditorType, Weeks
  <2>4. QED
    BY <1>3, <2>2, <2>3 DEF Edit
<1>4. CASE Leave(e)
  BY <1>1, <1>4 DEF Leave
<1>5. ASSUME NEW override \in BOOLEAN, NEW versioned \in BOOLEAN, NEW windows \in BOOLEAN,
             SaveStart(e, override, versioned, windows)
      PROVE  WeekTypeOK'
  <2>1. /\ Changed(e, windows) \in SUBSET Days
        /\ Checked(e, override, versioned) \in BOOLEAN
    BY DEF Changed, Open, Checked
  <2>2. [editor[e] EXCEPT !.version = week] \in EditorType
    BY DEF EditorType
  <2>3. [editor[e] EXCEPT !.at = "saving", !.writes = Changed(e, windows), !.windows = windows,
                          !.checked = Checked(e, override, versioned)] \in EditorType
    BY <2>1 DEF EditorType
  <2>4. /\ UNCHANGED week
        /\ \/ editor' = [editor EXCEPT ![e] = [editor[e] EXCEPT !.version = week]]
           \/ editor' = [editor EXCEPT ![e] = Shows(week)]
           \/ editor' = [editor EXCEPT ![e] =
                [editor[e] EXCEPT !.at = "saving", !.writes = Changed(e, windows),
                                  !.windows = windows,
                                  !.checked = Checked(e, override, versioned)]]
    BY <1>5 DEF SaveStart
  <2>5. QED
    BY <1>1, <2>2, <2>3, <2>4
<1>6. CASE SaveWrite(e)
  <2>1. week' \in Weeks /\ editor[e].desired \in Weeks
    BY <1>6 DEF SaveWrite, EditorType, Weeks
  <2>2. QED
    BY <1>1, <1>6, <2>1 DEF SaveWrite
<1>7. QED
  BY <1>2, <1>3, <1>4, <1>5, <1>6 DEF WeekStep

-----------------------------------------------------------------------------
(* Rows, requests and weeks are always of their types, and an advisory lock*)
(* is held by the request in its critical section (ScheduleTypeOK).        *)
THEOREM ScheduleTyped == ScheduleSafety => []ScheduleTypeOK
<1>1. ScheduleInit => ScheduleTypeOK
  <2>1. CalendarInit => CalendarTypeOK
    <3>1. NoRow \in RowType
      BY DEF NoRow, RowType
    <3>2. \A c \in Bookings : Instructor(c) \in Instructors
      BY DEF Instructors
    <3>3. QED
      BY <3>1, <3>2, CalendarBounds DEF CalendarInit, CalendarTypeOK
  <2>2. WeekInit => WeekTypeOK
    BY DEF WeekInit, WeekTypeOK, Away, EditorType, Empty, Weeks
  <2>3. QED
    BY <2>1, <2>2 DEF ScheduleInit, ScheduleTypeOK
<1>2. ScheduleTypeOK /\ [ScheduleNext]_vars => ScheduleTypeOK'
  <2>1. ASSUME ScheduleTypeOK, NEW b \in Bookings, BookingStep(b), UNCHANGED weekVars
        PROVE  ScheduleTypeOK'
    BY <2>1, OneRowMoves, GuardTyped
       DEF ScheduleTypeOK, BookingStep, CalendarTypeOK, WeekTypeOK, weekVars
  <2>2. ASSUME ScheduleTypeOK, NEW e \in Editors, WeekStep(e), UNCHANGED calendarVars
        PROVE  ScheduleTypeOK'
    BY <2>2, WeekTyped DEF ScheduleTypeOK, CalendarTypeOK, calendarVars
  <2>3. ASSUME ScheduleTypeOK, UNCHANGED vars
        PROVE  ScheduleTypeOK'
    BY <2>3 DEF ScheduleTypeOK, CalendarTypeOK, WeekTypeOK, vars, calendarVars, weekVars
  <2>4. QED
    BY <2>1, <2>2, <2>3 DEF ScheduleNext
<1>3. QED
  BY <1>1, <1>2, PTL DEF ScheduleSafety

-----------------------------------------------------------------------------
(* A booking becomes CONFIRMED only where the constraints of the table let *)
(* it, and a CONFIRMED one does not move.                                  *)
LEMMA ConfirmedStep ==
    ASSUME CalendarTypeOK, NEW b \in Bookings, CalendarStep(b), rows'[b].status = "CONFIRMED"
    PROVE  /\ rows'[b].slot = rows[b].slot
           /\ rows[b].status = "CONFIRMED" \/ ~Excluded(b)
<1> USE DEF CalendarTypeOK
<1>1. /\ rows[b] \in RowType
      /\ Forgiven(rows[b]) \in RowType
      /\ Forgiven(rows[b]).status = rows[b].status
      /\ Forgiven(rows[b]).slot = rows[b].slot
  BY DEF RowType, Forgiven
<1>2. CASE \E slot \in Slots : Request(b, slot)
  BY <1>2 DEF Request, RowType
<1>3. CASE Check(b)
  BY <1>3, NoRows DEF Check
<1>4. CASE Insert(b)
  BY <1>4, NoRows DEF Insert, RowType
<1>5. CASE ConfirmLater(b) \/ ConfirmNow(b)
  BY <1>1, <1>5 DEF ConfirmLater, ConfirmNow, RowType
<1>6. CASE AuthorizeOK(b) \/ AuthorizeFails(b)
  BY <1>1, <1>6 DEF AuthorizeOK, AuthorizeFails, RowType
<1>7. CASE Cancel(b)
  BY <1>7, NoRows DEF Cancel
<1>8. CASE Lock(b) \/ Retry(b)
  BY <1>8 DEF Lock, Retry
<1>9. QED
  BY <1>2, <1>3, <1>4, <1>5, <1>6, <1>7, <1>8 DEF CalendarStep

(* Nobody has two lessons at one instant, as far as the clocks of the      *)
(* instructors agree (NoDoubleBooking): what the constraints compare are   *)
(* readings, and from one clock they are instants.                         *)
THEOREM NobodyIsDoubleBooked == ScheduleSafety => []NoDoubleBooking
<1>1. ScheduleInit => NoDoubleBooking
  BY DEF ScheduleInit, CalendarInit, NoRow, NoDoubleBooking
<1>2. ScheduleTypeOK /\ NoDoubleBooking /\ [ScheduleNext]_vars => NoDoubleBooking'
  <2>1. ASSUME ScheduleTypeOK, NoDoubleBooking,
               NEW b \in Bookings, BookingStep(b)
        PROVE  NoDoubleBooking'
    <3>1. CalendarTypeOK /\ CalendarStep(b)
      BY <2>1 DEF ScheduleTypeOK, BookingStep
    <3>2. ASSUME NEW c \in Bookings \ {b}, rows'[b].status = "CONFIRMED",
                 rows'[c].status = "CONFIRMED",
                 Student(b) = Student(c) \/ Instructor(b) = Instructor(c),
                 Offset(Instructor(b)) = Offset(Instructor(c))
          PROVE  Begins(b)' # Begins(c)'
      <4>1. rows'[c] = rows[c] /\ rows'[b].slot = rows[b].slot
        BY <3>1, <3>2, OneRowMoves, ConfirmedStep
      <4>2. CASE rows[b].status = "CONFIRMED"
        <5>1. Begins(b) # Begins(c)
          BY <2>1, <3>2, <4>1, <4>2 DEF NoDoubleBooking
        <5>2. QED
          BY <4>1, <5>1 DEF Begins
      <4>3. CASE ~Excluded(b)
        <5>1. Apart(b, c, 0)
          BY <3>2, <4>1, <4>3 DEF Excluded
        <5>2. /\ rows[b].slot \in Int /\ rows[c].slot \in Int
              /\ Offset(Instructor(b)) \in Int
          <6>1. rows[b].slot \in Slots \cup {0} /\ rows[c].slot \in Slots \cup {0}
            BY <3>1 DEF CalendarTypeOK, RowType
          <6>2. Offset(Instructor(b)) \in Int
            BY Clocks
          <6>3. Slots \cup {0} \subseteq Int
            BY CalendarBounds
          <6>4. QED
            BY <6>1, <6>2, <6>3, Zenon
        <5>3. rows[b].slot # rows[c].slot
          BY <5>1, <5>2 DEF Apart
        <5>4. QED
          BY <3>2, <4>1, <5>2, <5>3 DEF Begins
      <4>4. QED
        BY <3>1, <3>2, <4>2, <4>3, ConfirmedStep
    <3>3. ASSUME NEW x \in Bookings, NEW y \in Bookings \ {x}, x # b, y # b,
                 rows'[x].status = "CONFIRMED", rows'[y].status = "CONFIRMED",
                 Student(x) = Student(y) \/ Instructor(x) = Instructor(y),
                 Offset(Instructor(x)) = Offset(Instructor(y))
          PROVE  Begins(x)' # Begins(y)'
      <4>1. rows'[x] = rows[x] /\ rows'[y] = rows[y]
        BY <3>1, <3>3, OneRowMoves
      <4>2. Begins(x) # Begins(y)
        BY <2>1, <3>3, <4>1 DEF NoDoubleBooking
      <4>3. QED
        BY <4>1, <4>2 DEF Begins
    <3>4. QED
      BY <3>2, <3>3 DEF NoDoubleBooking
  <2>2. CASE UNCHANGED calendarVars
    BY <2>2 DEF NoDoubleBooking, Begins, calendarVars
  <2>3. QED
    BY <2>1, <2>2 DEF ScheduleNext, vars
<1>3. QED
  BY <1>1, <1>2, ScheduleTyped, PTL DEF ScheduleSafety

-----------------------------------------------------------------------------
(* A booking that takes its slot from the insertion on, its payment never  *)
(* declined.                                                               *)
Sound(b) == rows[b].status \in {"PENDING", "CONFIRMED"} /\ rows[b].declined = "never"

(* What the check has found is so until the insertion: nobody inserts      *)
(* without the lock.                                                       *)
CheckHolds ==
    \A b \in Bookings : \A c \in Bookings \ {b} :
       req[b] = "insert" /\ Sound(c) /\ Instructor(b) = Instructor(c) => Apart(b, c, Buffer)

(* Who authorizes a payment finds the booking as it was: a cancellation    *)
(* waits for the mutex.                                                    *)
PaysPending == \A b \in Bookings : req[b] = "authorize" => rows[b].status = "PENDING"

(* The booking that moves becomes sound only by its insertion, and neither *)
(* a sound booking nor one that is to be inserted changes its slot.        *)
LEMMA SoundStep ==
    ASSUME CalendarTypeOK, PaysPending, NEW b \in Bookings, CalendarStep(b)
    PROVE  /\ PaysPending'
           /\ Sound(b)' => /\ Sound(b) \/ req[b] = "insert"
                           /\ rows'[b].slot = rows[b].slot
           /\ req'[b] = "insert" => /\ req[b] = "locked" /\ ~Conflicts(b)
                                    /\ rows'[b] = rows[b]
<1> USE DEF CalendarTypeOK, Sound, Goes
<1> DEFINE Pays == req'[b] = "authorize" => rows'[b].status = "PENDING"
           Becomes == Sound(b)' => /\ Sound(b) \/ req[b] = "insert"
                                   /\ rows'[b].slot = rows[b].slot
           Found == req'[b] = "insert" => /\ req[b] = "locked" /\ ~Conflicts(b)
                                          /\ rows'[b] = rows[b]
<1>r. /\ rows[b] \in RowType
      /\ Forgiven(rows[b]) \in RowType
      /\ Forgiven(rows[b]).status = rows[b].status
      /\ Forgiven(rows[b]).slot = rows[b].slot
      /\ Forgiven(rows[b]).declined = "never" => rows[b].declined = "never"
  BY DEF RowType, Forgiven
<1>1. ASSUME NEW slot \in Slots, Request(b, slot)
      PROVE  Pays /\ Becomes /\ Found
  BY <1>1 DEF Request, RowType
<1>2. ASSUME Lock(b) \/ Retry(b)
      PROVE  Pays /\ Becomes /\ Found
  BY <1>2 DEF Lock, Retry, AtRest
<1>3. ASSUME Check(b)
      PROVE  Pays /\ Becomes /\ Found
  BY <1>3, NoRows DEF Check, Ends
<1>4. ASSUME Insert(b)
      PROVE  Pays /\ Becomes /\ Found
  BY <1>4, NoRows DEF Insert, Ends, RowType
<1>5. ASSUME ConfirmLater(b) \/ ConfirmNow(b)
      PROVE  Pays /\ Becomes /\ Found
  BY <1>r, <1>5 DEF ConfirmLater, ConfirmNow, AtRest, RowType
<1>6. ASSUME AuthorizeOK(b) \/ AuthorizeFails(b)
      PROVE  Pays /\ Becomes /\ Found
  BY <1>r, <1>6 DEF AuthorizeOK, AuthorizeFails, PaysPending, RowType
<1>7. ASSUME Cancel(b)
      PROVE  Pays /\ Becomes /\ Found
  BY <1>7, NoRows DEF Cancel
<1>8. Pays /\ Becomes /\ Found
  BY <1>1, <1>2, <1>3, <1>4, <1>5, <1>6, <1>7 DEF CalendarStep
<1>9. PaysPending'
  BY <1>8, OneRowMoves DEF PaysPending
<1>10. QED
  BY <1>8, <1>9

(* The instructor has the buffer between any two sound lessons             *)
(* (BufferKept): the invariant is that what a request has found under the  *)
(* advisory lock still holds when it inserts.                              *)
THEOREM BufferIsKept == ScheduleSafety => []BufferKept
<1> DEFINE IInv == BufferKept /\ CheckHolds /\ PaysPending
<1>1. ScheduleInit => IInv
  BY NoRows DEF ScheduleInit, CalendarInit, BufferKept, CheckHolds, PaysPending
<1>2. ScheduleTypeOK /\ IInv /\ [ScheduleNext]_vars => IInv'
  <2>1. ASSUME ScheduleTypeOK, IInv, NEW b \in Bookings, BookingStep(b)
        PROVE  IInv'
    <3>1. CalendarTypeOK /\ CalendarStep(b)
      BY <2>1 DEF ScheduleTypeOK, BookingStep
    <3>2. ASSUME NEW c \in Bookings \ {b}, Instructor(b) = Instructor(c), Sound(c)'
          PROVE  Sound(c) /\ rows'[c] = rows[c] /\ req'[c] = req[c]
      BY <3>1, <3>2, OneRowMoves DEF Sound
    <3>3. ASSUME NEW c \in Bookings \ {b}, Instructor(b) = Instructor(c), Sound(b)', Sound(c)'
          PROVE  Apart(b, c, Buffer)' /\ Apart(c, b, Buffer)'
      <4>1. Sound(c) /\ rows'[c] = rows[c] /\ rows'[b].slot = rows[b].slot
        BY <2>1, <3>1, <3>2, <3>3, SoundStep
      <4>2. Apart(b, c, Buffer)
        BY <2>1, <3>1, <3>3, <4>1, SoundStep DEF BufferKept, CheckHolds, Sound
      <4>3. QED
        BY <4>1, <4>2 DEF Apart
    <3>4. BufferKept'
      <4>1. ASSUME NEW x \in Bookings, NEW y \in Bookings \ {x}, x # b, y # b,
                   Sound(x)', Sound(y)', Instructor(x) = Instructor(y)
            PROVE  Apart(x, y, Buffer)'
        BY <2>1, <3>1, <4>1, OneRowMoves DEF BufferKept, Sound, Apart
      <4>2. QED
        BY <3>3, <4>1 DEF BufferKept, Sound
    <3>5. CheckHolds'
      <4>1. ASSUME NEW c \in Bookings \ {b}, Instructor(b) = Instructor(c),
                   req'[b] = "insert", Sound(c)'
            PROVE  Apart(b, c, Buffer)'
        <5>1. rows'[b] = rows[b] /\ ~Conflicts(b)
          BY <2>1, <3>1, <4>1, SoundStep
        <5>2. Sound(c) /\ rows'[c] = rows[c]
          BY <3>1, <4>1, OneRowMoves DEF Sound
        <5>3. Apart(b, c, Buffer)
          BY <4>1, <5>1, <5>2 DEF Conflicts, Blocks, Sound
        <5>4. QED
          BY <5>1, <5>2, <5>3 DEF Apart
      <4>2. ASSUME NEW c \in Bookings \ {b}, Instructor(b) = Instructor(c),
                   req'[c] = "insert", Sound(b)'
            PROVE  Apart(c, b, Buffer)'
        <5>1. req[c] = "insert" /\ rows'[c] = rows[c] /\ rows'[b].slot = rows[b].slot
          BY <2>1, <3>1, <4>2, OneRowMoves, SoundStep
        <5>2. req[b] # "insert"
          BY <3>1, <4>2, <5>1 DEF CalendarTypeOK
        <5>3. Sound(b)
          BY <2>1, <3>1, <4>2, <5>2, SoundStep
        <5>4. Apart(c, b, Buffer)
          BY <2>1, <4>2, <5>1, <5>3 DEF CheckHolds
        <5>5. QED
          BY <5>1, <5>4 DEF Apart
      <4>3. ASSUME NEW x \in Bookings, NEW y \in Bookings \ {x}, x # b, y # b,
                   req'[x] = "insert", Sound(y)', Instructor(x) = Instructor(y)
            PROVE  Apart(x, y, Buffer)'
        BY <2>1, <3>1, <4>3, OneRowMoves DEF CheckHolds, Sound, Apart
      <4>4. QED
        BY <4>1, <4>2, <4>3 DEF CheckHolds
    <3>6. QED
      BY <2>1, <3>1, <3>4, <3>5, SoundStep
  <2>2. IInv /\ UNCHANGED calendarVars => IInv'
    BY DEF BufferKept, CheckHolds, PaysPending, Sound, Apart, calendarVars
  <2>3. QED
    BY <2>1, <2>2 DEF ScheduleNext, vars
<1>3. QED
  BY <1>1, <1>2, ScheduleTyped, PTL DEF ScheduleSafety

-----------------------------------------------------------------------------
(* A save that was checked writes only days that were edited or are opened *)
(* anew.                                                                   *)
WritesAreEdits ==
    \A e \in Editors :
       editor[e].at = "saving" /\ editor[e].checked =>
          \A d \in editor[e].writes :
             \/ editor[e].desired[d] # editor[e].base[d]
             \/ editor[e].windows /\ editor[e].desired[d]

(* What others saved on other days survives a save (OtherDaysSurvive): the *)
(* version check makes the days that differ the days that were edited.     *)
THEOREM OtherDaysAreKept == ScheduleSafety => OtherDaysSurvive
<1> DEFINE Change == \A d \in Days :
                        week'[d] # week[d] =>
                           \E e \in Editors : /\ editor[e].at = "saving"
                                              /\ editor'[e].at = "viewing"
                                              /\ \/ ~editor[e].checked
                                                 \/ editor[e].desired[d] # editor[e].base[d]
                                                 \/ editor[e].windows /\ editor[e].desired[d]
<1>0. Away.at = "away" /\ \A w : Shows(w).at = "viewing"
  BY DEF Away, Shows
<1>1. ScheduleInit => WritesAreEdits
  BY <1>0 DEF ScheduleInit, WeekInit, WritesAreEdits
<1>2. ScheduleTypeOK /\ WritesAreEdits /\ [ScheduleNext]_vars => WritesAreEdits' /\ [Change]_weekVars
  <2>1. ASSUME ScheduleTypeOK, WritesAreEdits, NEW e \in Editors, WeekStep(e)
        PROVE  WritesAreEdits' /\ Change
    <3> USE <2>1 DEF ScheduleTypeOK, WeekTypeOK
    <3>1. ASSUME Fetch(e) \/ Leave(e)
          PROVE  WritesAreEdits' /\ Change
      <4>1. editor'[e].at # "saving" /\ \A f \in Editors \ {e} : editor'[f] = editor[f]
        BY <1>0, <3>1 DEF Fetch, Leave
      <4>2. UNCHANGED week
        BY <3>1 DEF Fetch, Leave
      <4>3. QED
        BY <4>1, <4>2 DEF WritesAreEdits
    <3>2. CASE \E d \in Days : Edit(e, d)
      BY <3>2 DEF Edit, WritesAreEdits, EditorType
    <3>3. ASSUME NEW override \in BOOLEAN, NEW versioned \in BOOLEAN, NEW windows \in BOOLEAN,
                 SaveStart(e, override, versioned, windows)
          PROVE  WritesAreEdits' /\ Change
      <4>1. UNCHANGED week /\ \A f \in Editors \ {e} : editor'[f] = editor[f]
        BY <3>3 DEF SaveStart
      <4>2. CASE editor'[e].at # "saving"
        BY <4>1, <4>2 DEF WritesAreEdits
      <4>3. CASE /\ Accepted(e, override, versioned)
                 /\ editor'[e] = [editor[e] EXCEPT !.at = "saving",
                                                   !.writes = Changed(e, windows),
                                                   !.windows = windows,
                                                   !.checked = Checked(e, override, versioned)]
        <5>1. /\ editor'[e].base = editor[e].base /\ editor'[e].desired = editor[e].desired
              /\ editor'[e].writes = Changed(e, windows) /\ editor'[e].windows = windows
              /\ editor'[e].checked = Checked(e, override, versioned)
          BY <4>3 DEF EditorType
        <5>2. editor'[e].checked => editor[e].base = week
          BY <4>3, <5>1 DEF Accepted, Checked
        <5>3. QED
          BY <4>1, <5>1, <5>2 DEF WritesAreEdits, Changed, Open
      <4>4. editor[e] \in EditorType /\ editor[e].at = "viewing"
        BY <3>3 DEF SaveStart
      <4>5. QED
        BY <1>0, <3>3, <4>2, <4>3, <4>4 DEF SaveStart, EditorType
    <3>4. CASE SaveWrite(e)
      <4>1. editor[e].at = "saving" /\ editor'[e].at = "viewing"
        BY <1>0, <3>4 DEF SaveWrite
      <4>2. \A f \in Editors \ {e} : editor'[f] = editor[f]
        BY <3>4 DEF SaveWrite
      <4>3. \A d \in Days : week'[d] # week[d] => d \in editor[e].writes
        BY <3>4 DEF SaveWrite
      <4>4. QED
        BY <4>1, <4>2, <4>3 DEF WritesAreEdits
    <3>5. QED
      BY <3>1, <3>2, <3>3, <3>4 DEF WeekStep
  <2>2. WritesAreEdits /\ UNCHANGED weekVars => WritesAreEdits'
    BY DEF WritesAreEdits, weekVars
  <2>3. QED
    BY <2>1, <2>2 DEF ScheduleNext, vars
<1>3. QED
  BY <1>1, <1>2, ScheduleTyped, PTL DEF ScheduleSafety, OtherDaysSurvive
=============================================================================
