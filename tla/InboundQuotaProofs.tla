------------------------- MODULE InboundQuotaProofs -------------------------
(***************************************************************************)
(* Theorems about InboundQuota for any inbounds, quota, month and bounds:  *)
(* types, the mark of a switch-off for traffic, the precedence of expiry   *)
(* and the day of the last reset.                                          *)
(***************************************************************************)
EXTENDS InboundQuota, TLAPS

USE QuotaAssumption

-----------------------------------------------------------------------------
(***************************************************************************)
(* What holds of a row holds of every copy of it in flight: of the row an  *)
(* update has read and of those the reset job has read.                    *)
(***************************************************************************)
Sound(r) == /\ r.enable => ~r.marked
            /\ r.marked => r.cause \in {"quota", "admin"}
            /\ r.last <= now

RowsSound == \A i \in Inbounds : Sound(row[i])
UpdateSound == req # None => /\ Sound(req.old)
                             /\ CheckTrafficResetMode(req.form.mode, req.form.expiry)
ResetSound == /\ reset.day <= now
              /\ \A i \in reset.todo : reset.copy[i] \in Row /\ Sound(reset.copy[i])

IInv == Types /\ RowsSound /\ UpdateSound /\ ResetSound

LEMMA SpendType ==
  ASSUME Types, NEW b \in {"requests", "errors"}, Spend(b)
  PROVE  left' \in [{"requests", "errors"} -> Nat]
BY DEF Types, Spend

(* The reset of this cycle lies in the past: last month's day if need be. *)
LEMMA MonthBegun ==
  ASSUME NEW d \in Nat
  PROVE  (d \div Cycle) * Cycle \in Nat /\ (d \div Cycle) * Cycle <= d
<1>1. d \div Cycle \in Nat /\ (d \div Cycle) * Cycle <= d
  OBVIOUS
<1>2. \A m, n \in Nat : m * n \in Nat
  OBVIOUS
<1>3. (d \div Cycle) * Cycle \in Nat
  BY <1>1, <1>2, Zenon
<1> QED
  BY <1>1, <1>3

LEMMA ResetInstantPast ==
  ASSUME NEW day \in Nat, day < Cycle, NEW d \in Nat
  PROVE  ResetInstantFor(day, d) \in Int /\ ResetInstantFor(day, d) <= d
BY MonthBegun DEF ResetInstantFor

LEMMA ResetDayType ==
  ASSUME NEW r \in Row PROVE ResetDayFor(r) \in Nat /\ ResetDayFor(r) < Cycle
<1>1. r.expiry \in Nat
  BY DEF Row, Columns, Days
<1>2. r.expiry % Cycle \in Nat /\ r.expiry % Cycle < Cycle
  BY <1>1
<1> QED
  BY <1>2 DEF ResetDayFor

LEMMA InvInit == Init => IInv
<1> SUFFICES ASSUME Init PROVE IInv
  OBVIOUS
<1>1. row \in [Inbounds -> Row] /\ \A i \in Inbounds : Sound(row[i])
  BY DEF Init, Sound
<1>2. reset \in [on : BOOLEAN, day : 0..MaxNow, copy : [Inbounds -> Row \cup {None}],
                 todo : SUBSET Inbounds, revived : BOOLEAN]
  BY DEF Init, ResetIdle
<1>3. left \in [{"requests", "errors"} -> Nat]
  BY DEF Init
<1>4. Types
  <2>1. now \in 0..MaxNow /\ check \in [on : BOOLEAN, some : BOOLEAN]
    BY DEF Init, CheckIdle
  <2>2. page = None /\ req = None /\ need \in BOOLEAN /\ missed \in BOOLEAN /\ core \in SUBSET Inbounds
    BY DEF Init
  <2> QED
    BY <1>1, <1>2, <1>3, <2>1, <2>2 DEF Types
<1> QED
  BY <1>1, <1>4 DEF Init, IInv, RowsSound, UpdateSound, ResetSound, ResetIdle

-----------------------------------------------------------------------------
(***************************************************************************)
(* Each writer of a row, told once: from a row, or a copy, that is sound   *)
(* it makes a row that is sound.                                           *)
(***************************************************************************)
LEMMA SavedSound ==
  ASSUME Types, req # None, UpdateSound
  PROVE  Saved(req.old, req.form) \in Row /\ Sound(Saved(req.old, req.form))
<1>1. req.form \in Form /\ req.old \in Columns /\ now \in 0..MaxNow
  BY DEF Types, Row
<1>2. Saved(req.old, req.form) \in Columns
  BY <1>1 DEF Form, Columns, Causes, Saved
<1>3. Sound(Saved(req.old, req.form))
  BY <1>1 DEF Form, Columns, Saved, Sound, UpdateSound
<1>4. Saved(req.old, req.form).mode = "bill" => Saved(req.old, req.form).expiry > 0
  BY DEF Saved, UpdateSound, CheckTrafficResetMode
<1> QED
  BY <1>2, <1>3, <1>4 DEF Row

(* ResetOne on a row that may have changed since it was read. *)
LEMMA ResetRowSound ==
  ASSUME Types, ResetSound, NEW i \in reset.todo, Due(i), NEW r \in Row, Sound(r),
         NEW instant, instant = ResetInstantFor(ResetDayFor(reset.copy[i]), reset.day)
  PROVE  /\ instant \in 0..now
         /\ [r EXCEPT !.used = 0, !.last = instant, !.enable = TRUE, !.marked = FALSE, !.cause = "none"] \in Row
         /\ Sound([r EXCEPT !.used = 0, !.last = instant, !.enable = TRUE, !.marked = FALSE, !.cause = "none"])
         /\ [r EXCEPT !.used = 0, !.last = instant] \in Row
         /\ Sound([r EXCEPT !.used = 0, !.last = instant])
<1>1. reset.copy[i] \in Row /\ reset.day \in Nat /\ reset.day <= now /\ now \in 0..MaxNow
  BY DEF ResetSound, Types
<1>2. ResetDayFor(reset.copy[i]) \in Nat /\ ResetDayFor(reset.copy[i]) < Cycle
  BY <1>1, ResetDayType
<1>3. instant \in Int /\ instant <= reset.day
  BY <1>1, <1>2, ResetInstantPast
<1>4. reset.copy[i].last \in Nat /\ reset.copy[i].last < instant
  BY <1>1 DEF Due, Row, Columns
<1>5. instant \in 0..now /\ instant \in 0..MaxNow
  BY <1>1, <1>3, <1>4
<1>6. r \in Columns /\ (r.mode = "bill" => r.expiry > 0) /\ 0 \in 0..MaxUsed /\ "none" \in Causes
  BY DEF Row, Causes
<1>7. /\ [r EXCEPT !.used = 0, !.last = instant, !.enable = TRUE, !.marked = FALSE, !.cause = "none"] \in Row
      /\ [r EXCEPT !.used = 0, !.last = instant] \in Row
  <2>1. [r EXCEPT !.used = 0, !.last = instant, !.enable = TRUE, !.marked = FALSE, !.cause = "none"] \in Columns
    BY <1>5, <1>6 DEF Columns
  <2>2. [r EXCEPT !.used = 0, !.last = instant] \in Columns
    BY <1>5, <1>6 DEF Columns
  <2> QED
    BY <1>6, <2>1, <2>2 DEF Row, Columns
<1>8. /\ Sound([r EXCEPT !.used = 0, !.last = instant, !.enable = TRUE, !.marked = FALSE, !.cause = "none"])
      /\ Sound([r EXCEPT !.used = 0, !.last = instant])
  BY <1>5, <1>6, SMTT(30) DEF Columns, Sound
<1> QED
  BY <1>5, <1>7, <1>8

LEMMA RenewedRowSound ==
  ASSUME Types, NEW r \in Row, Sound(r), NEW newExpiry \in Days, newExpiry > 0
  PROVE  /\ [r EXCEPT !.expiry = newExpiry, !.marked = FALSE, !.enable = TRUE, !.used = 0, !.cause = "none"] \in Row
         /\ Sound([r EXCEPT !.expiry = newExpiry, !.marked = FALSE, !.enable = TRUE, !.used = 0, !.cause = "none"])
         /\ [r EXCEPT !.expiry = newExpiry, !.marked = FALSE] \in Row
         /\ Sound([r EXCEPT !.expiry = newExpiry, !.marked = FALSE])
<1>1. r \in Columns /\ 0 \in 0..MaxUsed /\ "none" \in Causes
  BY DEF Row, Causes
<1>2. /\ [r EXCEPT !.expiry = newExpiry, !.marked = FALSE, !.enable = TRUE, !.used = 0, !.cause = "none"] \in Row
      /\ [r EXCEPT !.expiry = newExpiry, !.marked = FALSE] \in Row
  <2>1. [r EXCEPT !.expiry = newExpiry, !.marked = FALSE, !.enable = TRUE, !.used = 0, !.cause = "none"] \in Columns
    BY <1>1 DEF Columns
  <2>2. [r EXCEPT !.expiry = newExpiry, !.marked = FALSE] \in Columns
    BY <1>1 DEF Columns
  <2> QED
    BY <1>1, <2>1, <2>2 DEF Row, Columns
<1>3. /\ Sound([r EXCEPT !.expiry = newExpiry, !.marked = FALSE, !.enable = TRUE, !.used = 0, !.cause = "none"])
      /\ Sound([r EXCEPT !.expiry = newExpiry, !.marked = FALSE])
  BY <1>1, SMTT(30) DEF Columns, Sound
<1> QED
  BY <1>2, <1>3

-----------------------------------------------------------------------------
(***************************************************************************)
(* The invariant when the day, the request and the reset in progress stay: *)
(* what is left to show is that the new rows are sound.                    *)
(***************************************************************************)
LEMMA OnlyRows ==
  ASSUME IInv, UNCHANGED <<now, page, req, reset>>,
         row' \in [Inbounds -> Row], \A i \in Inbounds : Sound(row'[i]),
         check' \in [on : BOOLEAN, some : BOOLEAN], need' \in BOOLEAN, missed' \in BOOLEAN,
         core' \in SUBSET Inbounds, left' \in [{"requests", "errors"} -> Nat]
  PROVE  IInv'
<1>1. Types'
  BY DEF IInv, Types
<1>2. RowsSound' /\ UpdateSound' /\ ResetSound'
  BY DEF IInv, RowsSound, UpdateSound, ResetSound, Sound
<1> QED
  BY <1>1, <1>2 DEF IInv

LEMMA InvStep == IInv /\ [Next]_vars => IInv'
<1> SUFFICES ASSUME IInv, [Next]_vars PROVE IInv'
  OBVIOUS
<1> USE DEF IInv
<1>types. /\ now \in 0..MaxNow /\ row \in [Inbounds -> Row] /\ check \in [on : BOOLEAN, some : BOOLEAN]
          /\ need \in BOOLEAN /\ missed \in BOOLEAN /\ core \in SUBSET Inbounds
          /\ left \in [{"requests", "errors"} -> Nat]
  BY DEF Types
<1>rows. \A i \in Inbounds : row[i] \in Row /\ Sound(row[i])
  BY <1>types DEF RowsSound
<1>1. CASE Tick
  <2>1. Types'
    BY <1>1, <1>types DEF Types, Tick
  <2>2. now <= now' /\ now \in Nat /\ now' \in Nat
    BY <1>1, <1>types DEF Tick
  <2>3. RowsSound'
    BY <1>1, <2>2, <1>types DEF Tick, RowsSound, Sound, Row, Columns
  <2>4. UpdateSound'
    BY <1>1, <2>2 DEF Tick, UpdateSound, Sound, Types, Row, Columns
  <2>5. ResetSound'
    <3>1. reset' = reset /\ reset.day \in Nat
      BY <1>1 DEF Tick, Types
    <3>2. \A i \in reset.todo : reset.copy[i] \in Row /\ Sound(reset.copy[i])
      BY DEF ResetSound
    <3>3. \A i \in reset.todo : Sound(reset.copy[i])'
      BY <3>1, <3>2, <2>2 DEF Sound, Row, Columns
    <3> QED
      BY <3>1, <3>2, <3>3, <2>2 DEF ResetSound
  <2> QED
    BY <2>1, <2>3, <2>4, <2>5
<1>2. ASSUME NEW i \in Inbounds, AddTraffic(i) PROVE IInv'
  <2>1. [row[i] EXCEPT !.used = @ + 1] \in Row /\ Sound([row[i] EXCEPT !.used = @ + 1])
    <3>1. row[i] \in Columns /\ row[i].used + 1 \in 0..MaxUsed
      BY <1>rows, <1>2 DEF AddTraffic, Row, Columns
    <3>2. [row[i] EXCEPT !.used = @ + 1] \in Columns
      BY <3>1 DEF Columns
    <3> QED
      BY <3>1, <3>2, <1>rows DEF Row, Columns, Sound
  <2>2. row' \in [Inbounds -> Row] /\ \A j \in Inbounds : Sound(row'[j])
    BY <2>1, <1>rows, <1>types, <1>2 DEF AddTraffic
  <2> QED
    BY <2>2, <1>types, <1>2, OnlyRows DEF AddTraffic
<1>3. ASSUME NEW i \in Inbounds, View(i) PROVE IInv'
  <2>1. page' \in Shown
    BY <1>3, <1>rows DEF View, Shown, Row, Columns
  <2>2. Types'
    BY <2>1, <1>3 DEF View, Types
  <2> QED
    BY <2>2, <1>3 DEF View, RowsSound, UpdateSound, ResetSound, Sound
<1>4. ASSUME NEW form \in [id : Inbounds, enable : BOOLEAN, toggled : BOOLEAN, used : 0..MaxUsed,
                            expiry : Expiries, mode : Modes], UpdateRead(form)
      PROVE  IInv'
  <2>1. form \in Form /\ form.id \in Inbounds
    BY DEF Form
  <2>2. left' \in [{"requests", "errors"} -> Nat]
    BY <1>4, SpendType DEF UpdateRead
  <2>3. req' = [form |-> form, old |-> row[form.id]] /\ page' = None
    BY <1>4 DEF UpdateRead
  <2>4. Types'
    BY <2>1, <2>2, <2>3, <1>4, <1>rows DEF UpdateRead, Types
  <2>5. UpdateSound'
    BY <2>1, <2>3, <1>4, <1>rows DEF UpdateRead, UpdateSound, Sound
  <2> QED
    BY <2>4, <2>5, <1>4 DEF UpdateRead, RowsSound, ResetSound, Sound
<1>5. CASE UpdateSave
  <2>1. req # None /\ req.form.id \in Inbounds
    BY <1>5 DEF UpdateSave, Types, Form
  <2>2. Saved(req.old, req.form) \in Row /\ Sound(Saved(req.old, req.form))
    BY <2>1, SavedSound
  <2>3. row' = [row EXCEPT ![req.form.id] = Saved(req.old, req.form)]
    BY <1>5 DEF UpdateSave
  <2>4. row' \in [Inbounds -> Row] /\ \A i \in Inbounds : Sound(row'[i])
    BY <2>1, <2>2, <2>3, <1>rows, <1>types
  <2>5. Types'
    BY <2>4, <1>5 DEF UpdateSave, SetToNeedRestart, Types
  <2> QED
    BY <2>4, <2>5, <1>5 DEF UpdateSave, RowsSound, UpdateSound, ResetSound, Sound
<1>6. ASSUME NEW i \in Inbounds, NEW expiry \in Expiries, NEW days \in RenewalDays, RenewInbound(i, expiry, days)
      PROVE  IInv'
  <2> DEFINE newExpiry == IF days > 0 THEN RenewedExpiry(row[i].expiry, days) ELSE expiry
  <2>1. newExpiry \in Days
    BY <1>6 DEF RenewInbound
  <2>2. row' = [row EXCEPT ![i] =
               IF newExpiry > now
               THEN [@ EXCEPT !.expiry = newExpiry, !.marked = FALSE, !.enable = TRUE, !.used = 0, !.cause = "none"]
               ELSE [@ EXCEPT !.expiry = newExpiry, !.marked = FALSE]]
    BY <1>6 DEF RenewInbound
  <2>3. newExpiry > 0
    <3>1. row[i].expiry \in Nat /\ now \in Nat /\ days \in Nat /\ expiry \in Nat
      BY <1>rows, <1>types DEF Row, Columns, Days
    <3>2. (days = 0) # (expiry = 0)
      BY <1>6 DEF RenewInbound
    <3> QED
      BY <3>1, <3>2 DEF RenewedExpiry
  <2>4. left' \in [{"requests", "errors"} -> Nat]
    BY <1>6, SpendType DEF RenewInbound
  <2>5. row' \in [Inbounds -> Row] /\ \A j \in Inbounds : Sound(row'[j])
    <3> HIDE DEF newExpiry
    <3>1. row[i] \in Row /\ Sound(row[i])
      BY <1>rows
    <3>2. /\ [row[i] EXCEPT !.expiry = newExpiry, !.marked = FALSE, !.enable = TRUE, !.used = 0, !.cause = "none"] \in Row
          /\ Sound([row[i] EXCEPT !.expiry = newExpiry, !.marked = FALSE, !.enable = TRUE, !.used = 0, !.cause = "none"])
          /\ [row[i] EXCEPT !.expiry = newExpiry, !.marked = FALSE] \in Row
          /\ Sound([row[i] EXCEPT !.expiry = newExpiry, !.marked = FALSE])
      BY <3>1, <2>1, <2>3, RenewedRowSound
    <3>3. row'[i] \in Row /\ Sound(row'[i])
      BY <2>2, <3>2, <1>types
    <3> QED
      BY <2>2, <3>3, <1>rows, <1>types
  <2> QED
    BY <2>4, <2>5, <1>types, <1>6, OnlyRows DEF RenewInbound, SetToNeedRestart
<1>7. CASE DisableExpired
  <2>1. ASSUME NEW i \in Inbounds
        PROVE  row'[i] \in Row /\ Sound(row'[i])
    <3>1. row[i] \in Columns /\ (row[i].mode = "bill" => row[i].expiry > 0) /\ Sound(row[i])
      BY <1>rows DEF Row
    <3>2. CASE i \in Expiring
      <4>1. row'[i] = [row[i] EXCEPT !.enable = FALSE, !.cause = "expired"] /\ row[i].enable
        BY <3>2, <1>7 DEF DisableExpired, Expiring, Enabled
      <4>2. row'[i] \in Columns
        <5>1. "expired" \in Causes /\ FALSE \in BOOLEAN
          BY DEF Causes
        <5> QED BY <3>1, <4>1, <5>1, ZenonT(40) DEF Columns
      <4> QED
        BY <3>1, <4>1, <4>2 DEF Row, Columns, Sound
    <3>3. CASE i \notin Expiring
      BY <3>3, <1>7, <1>rows DEF DisableExpired
    <3> QED
      BY <3>2, <3>3
  <2>2. row' \in [Inbounds -> Row]
    <3>1. row' = [i \in Inbounds |-> row'[i]]
      BY <1>7 DEF DisableExpired
    <3> QED
      BY <2>1, <3>1
  <2>3. check' \in [on : BOOLEAN, some : BOOLEAN]
    BY <1>7 DEF DisableExpired
  <2> QED
    BY <2>1, <2>2, <2>3, <1>types, <1>7, OnlyRows DEF DisableExpired
<1>8. CASE DisableExceeded
  <2>1. ASSUME NEW i \in Inbounds
        PROVE  row'[i] \in Row /\ Sound(row'[i])
    <3>1. row[i] \in Columns /\ (row[i].mode = "bill" => row[i].expiry > 0) /\ Sound(row[i])
      BY <1>rows DEF Row
    <3>2. CASE i \in Exceeding
      <4>1. row'[i] = [row[i] EXCEPT !.enable = FALSE, !.marked = TRUE, !.cause = "quota"]
        BY <3>2, <1>8 DEF DisableExceeded, Exceeding, Enabled
      <4>2. row'[i] \in Columns
        BY <3>1, <4>1 DEF Columns, Causes
      <4> QED
        BY <3>1, <4>1, <4>2 DEF Row, Columns, Sound
    <3>3. CASE i \notin Exceeding
      BY <3>3, <1>8, <1>rows DEF DisableExceeded
    <3> QED
      BY <3>2, <3>3
  <2>2. row' \in [Inbounds -> Row]
    <3>1. row' = [i \in Inbounds |-> row'[i]]
      BY <1>8 DEF DisableExceeded
    <3> QED
      BY <2>1, <3>1
  <2>3. check' \in [on : BOOLEAN, some : BOOLEAN] /\ need' \in BOOLEAN /\ missed' \in BOOLEAN
    BY <1>8, <1>types DEF DisableExceeded, CheckIdle, SetToNeedRestart
  <2> QED
    BY <2>1, <2>2, <2>3, <1>types, <1>8, OnlyRows DEF DisableExceeded
<1>9. CASE DisableExceededFails
  <2>1. left' \in [{"requests", "errors"} -> Nat]
    BY <1>9, SpendType DEF DisableExceededFails
  <2>2. check' \in [on : BOOLEAN, some : BOOLEAN] /\ missed' \in BOOLEAN
    BY <1>9, <1>types DEF DisableExceededFails, CheckIdle
  <2> QED
    BY <2>1, <2>2, <1>rows, <1>types, <1>9, OnlyRows DEF DisableExceededFails
<1>10. CASE ResetFind
  <2> DEFINE copies == [i \in Inbounds |-> IF row[i].mode # "off" THEN [row[i] EXCEPT !.used = 0] ELSE None]
             found == {i \in Inbounds : row[i].mode # "off"}
  <2>1. reset' = [on |-> TRUE, day |-> now, copy |-> copies, todo |-> found, revived |-> FALSE]
    BY <1>10 DEF ResetFind
  <2>2. \A i \in found : copies[i] \in Row /\ Sound(copies[i])
    <3> SUFFICES ASSUME NEW i \in found PROVE copies[i] \in Row /\ Sound(copies[i])
      OBVIOUS
    <3>1. row[i] \in Columns /\ (row[i].mode = "bill" => row[i].expiry > 0) /\ Sound(row[i]) /\ 0 \in 0..MaxUsed
      BY <1>rows DEF Row
    <3>2. copies[i] = [row[i] EXCEPT !.used = 0]
      OBVIOUS
    <3>3. copies[i] \in Columns
      BY <3>1, <3>2 DEF Columns
    <3> QED
      BY <3>1, <3>2, <3>3 DEF Row, Columns, Sound
  <2>3. copies \in [Inbounds -> Row \cup {None}]
    BY <2>2
  <2>4. reset' \in [on : BOOLEAN, day : 0..MaxNow, copy : [Inbounds -> Row \cup {None}],
                    todo : SUBSET Inbounds, revived : BOOLEAN]
    BY <2>1, <2>3, <1>types
  <2>5. Types'
    BY <2>4, <1>10 DEF ResetFind, Types
  <2>6. ResetSound'
    <3> HIDE DEF copies, found
    <3>1. now' = now /\ now \in Nat
      BY <1>10, <1>types DEF ResetFind
    <3> QED
      BY <2>1, <2>2, <3>1 DEF ResetSound, Sound
  <2> QED
    BY <2>5, <2>6, <1>10 DEF ResetFind, RowsSound, UpdateSound, Sound
<1>11. ASSUME NEW i \in Inbounds, ResetOne(i) PROVE IInv'
  <2> DEFINE instant == ResetInstantFor(ResetDayFor(reset.copy[i]), reset.day)
  <2>1. i \in reset.todo /\ UNCHANGED <<now, page, req, check, need, core, missed, left>>
    BY <1>11 DEF ResetOne
  <2>2. row' \in [Inbounds -> Row] /\ \A j \in Inbounds : Sound(row'[j])
    <3>1. CASE ~Due(i)
      BY <3>1, <1>11, <1>rows, <1>types DEF ResetOne
    <3>2. CASE Due(i)
      <4>1. row' = [row EXCEPT ![i] =
                IF Reviving(i)
                THEN [@ EXCEPT !.used = 0, !.last = instant, !.enable = TRUE, !.marked = FALSE, !.cause = "none"]
                ELSE [@ EXCEPT !.used = 0, !.last = instant]]
        BY <3>2, <1>11 DEF ResetOne
      <4> HIDE DEF instant
      <4>2. row[i] \in Row /\ Sound(row[i])
        BY <1>rows
      <4>3. instant = ResetInstantFor(ResetDayFor(reset.copy[i]), reset.day)
        BY DEF instant
      <4>4. /\ [row[i] EXCEPT !.used = 0, !.last = instant, !.enable = TRUE, !.marked = FALSE, !.cause = "none"] \in Row
            /\ Sound([row[i] EXCEPT !.used = 0, !.last = instant, !.enable = TRUE, !.marked = FALSE, !.cause = "none"])
            /\ [row[i] EXCEPT !.used = 0, !.last = instant] \in Row
            /\ Sound([row[i] EXCEPT !.used = 0, !.last = instant])
        BY <2>1, <3>2, <4>2, <4>3, ResetRowSound
      <4>5. row'[i] \in Row /\ Sound(row'[i])
        BY <4>1, <4>4, <1>types
      <4> QED
        BY <4>1, <4>5, <1>rows, <1>types
    <3> QED
      BY <3>1, <3>2
  <2>3. /\ reset'.on = reset.on /\ reset'.day = reset.day
        /\ reset'.todo = reset.todo \ {i} /\ reset'.copy = [reset.copy EXCEPT ![i] = None]
        /\ reset' \in [on : BOOLEAN, day : 0..MaxNow, copy : [Inbounds -> Row \cup {None}],
                       todo : SUBSET Inbounds, revived : BOOLEAN]
    <3>1. reset' = [reset EXCEPT !.todo = @ \ {i}, !.copy[i] = None, !.revived = @ \/ (Due(i) /\ Reviving(i))]
      BY <1>11 DEF ResetOne
    <3>2. reset \in [on : BOOLEAN, day : 0..MaxNow, copy : [Inbounds -> Row \cup {None}],
                     todo : SUBSET Inbounds, revived : BOOLEAN]
      BY DEF Types
    <3>3. (reset.revived \/ (Due(i) /\ Reviving(i))) \in BOOLEAN
      OBVIOUS
    <3>4. [reset.copy EXCEPT ![i] = None] \in [Inbounds -> Row \cup {None}]
      BY <3>2
    <3> QED
      BY <3>1, <3>2, <3>3, <3>4
  <2>4. ResetSound'
    <3>1. \A j \in reset'.todo : j \in reset.todo /\ reset'.copy[j] = reset.copy[j]
      BY <2>3 DEF Types
    <3> QED
      BY <2>1, <2>3, <3>1 DEF ResetSound, Sound
  <2>5. Types'
    BY <2>1, <2>2, <2>3 DEF Types
  <2> QED
    BY <2>1, <2>2, <2>4, <2>5 DEF RowsSound, UpdateSound, Sound
<1>12. CASE ResetEnds
  <2>1. left' \in [{"requests", "errors"} -> Nat]
    BY <1>12, <1>types, SpendType DEF ResetEnds
  <2>2. reset' = ResetIdle /\ UNCHANGED <<now, row, page, req, check, core>>
    BY <1>12 DEF ResetEnds
  <2>3. reset' \in [on : BOOLEAN, day : 0..MaxNow, copy : [Inbounds -> Row \cup {None}],
                    todo : SUBSET Inbounds, revived : BOOLEAN]
    BY <2>2 DEF ResetIdle
  <2>4. need' \in BOOLEAN /\ missed' \in BOOLEAN
    BY <1>12, <1>types DEF ResetEnds, SetToNeedRestart
  <2>5. Types'
    BY <2>1, <2>2, <2>3, <2>4 DEF Types
  <2>6. ResetSound'
    BY <2>2, <1>types DEF ResetSound, ResetIdle
  <2> QED
    BY <2>2, <2>5, <2>6 DEF RowsSound, UpdateSound, Sound
<1>13. CASE Consume
  <2>1. Enabled \in SUBSET Inbounds
    BY DEF Enabled
  <2> QED
    BY <2>1, <1>rows, <1>types, <1>13, OnlyRows DEF Consume
<1>14. CASE UNCHANGED vars
  BY <1>14, <1>rows, <1>types, OnlyRows DEF vars
<1> QED
  BY <1>1, <1>2, <1>3, <1>4, <1>5, <1>6, <1>7, <1>8, <1>9, <1>10, <1>11, <1>12, <1>13, <1>14 DEF Next

LEMMA InvAlways == Spec => []IInv
BY InvInit, InvStep, PTL DEF Spec

-----------------------------------------------------------------------------
(* Every variable keeps its type; in particular no writer leaves a row that is  *)
(* to be reset by its billing cycle without an expiry to take the day from,     *)
(* although the check for it precedes the write by a read, and the day of the   *)
(* last reset is never in the future.                                           *)
THEOREM TypeCorrect == Spec => []QuotaTypeOK
<1>1. IInv => QuotaTypeOK
  BY DEF IInv, QuotaTypeOK, RowsSound, Sound, NoFutureReset
<1> QED
  BY <1>1, InvAlways, PTL

(* An inbound that is on carries no mark, whichever writer came last: a save    *)
(* from a stale page, a renewal, either statement of the check or the reset.    *)
THEOREM MarkGoesWhenOn == Spec => []EnabledNotMarked
<1>1. IInv => EnabledNotMarked
  BY DEF IInv, RowsSound, Sound, EnabledNotMarked
<1> QED
  BY <1>1, InvAlways, PTL

(* The reset never revives an inbound last switched off for expiry.             *)
THEOREM ExpiryIsStronger == Spec => []ExpiryWins
<1>1. IInv => ExpiryWins
  BY DEF IInv, ResetSound, Sound, Reviving, ExpiryWins
<1> QED
  BY <1>1, InvAlways, PTL
=============================================================================
