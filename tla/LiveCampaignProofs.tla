-------------------------- MODULE LiveCampaignProofs --------------------------
(***************************************************************************)
(* For every number of slots, calls and faults, all ceilings and prices:   *)
(* what reached the provider has its own authorization on disk, nothing    *)
(* reaches it after a stop, and a report made of the files is true.        *)
(***************************************************************************)
EXTENDS LiveCampaign, SequenceTheorems, FiniteSetTheorems, TLAPS

\* The runner is in a slot, in an exchange of it, or in one that is counted.
InSlot == {"turn", "authorize", "keep", "dispatch", "settle", "retain", "attempt", "next"}
InExchange == {"authorize", "keep", "dispatch", "settle", "retain"}
Counted == {"keep", "dispatch", "settle"}

\* What a step finds when it needs it.
Progress ==
    /\ pc \in InSlot => slot \in Slot
    /\ pc = "settle" => answer \in Answer
    /\ pc = "retain" => settled \in Settlement
    /\ pc \in InExchange => ledger # <<>>
    /\ pc \in Counted => meter.calls > 0 /\ meter.slotCalls > 0
    /\ pc \notin {"stop", "done", "crashed"} => streak < MaxStreak

Typed == TypeOK /\ Progress

\* The exchange in progress, if it has a number, has the highest, and nobody
\* was sent it yet.
Numbered ==
    /\ Len(ledger) \notin sent
    /\ \A i \in sent : ledger[i].number < meter.calls

LedgerInv ==
    /\ \A i \in sent : ledger[i].intent = "kept" /\ ledger[i].number \in 1..MaxCalls
    /\ \A i, j \in sent : ledger[i].number = ledger[j].number => i = j
    /\ pc # "crashed" => \A i \in sent : ledger[i].number <= meter.calls
    /\ pc \in {"keep", "dispatch"} \/ (pc = "settle" /\ answer.how = "unsent") => Numbered
    /\ pc \in {"authorize", "keep", "dispatch"} => Len(ledger) \notin sent /\ ledger[Len(ledger)].intent = "kept"
    /\ pc = "dispatch" => ledger[Len(ledger)].number = meter.calls
    /\ pc \in {"keep", "dispatch"} => meter.calls \in 1..MaxCalls

KeptAttempts(last) == \A s \in Slot : s <= last => disk.attempt[s] \in {"completed", "failed"}

StopInv ==
    /\ pc \notin {"start", "refused", "done", "crashed"} => lock = [drift |-> None, asked |-> "own"]
    /\ pc \notin {"done", "crashed"} => disk.stop = None
    /\ pc \in {"authorize", "keep", "dispatch"} => ~gate.stopped
    /\ pc \in {"keep", "dispatch"} => ~meter.halted
    /\ pc \in InSlot => KeptAttempts(slot - 1)
    /\ pc \in {"start", "preflight", "begin", "next"} => KeptAttempts(slot)

-----------------------------------------------------------------------------
(* The beginning, and what the meter and the ledger become.                *)

LEMMA NatConstants ==
    /\ {Slots, SlotCalls, MaxCalls, Cap, CallTokens, CampaignTokens, MaxStreak} \subseteq Nat \ {0}
    /\ MaxFaults \in Nat
BY CampaignAssumption

LEMMA TypesBegin == Init => Typed
<1> SUFFICES ASSUME Init PROVE Typed
  OBVIOUS
<1>1. meter \in Meter /\ gate \in Gate /\ disk \in Store
  BY DEF Init, NewMeter, Meter, NewGate, Gate, Kind, Store, Whole
<1>2. cancelled \in BOOLEAN
  BY DEF Init
<1>3. sent \subseteq DOMAIN ledger /\ ledger \in Seq(Entry) /\ slot \in Slot \cup {-1} /\ faults \in 0..MaxFaults /\ streak \in 0..MaxStreak
      /\ answer \in Answer \cup {None} /\ settled \in Settlement \cup {None}
  BY NatConstants DEF Init
<1>4. TypeOK
  BY <1>1, <1>2, <1>3 DEF Init, TypeOK, Ended
<1>5. Progress
  BY NatConstants DEF Init, Progress, InSlot, InExchange, Counted
<1> QED
  BY <1>4, <1>5 DEF Typed

LEMMA LedgerBegins == Init => LedgerInv
BY DEF Init, LedgerInv, Numbered

LEMMA StopBegins == Init => StopInv
BY DEF Init, StopInv, InSlot, KeptAttempts, Slot, NewGate, NewMeter

LEMMA ChargeTyped ==
    ASSUME NEW m \in Meter, NEW receipt \in Receipt, NEW usage \in Usage, NEW model \in {"a", "b"}
    PROVE  /\ Charge(m, receipt, usage, model) \in Meter
           /\ Charge(m, receipt, usage, model).calls = m.calls
<1> DEFINE read == [m EXCEPT !.pending = FALSE]
           known == [read EXCEPT !.current = receipt]
           counted == [known EXCEPT !.tokens = @ + usage]
<1>1. read \in Meter /\ read.calls = m.calls
  BY DEF Meter
<1>2. known \in Meter /\ known.calls = m.calls
  BY <1>1 DEF Meter
<1>3. ASSUME usage \notin {None, Odd}
      PROVE  counted \in Meter /\ counted.calls = m.calls
  <2>1. usage \in Nat
    BY <1>3, NatConstants DEF Usage
  <2>2. known.tokens \in Nat /\ known.tokens + usage \in Nat
    BY <1>2, <2>1 DEF Meter
  <2> HIDE DEF known
  <2> QED
    BY <1>2, <2>2 DEF Meter
<1>4. ASSUME NEW state \in Meter
      PROVE  [state EXCEPT !.halted = TRUE] \in Meter /\ [state EXCEPT !.halted = TRUE].calls = state.calls
  BY DEF Meter
<1>5. counted \in Meter => [counted EXCEPT !.model = model] \in Meter /\ [counted EXCEPT !.model = model].calls = counted.calls
  BY DEF Meter
<1> HIDE DEF read, known, counted
<1>6. Charge(m, receipt, usage, model) \in {[read EXCEPT !.halted = TRUE], [known EXCEPT !.halted = TRUE]}
      \/ /\ usage \notin {None, Odd}
         /\ Charge(m, receipt, usage, model) \in {[counted EXCEPT !.halted = TRUE], [counted EXCEPT !.model = model]}
  BY DEF Charge, read, known, counted
<1> QED
  BY <1>1, <1>2, <1>3, <1>4, <1>5, <1>6

LEMMA UncertainTyped ==
    ASSUME NEW m \in Meter, NEW receipt \in Receipt
    PROVE  Uncertain(m, receipt) \in Meter /\ Uncertain(m, receipt).calls = m.calls
BY DEF Uncertain, Meter

LEMMA ReleasedTyped ==
    ASSUME NEW m \in Meter, m.calls > 0, m.slotCalls > 0
    PROVE  /\ Released(m) \in Meter
           /\ Released(m).calls = m.calls - 1
<1>1. m.calls - 1 \in Nat /\ m.slotCalls - 1 \in Nat
  BY DEF Meter
<1> QED
  BY <1>1 DEF Released, Meter

LEMMA SlotTurnsTyped ==
    ASSUME NEW m \in Meter, NEW active \in BOOLEAN
    PROVE  /\ [m EXCEPT !.active = active, !.slotCalls = 0] \in Meter
           /\ [m EXCEPT !.active = active, !.slotCalls = 0].calls = m.calls
BY DEF Meter

LEMMA AuthorizedTyped ==
    ASSUME NEW m \in Meter,
           NEW new, new = [m EXCEPT !.calls = @ + 1, !.slotCalls = @ + 1, !.pending = TRUE]
    PROVE  /\ new \in Meter /\ new.calls = m.calls + 1
           /\ new.calls > 0 /\ new.slotCalls > 0 /\ new.halted = m.halted
<1>1. m.calls + 1 \in Nat /\ m.slotCalls + 1 \in Nat /\ m.calls + 1 > 0 /\ m.slotCalls + 1 > 0
  BY DEF Meter
<1> QED
  BY <1>1 DEF Meter

LEMMA HaltedTyped ==
    ASSUME NEW m \in Meter
    PROVE  [m EXCEPT !.halted = TRUE] \in Meter /\ [m EXCEPT !.halted = TRUE].calls = m.calls
BY DEF Meter

\* The last exchange of the ledger is changed.
LEMMA LastChanged ==
    ASSUME NEW old \in Seq(Entry), old # <<>>, NEW e \in Entry,
           NEW new, new = [old EXCEPT ![Len(old)] = e]
    PROVE  /\ new \in Seq(Entry) /\ Len(new) = Len(old) /\ DOMAIN new = DOMAIN old
           /\ new[Len(new)] = e
           /\ \A i \in DOMAIN old : i # Len(old) => new[i] = old[i]
BY DEF Entry

LEMMA LastElement ==
    ASSUME NEW old \in Seq(Entry), old # <<>>
    PROVE  Len(old) \in DOMAIN old /\ old[Len(old)] \in Entry
<1>1. Len(old) \in Nat /\ Len(old) # 0
  BY EmptySeq, LenProperties
<1> QED
  BY <1>1, LenProperties, ElementOfSeq

LEMMA FaultTyped ==
    ASSUME faults \in 0..MaxFaults, NEW failed \in BOOLEAN, Fault(failed)
    PROVE  faults' \in 0..MaxFaults
BY NatConstants DEF Fault

LEMMA AfterKept ==
    ASSUME NEW w \in Whole, NEW old, NEW value
    PROVE  After(w, old, value) \in {value, Torn, old} /\ (w = "kept" => After(w, old, value) = value)
BY DEF After, Whole

-----------------------------------------------------------------------------
(* Every action keeps what the variables are.                              *)

LEMMA StutterTyped == ASSUME Typed, UNCHANGED vars PROVE Typed'
BY DEF Typed, TypeOK, Progress, InSlot, InExchange, Counted, vars, call, files, Ended

LEMMA RefuseTyped == ASSUME Typed, Refuse PROVE Typed'
BY DEF Refuse, Typed, TypeOK, Progress, InSlot, InExchange, Counted, call, files, Ended

LEMMA PreviewTyped == ASSUME Typed, Preview PROVE Typed'
BY DEF Preview, Typed, TypeOK, Progress, InSlot, InExchange, Counted, call, files, Ended

LEMMA OpenTyped == ASSUME Typed, NEW w \in Whole, Open(w) PROVE Typed'
<1>1. faults' \in 0..MaxFaults
  BY FaultTyped DEF Open, Typed, TypeOK
<1>2. disk' \in Store
  BY DEF Open, Typed, TypeOK, Store
<1> QED
  BY <1>1, <1>2 DEF Open, Typed, TypeOK, Progress, InSlot, InExchange, Counted, call, files, Ended

LEMMA PreflightTyped == ASSUME Typed, NEW receipt \in Receipt, NEW w \in Whole, Preflight(receipt, w) PROVE Typed'
<1>1. faults' \in 0..MaxFaults
  BY FaultTyped DEF Preflight, Typed, TypeOK
<1>2. disk' \in Store
  <2>1. After(w, disk.preflight, Kept(receipt)) \in {None, Torn, "own", "unavailable"}
    BY AfterKept DEF Typed, TypeOK, Store, Kept
  <2> QED
    BY <2>1 DEF Preflight, Typed, TypeOK, Store
<1>3. meter' \in Meter
  BY DEF Preflight, Typed, TypeOK, Meter
<1> QED
  BY <1>1, <1>2, <1>3 DEF Preflight, Typed, TypeOK, Progress, InSlot, InExchange, Counted, call, files, Ended

LEMMA NoPreflightTyped == ASSUME Typed, NoPreflight PROVE Typed'
<1>1. faults' \in 0..MaxFaults
  BY FaultTyped DEF NoPreflight, QueryFails, Typed, TypeOK
<1> QED
  BY <1>1 DEF NoPreflight, Typed, TypeOK, Progress, InSlot, InExchange, Counted, call, files, Ended

LEMMA BeginSlotTyped == ASSUME Typed, NEW w \in Whole, BeginSlot(w) PROVE Typed'
<1>1. faults' \in 0..MaxFaults
  BY FaultTyped DEF BeginSlot, Typed, TypeOK
<1>2. meter' \in Meter
  BY SlotTurnsTyped DEF BeginSlot, Typed, TypeOK
<1>3. gate' \in Gate
  <2>1. NewGate \in Gate /\ gate \in Gate
    BY DEF Typed, TypeOK, Gate, NewGate, Kind
  <2> QED
    BY <2>1 DEF BeginSlot
<1>4. answer' \in Answer \cup {None}
  BY DEF BeginSlot, Typed, TypeOK, call
<1>5. slot' \in Slot /\ pc' \in {"turn", "crashed"}
  BY DEF BeginSlot
<1> QED
  BY <1>1, <1>2, <1>3, <1>4, <1>5 DEF BeginSlot, Typed, TypeOK, Progress, InSlot, InExchange, Counted, call, files, Ended

LEMMA IntentTyped ==
    ASSUME Typed, NEW directory \in BOOLEAN, NEW w \in Whole, Intent(directory, w)
    PROVE  Typed'
<1>1. faults' \in 0..MaxFaults
  BY FaultTyped DEF Intent, Typed, TypeOK
<1> DEFINE entry == [slot |-> slot, intent |-> w, number |-> None, settlement |-> None]
<1>2. entry \in Entry
  BY DEF Intent, Typed, Progress, InSlot, Entry
<1> HIDE DEF entry
<1>3. /\ ledger' \in Seq(Entry) /\ DOMAIN ledger \subseteq DOMAIN ledger'
      /\ directory => ledger' # <<>>
  <2>1. /\ Append(ledger, entry) \in Seq(Entry) /\ Append(ledger, entry) # <<>>
        /\ DOMAIN ledger \subseteq DOMAIN Append(ledger, entry)
    BY <1>2, AppendProperties, LenProperties DEF Typed, TypeOK
  <2> QED
    BY <2>1 DEF Intent, Typed, TypeOK, entry
<1>4. gate' \in Gate
  BY DEF Intent, Typed, TypeOK, Gate
<1>5. pc' \in {"authorize", "turn"} /\ (pc' = "authorize" => directory)
  BY DEF Intent
<1>6. answer' = None /\ sent' \subseteq DOMAIN ledger'
  BY <1>3 DEF Intent, Typed, TypeOK
<1> QED
  BY <1>1, <1>3, <1>4, <1>5, <1>6 DEF Intent, Typed, TypeOK, Progress, InSlot, InExchange, Counted, call, files, Ended

LEMMA AuthorizeTyped == ASSUME Typed, Authorize PROVE Typed'
<1>1. meter' \in Meter /\ (pc' = "keep" => meter'.calls > 0 /\ meter'.slotCalls > 0)
  BY AuthorizedTyped, HaltedTyped DEF Authorize, Typed, TypeOK
<1>2. gate' \in Gate
  BY DEF Authorize, Typed, TypeOK, Gate
<1>3. pc' \in {"keep", "turn"}
  BY DEF Authorize
<1> QED
  BY <1>1, <1>2, <1>3 DEF Authorize, Typed, TypeOK, Progress, InSlot, InExchange, Counted, call, files, Ended

LEMMA KeepTyped == ASSUME Typed, NEW w \in Whole, Keep(w) PROVE Typed'
<1>1. faults' \in 0..MaxFaults
  BY FaultTyped DEF Keep, Typed, TypeOK
<1>2. ledger # <<>> /\ ledger \in Seq(Entry) /\ meter \in Meter /\ meter.calls > 0 /\ meter.slotCalls > 0
  BY DEF Keep, Typed, TypeOK, Progress, InExchange, Counted
<1>3. ledger' \in Seq(Entry) /\ DOMAIN ledger' = DOMAIN ledger /\ ledger' # <<>>
  <2> DEFINE last == ledger[Len(ledger)]
  <2>1. last \in Entry
    BY <1>2, LastElement
  <2>2. [last EXCEPT !.number = After(w, @, meter.calls)] \in Entry
    <3>1. After(w, last.number, meter.calls) \in Nat \cup {None, Torn}
      BY <1>2, <2>1, AfterKept DEF Entry, Meter
    <3> QED
      BY <2>1, <3>1 DEF Entry
  <2>3. ledger' = [ledger EXCEPT ![Len(ledger)] = [last EXCEPT !.number = After(w, @, meter.calls)]]
    BY DEF Keep
  <2> QED
    BY <1>2, <2>2, <2>3, LastChanged, EmptySeq, LenProperties
<1>4. meter' \in Meter /\ (pc' = "dispatch" => meter' = meter)
  BY <1>2, ReleasedTyped DEF Keep
<1>5. gate' \in Gate
  BY DEF Keep, Typed, TypeOK, Gate
<1>6. pc' \in {"dispatch", "turn"}
  BY DEF Keep
<1> QED
  BY <1>1, <1>2, <1>3, <1>4, <1>5, <1>6 DEF Keep, Typed, TypeOK, Progress, InSlot, InExchange, Counted, call, files, Ended

LEMMA DispatchTyped ==
    ASSUME Typed, NEW a \in Answer, NEW reached \in BOOLEAN, Dispatch(a, reached)
    PROVE  Typed'
<1>1. gate' \in Gate
  BY DEF Dispatch, Typed, TypeOK, Gate, Answer
<1>2. sent' \subseteq DOMAIN ledger
  BY LastElement DEF Dispatch, Typed, TypeOK, Progress, InExchange
<1> QED
  BY <1>1, <1>2 DEF Dispatch, Typed, TypeOK, Progress, InSlot, InExchange, Counted, call, files, Ended

LEMMA InterruptedTyped == ASSUME Typed, NEW reached \in BOOLEAN, Interrupted(reached) PROVE Typed'
<1>1. sent' \subseteq DOMAIN ledger
  BY LastElement DEF Interrupted, Typed, TypeOK, Progress, InExchange
<1> QED
  BY <1>1 DEF Interrupted, Typed, TypeOK, Progress, InSlot, InExchange, Counted, call, files, Ended

LEMMA SettlesTyped ==
    ASSUME Typed, pc = "settle", NEW receipt \in {None, "own", "stale", "unavailable"}, Settles(receipt),
           meter' \in Meter, gate' \in Gate, faults' \in 0..MaxFaults
    PROVE  Typed'
<1>1. answer \in Answer
  BY DEF Typed, Progress
<1>2. settled' \in Settlement
  <2>1. (answer.usage = Odd) \in BOOLEAN
    OBVIOUS
  <2>2. answer.how \in How
    BY <1>1 DEF Answer
  <2> QED
    BY <2>1, <2>2 DEF Settles, Settlement
<1>3. answer' \in Answer
  BY <1>1 DEF Settles, Answer, Usage
<1>4. pc' = "retain"
  BY DEF Settles
<1> QED
  BY <1>2, <1>3, <1>4 DEF Settles, Typed, TypeOK, Progress, InSlot, InExchange, Counted, call, files, Ended

LEMMA SettleTyped == ASSUME Typed, NEW receipt \in Receipt, Settle(receipt) PROVE Typed'
<1>1. answer \in Answer /\ meter \in Meter /\ gate \in Gate
  BY DEF Settle, Typed, TypeOK, Progress
<1>2. meter' \in Meter
  BY <1>1, ChargeTyped, UncertainTyped DEF Settle, Answer
<1>3. gate' \in Gate
  BY <1>1 DEF Settle, Gate
<1>4. Kept(receipt) \in {None, "own", "stale", "unavailable"}
  BY DEF Kept
<1> QED
  BY <1>2, <1>3, <1>4, SettlesTyped DEF Settle, Typed, TypeOK

LEMMA NoBalanceTyped == ASSUME Typed, NEW stop \in BOOLEAN, NoBalance(stop) PROVE Typed'
<1>1. gate' \in Gate /\ meter' \in Meter
  BY DEF NoBalance, Typed, TypeOK, Gate
<1>2. faults' \in 0..MaxFaults
  BY FaultTyped DEF NoBalance, QueryFails, Typed, TypeOK
<1> QED
  BY <1>1, <1>2, SettlesTyped DEF NoBalance

LEMMA NotDispatchedTyped == ASSUME Typed, NotDispatched PROVE Typed'
<1>1. gate' \in Gate
  BY DEF NotDispatched, Typed, TypeOK, Gate
<1>2. meter' \in Meter
  BY ReleasedTyped DEF NotDispatched, Typed, TypeOK, Progress, Counted
<1> QED
  BY <1>1, <1>2, SettlesTyped DEF NotDispatched, Typed, TypeOK

LEMMA RetainTyped == ASSUME Typed, NEW w \in Whole, Retain(w) PROVE Typed'
<1>1. faults' \in 0..MaxFaults
  BY FaultTyped DEF Retain, Typed, TypeOK
<1>2. ledger # <<>> /\ ledger \in Seq(Entry) /\ settled \in Settlement
  BY DEF Retain, Typed, TypeOK, Progress, InExchange
<1>3. ledger' \in Seq(Entry) /\ DOMAIN ledger' = DOMAIN ledger
  <2> DEFINE last == ledger[Len(ledger)]
  <2>1. last \in Entry
    BY <1>2, LastElement
  <2>2. [last EXCEPT !.settlement = After(w, @, settled)] \in Entry
    <3>1. After(w, last.settlement, settled) \in Settlement \cup {None, Torn}
      BY <1>2, <2>1, AfterKept DEF Entry
    <3> QED
      BY <2>1, <3>1 DEF Entry
  <2>3. ledger' = [ledger EXCEPT ![Len(ledger)] = [last EXCEPT !.settlement = After(w, @, settled)]]
    BY DEF Retain
  <2> QED
    BY <1>2, <2>2, <2>3, LastChanged
<1>4. gate' \in Gate
  BY DEF Retain, Typed, TypeOK, Gate
<1> QED
  BY <1>1, <1>2, <1>3, <1>4 DEF Retain, Typed, TypeOK, Progress, InSlot, InExchange, Counted, call, files, Ended

LEMMA LoopEndsTyped ==
    ASSUME Typed, NEW o \in {"normal", "failed", "cancelled"}, NEW w \in Whole, LoopEnds(o, w)
    PROVE  Typed'
<1>1. faults' \in 0..MaxFaults
  BY FaultTyped DEF LoopEnds, Typed, TypeOK
<1>2. slot \in Slot /\ disk \in Store
  BY DEF LoopEnds, Typed, TypeOK, Progress, InSlot
<1>3. disk' \in Store
  <2>1. After(w, disk.report[slot], "kept") \in {"kept", Torn, None}
    BY <1>2, AfterKept DEF Store
  <2> QED
    BY <1>2, <2>1 DEF LoopEnds, Store
<1>4. pc' \in {"attempt", "crashed"}
  BY DEF LoopEnds
<1> QED
  BY <1>1, <1>2, <1>3, <1>4 DEF LoopEnds, Typed, TypeOK, Progress, InSlot, InExchange, Counted, call, files, Ended

LEMMA SettleSlotTyped == ASSUME Typed, NEW w \in Whole, SettleSlot(w) PROVE Typed'
<1>1. faults' \in 0..MaxFaults
  BY FaultTyped DEF SettleSlot, Typed, TypeOK
<1>2. slot \in Slot /\ disk \in Store
  BY DEF SettleSlot, Typed, TypeOK, Progress, InSlot
<1>3. disk' \in Store
  <2>1. After(w, disk.attempt[slot], IF outcome = "normal" THEN "completed" ELSE "failed") \in {"completed", "failed", Torn, None}
    BY <1>2, AfterKept DEF Store
  <2> QED
    BY <1>2, <2>1 DEF SettleSlot, Store
<1>4. pc' \in {"next", "stop"}
  BY DEF SettleSlot
<1> QED
  BY <1>1, <1>2, <1>3, <1>4 DEF SettleSlot, Typed, TypeOK, Progress, InSlot, InExchange, Counted, call, files, Ended

LEMMA NextSlotTyped == ASSUME Typed, NextSlot PROVE Typed'
<1>1. streak \in Nat /\ streak < MaxStreak /\ MaxStreak \in Nat \ {0}
  BY NatConstants DEF NextSlot, Typed, TypeOK, Progress
<1>2. streak' \in 0..MaxStreak /\ (pc' \notin {"stop", "crashed"} => streak' < MaxStreak)
  BY <1>1 DEF NextSlot
<1>3. meter' \in Meter
  BY SlotTurnsTyped DEF NextSlot, Typed, TypeOK
<1>4. pc' \in {"stop", "crashed", "begin"}
  BY DEF NextSlot
<1> QED
  BY <1>2, <1>3, <1>4 DEF NextSlot, Typed, TypeOK, Progress, InSlot, InExchange, Counted, call, files, Ended

LEMMA RecordStopTyped == ASSUME Typed, NEW w \in Whole, RecordStop(w) PROVE Typed'
<1>1. faults' \in 0..MaxFaults
  BY FaultTyped DEF RecordStop, Typed, TypeOK
<1>2. disk' \in Store
  <2>1. After(w, disk.stop, slot) \in Slot \cup {-1} \cup {None, Torn}
    BY AfterKept DEF Typed, TypeOK, Store
  <2> QED
    BY <2>1 DEF RecordStop, Typed, TypeOK, Store
<1>3. pc' \in {"done", "crashed"}
  BY DEF RecordStop
<1> QED
  BY <1>1, <1>2, <1>3 DEF RecordStop, Typed, TypeOK, Progress, InSlot, InExchange, Counted, call, files, Ended

LEMMA CompleteTyped == ASSUME Typed, Complete PROVE Typed'
BY DEF Complete, Typed, TypeOK, Progress, InSlot, InExchange, Counted, call, files, Ended

LEMMA CancelTyped == ASSUME Typed, Cancel PROVE Typed'
<1>1. cancelled' \in BOOLEAN
  BY ZenonT(30) DEF Cancel
<1> QED
  BY <1>1 DEF Cancel, Typed, TypeOK, Progress, InSlot, InExchange, Counted, call, files, Ended

LEMMA CrashTyped == ASSUME Typed, Crash PROVE Typed'
<1>1. meter' \in Meter /\ gate' \in Gate
  BY DEF Crash, NewMeter, Meter, NewGate, Gate, Kind
<1>2. slot' = -1 /\ streak' \in 0..MaxStreak
  BY NatConstants DEF Crash
<1> QED
  BY <1>1, <1>2 DEF Crash, Typed, TypeOK, Progress, InSlot, InExchange, Counted, call, files, Ended

-----------------------------------------------------------------------------
(* Every action keeps the ledger in step with what was sent.  Most of them *)
(* touch neither, and leave the count alone.                               *)

\* The entries that were sent stay, and so does the count.
LEMMA LedgerStays ==
    ASSUME LedgerInv, UNCHANGED <<ledger, sent>>, pc' = "crashed" \/ (pc # "crashed" /\ meter'.calls = meter.calls),
           pc' \notin {"authorize", "keep", "dispatch"},
           pc' = "settle" => answer'.how # "unsent"
    PROVE  LedgerInv'
BY DEF LedgerInv, Numbered

LEMMA RefuseLedger == ASSUME LedgerInv, Refuse PROVE LedgerInv'
BY LedgerStays DEF Refuse, files

LEMMA PreviewLedger == ASSUME LedgerInv, Preview PROVE LedgerInv'
BY LedgerStays DEF Preview, files

LEMMA OpenLedger == ASSUME LedgerInv, NEW w \in Whole, Open(w) PROVE LedgerInv'
BY LedgerStays DEF Open

LEMMA PreflightLedger ==
    ASSUME Typed, LedgerInv, NEW receipt \in Receipt, NEW w \in Whole, Preflight(receipt, w)
    PROVE  LedgerInv'
<1>1. meter'.calls = meter.calls
  BY DEF Preflight, Typed, TypeOK, Meter
<1> QED
  BY <1>1, LedgerStays DEF Preflight

LEMMA NoPreflightLedger == ASSUME LedgerInv, NoPreflight PROVE LedgerInv'
BY LedgerStays DEF NoPreflight, files

LEMMA BeginSlotLedger == ASSUME Typed, LedgerInv, NEW w \in Whole, BeginSlot(w) PROVE LedgerInv'
<1>1. meter'.calls = meter.calls
  BY SlotTurnsTyped DEF BeginSlot, Typed, TypeOK
<1> QED
  BY <1>1, LedgerStays DEF BeginSlot, files

LEMMA IntentLedger ==
    ASSUME Typed, LedgerInv, NEW directory \in BOOLEAN, NEW w \in Whole, Intent(directory, w)
    PROVE  LedgerInv'
<1> DEFINE entry == [slot |-> slot, intent |-> w, number |-> None, settlement |-> None]
<1>1. entry \in Entry /\ entry.intent = w
  BY DEF Intent, Typed, Progress, InSlot, Entry
<1> HIDE DEF entry
<1>2. ASSUME directory
      PROVE  /\ Len(ledger') = Len(ledger) + 1 /\ Len(ledger') \notin DOMAIN ledger
             /\ ledger'[Len(ledger')] = entry
             /\ \A i \in DOMAIN ledger : ledger'[i] = ledger[i]
  <2>1. ledger' = Append(ledger, entry) /\ ledger \in Seq(Entry)
    BY <1>2 DEF Intent, Typed, TypeOK, entry
  <2> QED
    BY <2>1, <1>1, AppendProperties, LenProperties
<1>3. \A i \in sent : i \in DOMAIN ledger /\ ledger'[i] = ledger[i]
  BY <1>2 DEF Intent, Typed, TypeOK
<1>4. pc' = "authorize" => Len(ledger') \notin sent /\ ledger'[Len(ledger')].intent = "kept"
  BY <1>1, <1>2 DEF Intent, Typed, TypeOK
<1>5. pc = "turn" /\ pc' \in {"authorize", "turn"} /\ UNCHANGED <<meter, sent>>
  BY DEF Intent
<1> QED
  BY <1>3, <1>4, <1>5 DEF LedgerInv, Numbered

LEMMA AuthorizeLedger == ASSUME Typed, LedgerInv, Authorize PROVE LedgerInv'
<1>1. CASE MayCall(meter)
  <2>1. meter'.calls = meter.calls + 1 /\ meter'.calls \in 1..MaxCalls /\ meter.calls \in Nat
    <3>1. meter.calls \in Nat /\ meter.calls < MaxCalls /\ MaxCalls \in Nat
      BY <1>1, NatConstants DEF MayCall, Typed, TypeOK, Meter
    <3>2. meter'.calls = meter.calls + 1
      BY <1>1, AuthorizedTyped DEF Authorize, Typed, TypeOK
    <3> QED
      BY <3>1, <3>2
  <2>2. pc = "authorize" /\ pc' = "keep" /\ UNCHANGED <<ledger, sent>>
    BY <1>1 DEF Authorize, files
  <2>3. \A i \in sent : ledger[i].number < meter'.calls
    BY <2>1, <2>2 DEF LedgerInv
  <2> QED
    BY <2>1, <2>2, <2>3 DEF LedgerInv, Numbered
<1>2. CASE ~MayCall(meter)
  <2>1. meter'.calls = meter.calls
    BY <1>2, HaltedTyped DEF Authorize, Typed, TypeOK
  <2> QED
    BY <1>2, <2>1, LedgerStays DEF Authorize, files
<1> QED
  BY <1>1, <1>2

LEMMA KeepLedger == ASSUME Typed, LedgerInv, NEW w \in Whole, Keep(w) PROVE LedgerInv'
<1> DEFINE last == ledger[Len(ledger)]
<1>1. pc = "keep" /\ ledger # <<>> /\ ledger \in Seq(Entry) /\ last \in Entry /\ Len(ledger) \in DOMAIN ledger /\ UNCHANGED sent
  BY LastElement DEF Keep, Typed, TypeOK, Progress, InExchange
<1>2. [last EXCEPT !.number = After(w, @, meter.calls)] \in Entry
  <2>1. After(w, last.number, meter.calls) \in Nat \cup {None, Torn}
    BY <1>1, AfterKept DEF Entry, Typed, TypeOK, Meter
  <2> QED
    BY <1>1, <2>1 DEF Entry
<1>3. ledger' = [ledger EXCEPT ![Len(ledger)] = [last EXCEPT !.number = After(w, @, meter.calls)]]
  BY DEF Keep
<1>4. /\ Len(ledger') = Len(ledger)
      /\ ledger'[Len(ledger')] = [last EXCEPT !.number = After(w, @, meter.calls)]
      /\ \A i \in DOMAIN ledger : i # Len(ledger) => ledger'[i] = ledger[i]
  <2> HIDE DEF last
  <2> QED
    BY <1>1, <1>2, <1>3, LastChanged
<1>5. \A i \in sent : i \in DOMAIN ledger /\ i # Len(ledger) /\ ledger'[i] = ledger[i]
  BY <1>1, <1>4 DEF LedgerInv, Typed, TypeOK
<1>6. CASE w = "kept"
  <2>1. ledger'[Len(ledger')].number = meter.calls /\ ledger'[Len(ledger')].intent = "kept"
    BY <1>1, <1>4, <1>6, AfterKept DEF LedgerInv, Entry
  <2>2. pc' = "dispatch" /\ meter' = meter
    BY <1>6 DEF Keep
  <2> QED
    BY <1>1, <1>4, <1>5, <2>1, <2>2 DEF LedgerInv, Numbered
<1>7. CASE w # "kept"
  <2>1. pc' = "turn" /\ meter' = Released(meter)
    BY <1>7 DEF Keep
  <2>2. meter'.calls = meter.calls - 1 /\ meter.calls \in Nat
    BY <2>1, <1>1, ReleasedTyped DEF Typed, TypeOK, Progress, Counted, Meter
  <2>3. \A i \in sent : ledger'[i].number <= meter'.calls
    <3>1. \A i \in sent : ledger[i].number \in Nat /\ ledger[i].number < meter.calls
      BY <1>1, NatConstants DEF LedgerInv, Numbered
    <3> QED
      BY <3>1, <2>2, <1>5
  <2> QED
    BY <1>1, <1>5, <2>1, <2>3 DEF LedgerInv, Numbered
<1> QED
  BY <1>6, <1>7

\* What may have reached the provider is the exchange in progress.
LEMMA SentLedger ==
    ASSUME Typed, LedgerInv, pc = "dispatch", NEW reached \in BOOLEAN,
           sent' = IF reached THEN sent \cup {Len(ledger)} ELSE sent,
           UNCHANGED <<ledger, meter>>,
           pc' = "turn" \/ (pc' = "settle" /\ (answer'.how = "unsent" => ~reached))
    PROVE  LedgerInv'
<1>1. /\ ledger[Len(ledger)].number = meter.calls /\ ledger[Len(ledger)].intent = "kept"
      /\ meter.calls \in 1..MaxCalls /\ MaxCalls \in Nat /\ Numbered
  BY NatConstants DEF LedgerInv
<1>2. \A i \in sent : ledger[i].number \in Nat /\ ledger[i].number < meter.calls
  BY <1>1 DEF LedgerInv, Numbered
<1>3. \A i \in sent' : ledger'[i].intent = "kept" /\ ledger'[i].number \in 1..MaxCalls /\ ledger'[i].number <= meter'.calls
  BY <1>1, <1>2 DEF LedgerInv
<1>4. \A i, j \in sent' : ledger'[i].number = ledger'[j].number => i = j
  BY <1>1, <1>2 DEF LedgerInv
<1>5. pc' = "settle" /\ answer'.how = "unsent" => Numbered'
  BY <1>1 DEF Numbered
<1> QED
  BY <1>3, <1>4, <1>5 DEF LedgerInv

LEMMA DispatchLedger ==
    ASSUME Typed, LedgerInv, NEW a \in Answer, NEW reached \in BOOLEAN, Dispatch(a, reached)
    PROVE  LedgerInv'
BY SentLedger DEF Dispatch, files

LEMMA InterruptedLedger ==
    ASSUME Typed, LedgerInv, NEW reached \in BOOLEAN, Interrupted(reached)
    PROVE  LedgerInv'
BY SentLedger DEF Interrupted, files

LEMMA SettleLedger == ASSUME Typed, LedgerInv, NEW receipt \in Receipt, Settle(receipt) PROVE LedgerInv'
<1>1. answer \in Answer /\ meter \in Meter
  BY DEF Settle, Typed, TypeOK, Progress
<1>2. meter'.calls = meter.calls
  BY <1>1, ChargeTyped, UncertainTyped DEF Settle, Answer
<1> QED
  BY <1>2, LedgerStays DEF Settle, Settles, files

LEMMA NoBalanceLedger == ASSUME LedgerInv, NEW stop \in BOOLEAN, NoBalance(stop) PROVE LedgerInv'
BY LedgerStays DEF NoBalance, Settles, files

LEMMA NotDispatchedLedger == ASSUME Typed, LedgerInv, NotDispatched PROVE LedgerInv'
<1>1. meter' = Released(meter) /\ pc = "settle" /\ answer.how = "unsent" /\ pc' = "retain" /\ UNCHANGED <<ledger, sent>>
  BY DEF NotDispatched, Settles, files
<1>2. meter'.calls = meter.calls - 1 /\ meter.calls \in Nat
  BY <1>1, ReleasedTyped DEF Typed, TypeOK, Progress, Counted, Meter
<1>3. \A i \in sent : ledger[i].number \in Nat /\ ledger[i].number < meter.calls
  BY <1>1, NatConstants DEF LedgerInv, Numbered
<1>4. \A i \in sent : ledger[i].number <= meter'.calls
  BY <1>2, <1>3
<1> QED
  BY <1>1, <1>4 DEF LedgerInv

LEMMA RetainLedger == ASSUME Typed, LedgerInv, NEW w \in Whole, Retain(w) PROVE LedgerInv'
<1>1. pc = "retain" /\ ledger # <<>> /\ ledger \in Seq(Entry) /\ settled \in Settlement
  BY DEF Retain, Typed, TypeOK, Progress, InExchange
<1> DEFINE last == ledger[Len(ledger)]
           next == [last EXCEPT !.settlement = After(w, @, settled)]
<1>2. last \in Entry
  BY <1>1, LastElement
<1>3. next \in Entry /\ next.intent = last.intent /\ next.number = last.number
  <2>1. After(w, last.settlement, settled) \in Settlement \cup {None, Torn}
    BY <1>1, <1>2, AfterKept DEF Entry
  <2> QED
    BY <1>2, <2>1 DEF Entry
<1>4. ledger' = [ledger EXCEPT ![Len(ledger)] = next]
  BY DEF Retain
<1> HIDE DEF next
<1>5. \A i \in DOMAIN ledger : ledger'[i].intent = ledger[i].intent /\ ledger'[i].number = ledger[i].number
  BY <1>1, <1>3, <1>4, LastChanged
<1>6. sent \subseteq DOMAIN ledger /\ pc' = "turn" /\ UNCHANGED <<sent, meter>>
  BY DEF Retain, Typed, TypeOK
<1> QED
  BY <1>1, <1>5, <1>6 DEF LedgerInv

LEMMA LoopEndsLedger ==
    ASSUME LedgerInv, NEW o \in {"normal", "failed", "cancelled"}, NEW w \in Whole, LoopEnds(o, w)
    PROVE  LedgerInv'
BY LedgerStays DEF LoopEnds

LEMMA SettleSlotLedger == ASSUME LedgerInv, NEW w \in Whole, SettleSlot(w) PROVE LedgerInv'
BY LedgerStays DEF SettleSlot

LEMMA NextSlotLedger == ASSUME Typed, LedgerInv, NextSlot PROVE LedgerInv'
<1>1. meter'.calls = meter.calls
  BY SlotTurnsTyped DEF NextSlot, Typed, TypeOK
<1> QED
  BY <1>1, LedgerStays DEF NextSlot, files

LEMMA RecordStopLedger == ASSUME LedgerInv, NEW w \in Whole, RecordStop(w) PROVE LedgerInv'
BY LedgerStays DEF RecordStop

LEMMA CompleteLedger == ASSUME LedgerInv, Complete PROVE LedgerInv'
BY LedgerStays DEF Complete, files

LEMMA CancelLedger == ASSUME LedgerInv, Cancel PROVE LedgerInv'
BY DEF Cancel, LedgerInv, Numbered, files, call

LEMMA CrashLedger == ASSUME LedgerInv, Crash PROVE LedgerInv'
BY LedgerStays DEF Crash, files

-----------------------------------------------------------------------------
(* Every action keeps what a stop and a lock forbid.                       *)

\* Nothing the stops are about changes, within a slot or to its end.
LEMMA StopStays ==
    ASSUME StopInv, UNCHANGED <<lock, slot, disk>>,
           pc \in InSlot, pc' \in InSlot \ {"authorize", "keep", "dispatch", "next"}
    PROVE  StopInv'
BY DEF StopInv, InSlot, KeptAttempts

\* Nothing is sent any more.
LEMMA StopEnds ==
    ASSUME StopInv, pc \notin {"start", "refused", "done", "crashed"}, pc' \in {"stop", "done", "crashed"},
           UNCHANGED lock, pc' \in {"done", "crashed"} \/ disk'.stop = disk.stop
    PROVE  StopInv'
BY DEF StopInv, InSlot

LEMMA RefuseStop == ASSUME StopInv, Refuse PROVE StopInv'
BY DEF Refuse, StopInv, InSlot, files

LEMMA PreviewStop == ASSUME StopInv, Preview PROVE StopInv'
BY DEF Preview, StopInv, InSlot, files

LEMMA OpenStop == ASSUME Typed, StopInv, NEW w \in Whole, Open(w) PROVE StopInv'
<1>1. lock' = [drift |-> None, asked |-> "own"]
  BY NatConstants DEF Open, Typed, TypeOK, Loads, ProviderHolds, TranslationHolds, SuiteHolds, FixturesHold, LineageHolds, LockPart
<1>2. disk'.stop = disk.stop /\ disk'.attempt = disk.attempt
  BY DEF Open, Typed, TypeOK, Store
<1>3. pc = "start" /\ pc' \in {"crashed", "stop", "preflight"} /\ slot' = slot
  BY DEF Open
<1> QED
  BY <1>1, <1>2, <1>3 DEF StopInv, InSlot, KeptAttempts

LEMMA PreflightStop ==
    ASSUME Typed, StopInv, NEW receipt \in Receipt, NEW w \in Whole, Preflight(receipt, w)
    PROVE  StopInv'
<1>1. disk'.stop = disk.stop /\ disk'.attempt = disk.attempt
  BY DEF Preflight, Typed, TypeOK, Store
<1>2. pc = "preflight" /\ pc' \in {"begin", "stop"} /\ UNCHANGED <<lock, slot>>
  BY DEF Preflight
<1> QED
  BY <1>1, <1>2 DEF StopInv, InSlot, KeptAttempts

LEMMA NoPreflightStop == ASSUME StopInv, NoPreflight PROVE StopInv'
BY StopEnds DEF NoPreflight, files

LEMMA BeginSlotStop == ASSUME Typed, StopInv, NEW w \in Whole, BeginSlot(w) PROVE StopInv'
<1>1. pc = "begin" /\ pc' \in {"turn", "crashed"} /\ UNCHANGED <<lock, disk>>
  BY DEF BeginSlot, files
<1>2. slot' - 1 = slot
  BY DEF BeginSlot, Typed, TypeOK, Slot
<1> QED
  BY <1>1, <1>2 DEF StopInv, InSlot, KeptAttempts

LEMMA IntentStop ==
    ASSUME Typed, StopInv, NEW directory \in BOOLEAN, NEW w \in Whole, Intent(directory, w)
    PROVE  StopInv'
<1>1. pc = "turn" /\ pc' \in {"authorize", "turn"} /\ UNCHANGED <<lock, slot, disk>>
  BY DEF Intent
<1>2. pc' = "authorize" => ~gate'.stopped
  BY DEF Intent, GoesOn, Typed, TypeOK, Gate
<1> QED
  BY <1>1, <1>2 DEF StopInv, InSlot, KeptAttempts

LEMMA AuthorizeStop == ASSUME Typed, StopInv, Authorize PROVE StopInv'
<1>1. CASE MayCall(meter)
  <2>1. pc = "authorize" /\ pc' = "keep" /\ UNCHANGED <<lock, slot, disk, gate>>
    BY <1>1 DEF Authorize, files
  <2>2. ~meter'.halted
    BY <1>1, AuthorizedTyped DEF Authorize, Typed, TypeOK, MayCall
  <2> QED
    BY <2>1, <2>2 DEF StopInv, InSlot, KeptAttempts
<1>2. CASE ~MayCall(meter)
  BY <1>2, StopStays DEF Authorize, InSlot, files
<1> QED
  BY <1>1, <1>2

LEMMA KeepStop == ASSUME Typed, StopInv, NEW w \in Whole, Keep(w) PROVE StopInv'
<1>1. CASE w = "kept"
  <2>1. pc = "keep" /\ pc' = "dispatch" /\ UNCHANGED <<lock, slot, disk, meter>> /\ gate'.stopped = gate.stopped
    BY <1>1 DEF Keep, Typed, TypeOK, Gate
  <2> QED
    BY <2>1 DEF StopInv, InSlot, KeptAttempts
<1>2. CASE w # "kept"
  BY <1>2, StopStays DEF Keep, InSlot
<1> QED
  BY <1>1, <1>2

LEMMA DispatchStop ==
    ASSUME StopInv, NEW a \in Answer, NEW reached \in BOOLEAN, Dispatch(a, reached)
    PROVE  StopInv'
BY StopStays DEF Dispatch, InSlot, files

LEMMA InterruptedStop == ASSUME StopInv, NEW reached \in BOOLEAN, Interrupted(reached) PROVE StopInv'
BY StopStays DEF Interrupted, InSlot, files

LEMMA SettleStop == ASSUME StopInv, NEW receipt \in Receipt, Settle(receipt) PROVE StopInv'
BY StopStays DEF Settle, Settles, InSlot, files

LEMMA NoBalanceStop == ASSUME StopInv, NEW stop \in BOOLEAN, NoBalance(stop) PROVE StopInv'
BY StopStays DEF NoBalance, Settles, InSlot, files

LEMMA NotDispatchedStop == ASSUME StopInv, NotDispatched PROVE StopInv'
BY StopStays DEF NotDispatched, Settles, InSlot, files

LEMMA RetainStop == ASSUME StopInv, NEW w \in Whole, Retain(w) PROVE StopInv'
BY StopStays DEF Retain, InSlot

LEMMA LoopEndsStop ==
    ASSUME Typed, StopInv, NEW o \in {"normal", "failed", "cancelled"}, NEW w \in Whole, LoopEnds(o, w)
    PROVE  StopInv'
<1>1. disk'.stop = disk.stop /\ disk'.attempt = disk.attempt
  BY DEF LoopEnds, Typed, TypeOK, Store
<1>2. pc = "turn" /\ pc' \in {"attempt", "crashed"} /\ UNCHANGED <<lock, slot>>
  BY DEF LoopEnds
<1> QED
  BY <1>1, <1>2 DEF StopInv, InSlot, KeptAttempts

LEMMA SettleSlotStop == ASSUME Typed, StopInv, NEW w \in Whole, SettleSlot(w) PROVE StopInv'
<1>1. pc = "attempt" /\ slot \in Slot /\ disk \in Store /\ UNCHANGED <<lock, slot>>
  BY DEF SettleSlot, Typed, TypeOK, Progress, InSlot
<1>2. disk'.stop = disk.stop
  BY <1>1 DEF SettleSlot, Store
<1>3. CASE w = "kept"
  <2>1. pc' = "next" /\ disk'.attempt[slot] \in {"completed", "failed"}
    <3>1. After(w, disk.attempt[slot], IF outcome = "normal" THEN "completed" ELSE "failed") \in {"completed", "failed"}
      BY <1>3, AfterKept
    <3> QED
      BY <1>1, <1>3, <3>1 DEF SettleSlot, Store
  <2>2. \A s \in Slot : s # slot => disk'.attempt[s] = disk.attempt[s]
    BY <1>1 DEF SettleSlot, Store
  <2>3. \A s \in Slot : s <= slot => s = slot \/ s <= slot - 1
    BY <1>1 DEF Slot
  <2>4. KeptAttempts(slot - 1)
    BY <1>1 DEF StopInv, InSlot
  <2>5. KeptAttempts(slot)'
    BY <1>1, <2>1, <2>2, <2>3, <2>4 DEF KeptAttempts
  <2>6. KeptAttempts(slot - 1)'
    BY <1>1, <2>5 DEF KeptAttempts, Slot
  <2> QED
    BY <1>1, <1>2, <2>1, <2>5, <2>6 DEF StopInv, InSlot
<1>4. CASE w # "kept"
  BY <1>1, <1>2, <1>4, StopEnds DEF SettleSlot
<1> QED
  BY <1>3, <1>4

LEMMA NextSlotStop == ASSUME StopInv, NextSlot PROVE StopInv'
<1>1. pc = "next" /\ pc' \in {"stop", "crashed", "begin"} /\ UNCHANGED <<lock, slot, disk>>
  BY DEF NextSlot, files
<1> QED
  BY <1>1 DEF StopInv, InSlot, KeptAttempts

LEMMA RecordStopStop == ASSUME StopInv, NEW w \in Whole, RecordStop(w) PROVE StopInv'
BY StopEnds DEF RecordStop

LEMMA CompleteStop == ASSUME StopInv, Complete PROVE StopInv'
BY StopEnds DEF Complete, files

LEMMA CancelStop == ASSUME StopInv, Cancel PROVE StopInv'
BY DEF Cancel, StopInv, KeptAttempts, files

LEMMA CrashStop == ASSUME StopInv, Crash PROVE StopInv'
BY DEF Crash, StopInv, InSlot, files

-----------------------------------------------------------------------------
(* The invariant and the theorems.                                         *)

CampaignInv == Typed /\ LedgerInv /\ StopInv

\* The invariant holds at the start and is kept by every step.
LEMMA CampaignHolds == Spec => []CampaignInv
<1>1. Init => CampaignInv
  BY TypesBegin, LedgerBegins, StopBegins DEF CampaignInv
<1>2. CampaignInv /\ [Next]_vars => CampaignInv'
  <2> SUFFICES ASSUME Typed, LedgerInv, StopInv, [Next]_vars
               PROVE  Typed' /\ LedgerInv' /\ StopInv'
    BY DEF CampaignInv
  <2>1. CASE Refuse
    BY <2>1, RefuseTyped, RefuseLedger, RefuseStop
  <2>2. CASE Preview
    BY <2>2, PreviewTyped, PreviewLedger, PreviewStop
  <2>3. ASSUME NEW w \in Whole, Open(w) PROVE Typed' /\ LedgerInv' /\ StopInv'
    BY <2>3, OpenTyped, OpenLedger, OpenStop
  <2>4. ASSUME NEW receipt \in Receipt, NEW w \in Whole, Preflight(receipt, w) PROVE Typed' /\ LedgerInv' /\ StopInv'
    BY <2>4, PreflightTyped, PreflightLedger, PreflightStop
  <2>5. CASE NoPreflight
    BY <2>5, NoPreflightTyped, NoPreflightLedger, NoPreflightStop
  <2>6. ASSUME NEW w \in Whole, BeginSlot(w) PROVE Typed' /\ LedgerInv' /\ StopInv'
    BY <2>6, BeginSlotTyped, BeginSlotLedger, BeginSlotStop
  <2>7. ASSUME NEW directory \in BOOLEAN, NEW w \in Whole, Intent(directory, w) PROVE Typed' /\ LedgerInv' /\ StopInv'
    BY <2>7, IntentTyped, IntentLedger, IntentStop
  <2>8. CASE Authorize
    BY <2>8, AuthorizeTyped, AuthorizeLedger, AuthorizeStop
  <2>9. ASSUME NEW w \in Whole, Keep(w) PROVE Typed' /\ LedgerInv' /\ StopInv'
    BY <2>9, KeepTyped, KeepLedger, KeepStop
  <2>10. ASSUME NEW a \in Answer, NEW reached \in BOOLEAN, Dispatch(a, reached) PROVE Typed' /\ LedgerInv' /\ StopInv'
    BY <2>10, DispatchTyped, DispatchLedger, DispatchStop
  <2>11. ASSUME NEW reached \in BOOLEAN, Interrupted(reached) PROVE Typed' /\ LedgerInv' /\ StopInv'
    BY <2>11, InterruptedTyped, InterruptedLedger, InterruptedStop
  <2>12. ASSUME NEW receipt \in Receipt, Settle(receipt) PROVE Typed' /\ LedgerInv' /\ StopInv'
    BY <2>12, SettleTyped, SettleLedger, SettleStop
  <2>13. ASSUME NEW stop \in BOOLEAN, NoBalance(stop) PROVE Typed' /\ LedgerInv' /\ StopInv'
    BY <2>13, NoBalanceTyped, NoBalanceLedger, NoBalanceStop
  <2>14. CASE NotDispatched
    BY <2>14, NotDispatchedTyped, NotDispatchedLedger, NotDispatchedStop
  <2>15. ASSUME NEW w \in Whole, Retain(w) PROVE Typed' /\ LedgerInv' /\ StopInv'
    BY <2>15, RetainTyped, RetainLedger, RetainStop
  <2>16. ASSUME NEW o \in {"normal", "failed", "cancelled"}, NEW w \in Whole, LoopEnds(o, w) PROVE Typed' /\ LedgerInv' /\ StopInv'
    BY <2>16, LoopEndsTyped, LoopEndsLedger, LoopEndsStop
  <2>17. ASSUME NEW w \in Whole, SettleSlot(w) PROVE Typed' /\ LedgerInv' /\ StopInv'
    BY <2>17, SettleSlotTyped, SettleSlotLedger, SettleSlotStop
  <2>18. CASE NextSlot
    BY <2>18, NextSlotTyped, NextSlotLedger, NextSlotStop
  <2>19. ASSUME NEW w \in Whole, RecordStop(w) PROVE Typed' /\ LedgerInv' /\ StopInv'
    BY <2>19, RecordStopTyped, RecordStopLedger, RecordStopStop
  <2>20. CASE Complete
    BY <2>20, CompleteTyped, CompleteLedger, CompleteStop
  <2>21. CASE Cancel
    BY <2>21, CancelTyped, CancelLedger, CancelStop
  <2>22. CASE Crash
    BY <2>22, CrashTyped, CrashLedger, CrashStop
  <2>23. CASE UNCHANGED vars
    <3>1. Typed'
      BY <2>23, StutterTyped
    <3> QED
      BY <2>23, <3>1 DEF vars, call, files, LedgerInv, Numbered, StopInv, KeptAttempts
  <2> QED
    BY <2>1, <2>2, <2>3, <2>4, <2>5, <2>6, <2>7, <2>8, <2>9, <2>10, <2>11, <2>12, <2>13, <2>14, <2>15,
       <2>16, <2>17, <2>18, <2>19, <2>20, <2>21, <2>22, <2>23 DEF Next, Runs
<1> QED
  BY <1>1, <1>2, PTL DEF Spec

\* For every schedule, ceilings and faults: whatever write fails and wherever
\* the process dies, an exchange that reached the provider has its intent and
\* an authorization of its own on disk, below the ceiling of paid calls.
THEOREM AuthorizationsComeFirst == Spec => []LedgerFirst
<1>1. CampaignInv => LedgerFirst
  BY DEF CampaignInv, Typed, LedgerInv, LedgerFirst
<1> QED
  BY <1>1, CampaignHolds, PTL

\* What each action may have to do with the provider.
LEMMA OnlyDispatchSends ==
    ASSUME [Next]_vars, sent' # sent
    PROVE  pc = "dispatch"
BY DEF Next, Runs, vars, call, files, Refuse, Preview, Open, Preflight, NoPreflight, BeginSlot, Intent, Authorize,
       Keep, Dispatch, Interrupted, Settle, Settles, NoBalance, NotDispatched, Retain, LoopEnds, SettleSlot,
       NextSlot, RecordStop, Complete, Cancel, Crash

\* Nothing is sent under another lock or acknowledgement, after the meter or
\* the gateway stopped or the stop is on disk, nor past a slot whose attempt
\* was not kept.
THEOREM NothingIsSentAfterStop == Spec => NothingAfterStop
<1> DEFINE Sends ==
        sent' # sent =>
            /\ lock = [drift |-> None, asked |-> "own"]
            /\ ~meter.halted /\ ~gate.stopped /\ disk.stop = None
            /\ \A s \in Slot : s < slot => disk.attempt[s] \in {"completed", "failed"}
<1>1. CampaignInv /\ [Next]_vars => [Sends]_vars
  <2> SUFFICES ASSUME CampaignInv, [Next]_vars, sent' # sent
               PROVE  Sends
    OBVIOUS
  <2>1. pc = "dispatch" /\ slot \in Slot
    BY OnlyDispatchSends DEF CampaignInv, Typed, Progress, InSlot
  <2>2. KeptAttempts(slot - 1)
    BY <2>1 DEF CampaignInv, StopInv, InSlot
  <2>3. \A s \in Slot : s < slot => s <= slot - 1
    BY <2>1 DEF Slot
  <2> QED
    BY <2>1, <2>2, <2>3 DEF CampaignInv, StopInv, KeptAttempts
<1> QED
  BY <1>1, CampaignHolds, PTL DEF Spec, NothingAfterStop


-----------------------------------------------------------------------------
(* What the files tell a later process.                                    *)

\* Slots are begun, attempted and skipped in their order.
SlotsInv ==
    /\ pc # "crashed" => /\ \A i \in DOMAIN ledger : ledger[i].slot <= slot
                         /\ \A t \in Slot : t > slot => disk.attempt[t] = None
    /\ disk.stop \in Slot \cup {-1} => \A i \in DOMAIN ledger : ledger[i].slot <= disk.stop
    /\ \A s, t \in Slot : s < t /\ disk.attempt[t] # None => disk.attempt[s] \in {"completed", "failed"}

\* The settlement says that the request never left.
Denied(e) == e.settlement \notin {None, Torn} /\ e.settlement.how = "unsent"

\* No such settlement of a request that did.
DeniedInv ==
    /\ pc \in InExchange => ledger[Len(ledger)].settlement = None
    /\ pc = "authorize" => ledger[Len(ledger)].number = None
    /\ pc = "keep" => ledger[Len(ledger)].number = None
    /\ pc = "retain" /\ settled.how = "unsent" => Len(ledger) \notin sent
    /\ \A i \in sent : ~Denied(ledger[i])

\* Exchanges that the files count and the provider never saw.
Unsent == {i \in DOMAIN ledger : i \notin sent /\ ledger[i].number # None /\ ~Denied(ledger[i])}

\* There is one at most, and after it nothing is sent: it is in progress, or
\* the gateway has stopped or is about to.
Stuck ==
    \/ pc \in {"stop", "done", "crashed", "refused"}
    \/ pc \in {"dispatch", "settle"} /\ Unsent \subseteq {Len(ledger)}
         /\ (pc = "settle" => answer.usage = None /\ answer.how \notin {"settled", "received"})
    \/ pc = "retain" /\ Unsent \subseteq {Len(ledger)} /\ gate.stopped
    \/ pc = "turn" /\ (gate.stopped \/ cancelled)
    \/ pc \in {"attempt", "next"} /\ (gate.stopped \/ outcome = "cancelled")

UnsentInv ==
    /\ \A i, j \in Unsent : i = j
    /\ Unsent # {} => Stuck

ReportInv == SlotsInv /\ DeniedInv /\ UnsentInv

\* A slot's entry is opened.
LEMMA IntentDoes ==
    ASSUME Typed, NEW directory \in BOOLEAN, NEW w \in Whole, Intent(directory, w)
    PROVE  /\ pc = "turn" /\ pc' \in {"authorize", "turn"} /\ ~cancelled /\ ~gate.stopped
           /\ slot \in Slot /\ UNCHANGED <<slot, sent, disk, settled, outcome, cancelled>> /\ gate' \in Gate
           /\ \/ pc' = "turn" /\ UNCHANGED ledger
              \/ /\ Len(ledger') \notin DOMAIN ledger /\ DOMAIN ledger' = DOMAIN ledger \cup {Len(ledger')}
                 /\ ledger'[Len(ledger')].slot = slot /\ ledger'[Len(ledger')].number = None
                 /\ ledger'[Len(ledger')].settlement = None
                 /\ \A i \in DOMAIN ledger : ledger'[i] = ledger[i]
<1> DEFINE entry == [slot |-> slot, intent |-> w, number |-> None, settlement |-> None]
<1>1. entry \in Entry /\ entry.slot = slot /\ entry.number = None /\ entry.settlement = None
  BY DEF Intent, Typed, Progress, InSlot, Entry
<1>2. directory => ledger' = Append(ledger, entry)
  BY DEF Intent
<1> HIDE DEF entry
<1>3. ledger \in Seq(Entry) /\ Len(ledger) \in Nat /\ DOMAIN ledger = 1..Len(ledger)
  BY LenProperties DEF Typed, TypeOK
<1>4. ASSUME directory
      PROVE  /\ Len(ledger') \notin DOMAIN ledger /\ DOMAIN ledger' = DOMAIN ledger \cup {Len(ledger')}
             /\ ledger'[Len(ledger')] = entry
             /\ \A i \in DOMAIN ledger : ledger'[i] = ledger[i]
  <2>1. /\ Len(ledger') = Len(ledger) + 1 /\ ledger' \in Seq(Entry)
        /\ ledger'[Len(ledger')] = entry
        /\ \A i \in 1..Len(ledger) : ledger'[i] = ledger[i]
    BY <1>1, <1>2, <1>3, <1>4, AppendProperties
  <2>2. DOMAIN ledger' = 1..Len(ledger')
    BY <2>1, LenProperties
  <2> QED
    BY <1>3, <2>1, <2>2
<1>5. /\ pc = "turn" /\ pc' \in {"authorize", "turn"} /\ ~cancelled /\ ~gate.stopped /\ slot \in Slot
      /\ UNCHANGED <<slot, sent, disk, settled, outcome, cancelled>> /\ (~directory => pc' = "turn" /\ UNCHANGED ledger)
      /\ gate' \in Gate
  BY DEF Intent, GoesOn, Typed, TypeOK, Progress, InSlot, Gate
<1> QED
  BY <1>1, <1>4, <1>5

\* A field of the entry in progress is changed.
LEMMA KeepDoes ==
    ASSUME Typed, NEW w \in Whole, Keep(w)
    PROVE  /\ pc = "keep" /\ pc' = (IF w = "kept" THEN "dispatch" ELSE "turn") /\ Len(ledger) \in DOMAIN ledger
           /\ UNCHANGED <<slot, sent, disk, settled, outcome, cancelled>> /\ (w # "kept" => gate'.stopped)
           /\ Len(ledger') = Len(ledger) /\ DOMAIN ledger' = DOMAIN ledger
           /\ ledger'[Len(ledger)].slot = ledger[Len(ledger)].slot
           /\ ledger'[Len(ledger)].settlement = ledger[Len(ledger)].settlement
           /\ \A i \in DOMAIN ledger : i # Len(ledger) => ledger'[i] = ledger[i]
<1> DEFINE last == ledger[Len(ledger)]
           next == [last EXCEPT !.number = After(w, @, meter.calls)]
<1>1. pc = "keep" /\ ledger # <<>> /\ ledger \in Seq(Entry) /\ last \in Entry /\ Len(ledger) \in DOMAIN ledger
  BY LastElement DEF Keep, Typed, TypeOK, Progress, InExchange
<1>2. next \in Entry /\ next.slot = last.slot /\ next.settlement = last.settlement
  <2>1. After(w, last.number, meter.calls) \in Nat \cup {None, Torn}
    BY <1>1, AfterKept DEF Entry, Typed, TypeOK, Meter
  <2> QED
    BY <1>1, <2>1 DEF Entry
<1>3. ledger' = [ledger EXCEPT ![Len(ledger)] = next]
  BY DEF Keep
<1>4. gate'.stopped = (gate.stopped \/ w # "kept")
  BY DEF Keep, Typed, TypeOK, Gate
<1> HIDE DEF next
<1>5. Len(ledger') = Len(ledger) /\ DOMAIN ledger' = DOMAIN ledger /\ ledger'[Len(ledger)] = next
      /\ \A i \in DOMAIN ledger : i # Len(ledger) => ledger'[i] = ledger[i]
  BY <1>1, <1>2, <1>3, LastChanged
<1> QED
  BY <1>1, <1>2, <1>4, <1>5 DEF Keep, call

LEMMA RetainDoes ==
    ASSUME Typed, NEW w \in Whole, Retain(w)
    PROVE  /\ pc = "retain" /\ pc' = "turn" /\ Len(ledger) \in DOMAIN ledger
           /\ UNCHANGED <<slot, sent, disk, outcome, cancelled>> /\ (gate.stopped => gate'.stopped)
           /\ Len(ledger') = Len(ledger) /\ DOMAIN ledger' = DOMAIN ledger
           /\ ledger'[Len(ledger)].slot = ledger[Len(ledger)].slot
           /\ ledger'[Len(ledger)].number = ledger[Len(ledger)].number
           /\ ledger'[Len(ledger)].settlement = After(w, ledger[Len(ledger)].settlement, settled)
           /\ \A i \in DOMAIN ledger : i # Len(ledger) => ledger'[i] = ledger[i]
<1> DEFINE last == ledger[Len(ledger)]
           next == [last EXCEPT !.settlement = After(w, @, settled)]
<1>1. pc = "retain" /\ ledger # <<>> /\ ledger \in Seq(Entry) /\ last \in Entry /\ Len(ledger) \in DOMAIN ledger
      /\ settled \in Settlement
  BY LastElement DEF Retain, Typed, TypeOK, Progress, InExchange
<1>2. next \in Entry /\ next.slot = last.slot /\ next.number = last.number
      /\ next.settlement = After(w, last.settlement, settled)
  <2>1. After(w, last.settlement, settled) \in Settlement \cup {None, Torn}
    BY <1>1, AfterKept DEF Entry
  <2> QED
    BY <1>1, <2>1 DEF Entry
<1>3. ledger' = [ledger EXCEPT ![Len(ledger)] = next]
  BY DEF Retain
<1>4. gate'.stopped = (gate.stopped \/ w # "kept")
  BY DEF Retain, Typed, TypeOK, Gate
<1> HIDE DEF next
<1>5. Len(ledger') = Len(ledger) /\ DOMAIN ledger' = DOMAIN ledger /\ ledger'[Len(ledger)] = next
      /\ \A i \in DOMAIN ledger : i # Len(ledger) => ledger'[i] = ledger[i]
  BY <1>1, <1>2, <1>3, LastChanged
<1> QED
  BY <1>1, <1>2, <1>4, <1>5 DEF Retain

\* The steps that touch neither the ledger nor what was sent.
Elsewhere ==
    \/ Refuse \/ Preview \/ NoPreflight \/ Authorize \/ NotDispatched \/ NextSlot \/ Complete \/ Cancel \/ Crash
    \/ \E receipt \in Receipt, w \in Whole : Preflight(receipt, w)
    \/ \E receipt \in Receipt : Settle(receipt)
    \/ \E stop \in BOOLEAN : NoBalance(stop)
    \/ \E o \in {"normal", "failed", "cancelled"}, w \in Whole : LoopEnds(o, w)
    \/ \E w \in Whole : Open(w) \/ BeginSlot(w) \/ SettleSlot(w) \/ RecordStop(w)
    \/ UNCHANGED vars

LEMMA ElsewhereStays == Elsewhere => UNCHANGED <<ledger, sent>>
BY DEF Elsewhere, Refuse, Preview, NoPreflight, Authorize, NotDispatched, NextSlot, Complete, Cancel, Crash, Preflight,
       Settle, Settles, NoBalance, LoopEnds, Open, BeginSlot, SettleSlot, RecordStop, vars, files

LEMMA StepsAre ==
    ASSUME [Next]_vars
    PROVE  \/ Elsewhere
           \/ \E directory \in BOOLEAN, w \in Whole : Intent(directory, w)
           \/ \E w \in Whole : Keep(w)
           \/ \E w \in Whole : Retain(w)
           \/ \E a \in Answer, reached \in BOOLEAN : Dispatch(a, reached)
           \/ \E reached \in BOOLEAN : Interrupted(reached)
BY DEF Elsewhere, Next, Runs

-----------------------------------------------------------------------------

LEMMA ReportBegins == Init => ReportInv
<1> SUFFICES ASSUME Init PROVE ReportInv
  OBVIOUS
<1>1. ledger = <<>> /\ sent = {} /\ pc = "start" /\ slot = -1
  BY DEF Init
<1>2. disk.stop = None /\ \A s \in Slot : disk.attempt[s] = None
  BY DEF Init
<1>4. SlotsInv
  BY <1>1, <1>2 DEF SlotsInv
<1>5. DeniedInv
  BY <1>1 DEF DeniedInv, InExchange
<1>6. UnsentInv
  BY <1>1 DEF UnsentInv, Unsent
<1> QED
  BY <1>4, <1>5, <1>6 DEF ReportInv

\* Nothing the slots are about changes.
LEMMA SlotsStay ==
    ASSUME SlotsInv, UNCHANGED ledger, disk'.attempt = disk.attempt, disk'.stop = disk.stop,
           \/ pc' = "crashed"
           \/ pc # "crashed" /\ slot' = slot
    PROVE  SlotsInv'
BY DEF SlotsInv

LEMMA SlotsKept ==
    ASSUME Typed, StopInv, SlotsInv, [Next]_vars
    PROVE  SlotsInv'
<1>0. disk \in Store /\ slot \in Slot \cup {-1} /\ Slot \subseteq Nat /\ slot \in Int /\ ledger \in Seq(Entry)
  BY DEF Typed, TypeOK, Slot
<1>1. CASE UNCHANGED vars
  BY <1>1, SlotsStay DEF vars, files, SlotsInv
<1>2. CASE Refuse \/ Preview \/ NoPreflight \/ Authorize \/ NotDispatched \/ NextSlot \/ Complete \/ Cancel
  BY <1>2, SlotsStay DEF Refuse, Preview, NoPreflight, Authorize, NotDispatched, Settles, NextSlot, Complete, Cancel, Ended, files
<1>3. CASE Crash
  BY <1>3, SlotsStay DEF Crash, files
<1>4. CASE \/ \E receipt \in Receipt : Settle(receipt)
           \/ \E stop \in BOOLEAN : NoBalance(stop)
           \/ \E a \in Answer, reached \in BOOLEAN : Dispatch(a, reached)
           \/ \E reached \in BOOLEAN : Interrupted(reached)
  BY <1>4, SlotsStay DEF Settle, NoBalance, Settles, Dispatch, Interrupted, files
<1>5. ASSUME NEW receipt \in Receipt, NEW w \in Whole, Preflight(receipt, w) PROVE SlotsInv'
  <2>1. disk'.stop = disk.stop /\ disk'.attempt = disk.attempt
    BY <1>0, <1>5 DEF Preflight, Store
  <2> QED
    BY <1>5, <2>1, SlotsStay DEF Preflight
<1>6. ASSUME NEW w \in Whole, Open(w) PROVE SlotsInv'
  <2>1. disk'.stop = disk.stop /\ disk'.attempt = disk.attempt
    BY <1>0, <1>6 DEF Open, Store
  <2> QED
    BY <1>6, <2>1, SlotsStay DEF Open
<1>7. ASSUME NEW o \in {"normal", "failed", "cancelled"}, NEW w \in Whole, LoopEnds(o, w) PROVE SlotsInv'
  <2>1. disk'.stop = disk.stop /\ disk'.attempt = disk.attempt
    BY <1>0, <1>7 DEF LoopEnds, Store
  <2> QED
    BY <1>7, <2>1, SlotsStay DEF LoopEnds
<1>8. ASSUME NEW w \in Whole, BeginSlot(w) PROVE SlotsInv'
  <2>1. slot' = slot + 1 /\ pc = "begin" /\ UNCHANGED <<disk, ledger>>
    BY <1>8 DEF BeginSlot, files
  <2>2. ASSUME NEW i \in DOMAIN ledger PROVE ledger[i].slot <= slot'
    <3>1. ledger[i].slot \in Slot
      <4>1. ledger[i] \in Entry
        BY <1>0, LenProperties, ElementOfSeq
      <4> QED
        BY <4>1 DEF Entry
    <3>2. ledger[i].slot <= slot
      BY <2>1 DEF SlotsInv
    <3> DEFINE own == ledger[i].slot
    <3>3. own \in Int /\ slot' = slot + 1 /\ slot \in Int /\ own <= slot
      <4> HIDE DEF own
      <4>1. own \in Int
        <5>1. Slot \subseteq Int /\ own \in Slot
          BY <1>0, <3>1 DEF own
        <5> QED
          BY ONLY <5>1
      <4> QED
        BY <1>0, <2>1, <3>2, <4>1 DEF own
    <3> HIDE DEF own
    <3>4. own <= slot'
      BY ONLY <3>3
    <3> QED
      BY <3>4 DEF own
  <2>3. \A i \in DOMAIN ledger : ledger[i].slot <= slot'
    BY <2>2
  <2>4. \A t \in Slot : t > slot' => disk.attempt[t] = None
    BY <1>0, <2>1 DEF SlotsInv
  <2> QED
    BY <2>1, <2>3, <2>4 DEF SlotsInv
<1>9. ASSUME NEW directory \in BOOLEAN, NEW w \in Whole, Intent(directory, w) PROVE SlotsInv'
  <2>1. disk.stop = None /\ None \notin Slot \cup {-1}
    BY <1>9, IntentDoes, CampaignAssumption DEF StopInv, Slot
  <2>2. pc = "turn" /\ pc' # "crashed" /\ UNCHANGED <<slot, disk>>
    BY <1>9, IntentDoes
  <2>3. \A i \in DOMAIN ledger' : ledger'[i].slot <= slot'
    BY <1>0, <1>9, <2>2, IntentDoes DEF SlotsInv
  <2> QED
    BY <2>1, <2>2, <2>3 DEF SlotsInv
<1>10. ASSUME NEW w \in Whole, Keep(w) PROVE SlotsInv'
  <2>1. pc = "keep" /\ UNCHANGED <<slot, disk>> /\ DOMAIN ledger' = DOMAIN ledger
        /\ \A i \in DOMAIN ledger : ledger'[i].slot = ledger[i].slot
    BY <1>10, KeepDoes
  <2> QED
    BY <2>1 DEF SlotsInv
<1>11. ASSUME NEW w \in Whole, Retain(w) PROVE SlotsInv'
  <2>1. pc = "retain" /\ UNCHANGED <<slot, disk>> /\ DOMAIN ledger' = DOMAIN ledger
        /\ \A i \in DOMAIN ledger : ledger'[i].slot = ledger[i].slot
    BY <1>11, RetainDoes
  <2> QED
    BY <2>1 DEF SlotsInv
<1>12. ASSUME NEW w \in Whole, SettleSlot(w) PROVE SlotsInv'
  <2>1. pc = "attempt" /\ pc' # "crashed" /\ slot \in Slot /\ UNCHANGED <<slot, ledger>>
    BY <1>12 DEF SettleSlot, Typed, Progress, InSlot
  <2>2. disk'.stop = disk.stop /\ \A s \in Slot : s # slot => disk'.attempt[s] = disk.attempt[s]
    BY <1>0, <1>12, <2>1 DEF SettleSlot, Store
  <2>3. KeptAttempts(slot - 1)
    BY <2>1 DEF StopInv, InSlot
  <2>4. \A t \in Slot : t > slot => disk'.attempt[t] = None
    BY <1>0, <2>1, <2>2 DEF SlotsInv
  <2>5. ASSUME NEW s \in Slot, NEW t \in Slot, s < t, disk'.attempt[t] # None
        PROVE  disk'.attempt[s] \in {"completed", "failed"}
    <3>1. t <= slot /\ s # slot /\ s \in Nat /\ t \in Nat
      BY <1>0, <2>1, <2>4, <2>5
    <3>2. CASE t = slot
      <4>1. s <= slot - 1
        BY <1>0, <2>5, <3>1, <3>2
      <4> QED
        BY <2>2, <2>3, <3>1, <4>1 DEF KeptAttempts
    <3>3. CASE t # slot
      BY <2>2, <2>5, <3>1, <3>3 DEF SlotsInv
    <3> QED
      BY <3>2, <3>3
  <2> QED
    BY <2>1, <2>2, <2>4, <2>5 DEF SlotsInv
<1>13. ASSUME NEW w \in Whole, RecordStop(w) PROVE SlotsInv'
  <2>1. pc = "stop" /\ UNCHANGED <<slot, ledger>> /\ disk.stop = None
    BY <1>13 DEF RecordStop, StopInv
  <2>2. disk'.attempt = disk.attempt /\ disk'.stop \in {slot, Torn, None}
    BY <1>0, <1>13, <2>1, AfterKept DEF RecordStop, Store
  <2>3. None \notin Slot \cup {-1} /\ Torn \notin Slot \cup {-1}
    BY CampaignAssumption DEF Slot
  <2> QED
    BY <2>1, <2>2, <2>3 DEF SlotsInv
<1> QED
  BY <1>1, <1>2, <1>3, <1>4, <1>5, <1>6, <1>7, <1>8, <1>9, <1>10, <1>11, <1>12, <1>13 DEF Next, Runs

LEMMA DeniedKept ==
    ASSUME Typed, LedgerInv, DeniedInv, [Next]_vars
    PROVE  DeniedInv'
<1>0. sent \subseteq DOMAIN ledger
  BY DEF Typed, TypeOK
\* The ledger stays, and no entry is opened.
<1>1. CASE UNCHANGED <<ledger, sent>> /\ pc' \notin InExchange
  BY <1>1 DEF DeniedInv, InExchange
<1>2. CASE UNCHANGED <<ledger, sent>> /\ pc \in InExchange /\ pc' \in {"turn", "dispatch", "settle", "retain"}
           /\ (pc' = "retain" /\ settled'.how = "unsent" => Len(ledger) \notin sent)
  BY <1>2 DEF DeniedInv, InExchange
<1>3. CASE UNCHANGED vars
  BY <1>3 DEF vars, call, files, DeniedInv
<1>4. CASE Cancel
  BY <1>4 DEF Cancel, call, files, DeniedInv
<1>5. CASE Authorize
  <2>1. pc = "authorize" /\ pc' \in {"keep", "turn"} /\ UNCHANGED <<ledger, sent>>
    BY <1>5 DEF Authorize, files
  <2> QED
    BY <2>1 DEF DeniedInv, InExchange
<1>6. ASSUME NEW receipt \in Receipt, Settle(receipt) PROVE DeniedInv'
  BY <1>2, <1>6 DEF Settle, Settles, InExchange, files
<1>7. ASSUME NEW stop \in BOOLEAN, NoBalance(stop) PROVE DeniedInv'
  BY <1>2, <1>7 DEF NoBalance, Settles, InExchange, files
<1>8. CASE NotDispatched
  <2>1. Len(ledger) \notin sent
    BY <1>8 DEF NotDispatched, LedgerInv, Numbered
  <2> QED
    BY <1>2, <1>8, <2>1 DEF NotDispatched, Settles, InExchange, files
<1>9. CASE \/ Refuse \/ Preview \/ NoPreflight \/ NextSlot \/ Complete \/ Crash
           \/ \E receipt \in Receipt, w \in Whole : Preflight(receipt, w)
           \/ \E o \in {"normal", "failed", "cancelled"}, w \in Whole : LoopEnds(o, w)
           \/ \E w \in Whole : Open(w) \/ BeginSlot(w) \/ SettleSlot(w) \/ RecordStop(w)
  BY <1>1, <1>9 DEF Refuse, Preview, NoPreflight, NextSlot, Complete, Crash, Preflight, LoopEnds, Open, BeginSlot,
                    SettleSlot, RecordStop, files, InExchange
<1>10. ASSUME NEW directory \in BOOLEAN, NEW w \in Whole, Intent(directory, w) PROVE DeniedInv'
  <2>1. CASE pc' = "turn" /\ UNCHANGED ledger
    BY <1>1, <1>10, <2>1, IntentDoes DEF InExchange
  <2>2. CASE /\ ledger'[Len(ledger')].number = None /\ ledger'[Len(ledger')].settlement = None
             /\ \A i \in DOMAIN ledger : ledger'[i] = ledger[i]
    <3>1. pc' \in {"authorize", "turn"} /\ UNCHANGED sent
      BY <1>10, IntentDoes
    <3>2. \A i \in sent : ledger'[i] = ledger[i]
      BY <1>0, <2>2
    <3> QED
      BY <2>2, <3>1, <3>2 DEF DeniedInv, Denied
  <2> QED
    BY <1>10, <2>1, <2>2, IntentDoes
<1>11. ASSUME NEW w \in Whole, Keep(w) PROVE DeniedInv'
  <2>1. pc = "keep" /\ pc' \in {"dispatch", "turn"} /\ UNCHANGED sent /\ Len(ledger') = Len(ledger)
        /\ \A i \in DOMAIN ledger : ledger'[i].settlement = ledger[i].settlement
    BY <1>11, KeepDoes
  <2>2. Len(ledger) \in DOMAIN ledger
    BY <1>11, KeepDoes
  <2> QED
    BY <1>0, <2>1, <2>2 DEF DeniedInv, Denied, InExchange
<1>12. ASSUME NEW w \in Whole, Retain(w) PROVE DeniedInv'
  <2>1. pc = "retain" /\ pc' = "turn" /\ UNCHANGED sent
        /\ ledger'[Len(ledger)].settlement = After(w, ledger[Len(ledger)].settlement, settled)
        /\ \A i \in DOMAIN ledger : i # Len(ledger) => ledger'[i] = ledger[i]
    BY <1>12, RetainDoes
  <2>2. ledger[Len(ledger)].settlement = None
    BY <2>1 DEF DeniedInv, InExchange
  <2>3. ledger'[Len(ledger)].settlement \in {settled, Torn, None}
    BY <2>1, <2>2, AfterKept
  <2>4. ASSUME NEW i \in sent PROVE ~Denied(ledger'[i])
    <3>1. CASE i = Len(ledger)
      BY <2>1, <2>3, <2>4, <3>1 DEF DeniedInv, Denied
    <3>2. CASE i # Len(ledger)
      BY <1>0, <2>1, <2>4, <3>2 DEF DeniedInv
    <3> QED
      BY <3>1, <3>2
  <2> QED
    BY <2>1, <2>4 DEF DeniedInv, InExchange
\* What may have reached the provider is the entry in progress.
<1>13. ASSUME pc = "dispatch", UNCHANGED ledger, sent' \subseteq sent \cup {Len(ledger)}, pc' \in {"turn", "settle"}
       PROVE  DeniedInv'
  BY <1>13 DEF DeniedInv, Denied, InExchange
<1>14. ASSUME NEW a \in Answer, NEW reached \in BOOLEAN, Dispatch(a, reached) PROVE DeniedInv'
  BY <1>13, <1>14 DEF Dispatch, files
<1>15. ASSUME NEW reached \in BOOLEAN, Interrupted(reached) PROVE DeniedInv'
  BY <1>13, <1>15 DEF Interrupted, files
<1> QED
  BY <1>3, <1>4, <1>5, <1>6, <1>7, <1>8, <1>9, <1>10, <1>11, <1>12, <1>14, <1>15 DEF Next, Runs

\* Usage that is missing stops the meter, whatever the balance.
LEMMA ChargeHalts ==
    ASSUME NEW m \in Meter, NEW receipt \in Receipt, NEW model
    PROVE  Charge(m, receipt, None, model).halted /\ Uncertain(m, receipt).halted
<1> DEFINE read == [m EXCEPT !.pending = FALSE]
           known == [read EXCEPT !.current = receipt]
<1>1. read \in Meter /\ known \in Meter
  BY DEF Meter
<1> HIDE DEF read, known
<1>2. Charge(m, receipt, None, model) \in {[read EXCEPT !.halted = TRUE], [known EXCEPT !.halted = TRUE]}
  BY DEF Charge, read, known
<1>3. Charge(m, receipt, None, model).halted
  BY <1>1, <1>2 DEF Meter
<1>4. Uncertain(m, receipt).halted
  BY DEF Uncertain, Meter
<1> QED
  BY <1>3, <1>4

\* A smaller set of such exchanges, and a runner that is as stuck.
LEMMA UnsentShrinks ==
    ASSUME UnsentInv, Unsent' \subseteq Unsent, Unsent # {} /\ Stuck => Stuck'
    PROVE  UnsentInv'
BY DEF UnsentInv

\* Only the one in progress can be such an exchange.
LEMMA UnsentIsLast ==
    ASSUME NEW n, Unsent' \subseteq {n}, Unsent' # {} => Stuck'
    PROVE  UnsentInv'
BY DEF UnsentInv

LEMMA UnsentKept ==
    ASSUME Typed, LedgerInv, StopInv, DeniedInv, UnsentInv, [Next]_vars
    PROVE  UnsentInv'
<1>0. sent \subseteq DOMAIN ledger
  BY DEF Typed, TypeOK
<1>1. CASE Elsewhere
  <2>0. UNCHANGED <<ledger, sent>>
    BY <1>1, ElsewhereStays
  <2>1. Unsent' = Unsent
    BY <2>0 DEF Unsent, Denied
  <2>2. SUFFICES ASSUME Unsent # {}, Stuck PROVE Stuck'
    BY <2>1, UnsentShrinks
  <2>3. CASE UNCHANGED vars
    BY <2>0, <2>1, <2>2, <2>3 DEF Stuck, vars, call
  <2>4. CASE Cancel
    BY <2>1, <2>2, <2>4 DEF Stuck, Cancel, call, files
  <2>5. CASE Crash \/ Refuse \/ Preview \/ NoPreflight \/ Complete \/ (\E w \in Whole : RecordStop(w))
    BY <2>5 DEF Stuck, Crash, Refuse, Preview, NoPreflight, Complete, RecordStop
  <2>6. ASSUME NEW receipt \in Receipt, NEW w \in Whole, Preflight(receipt, w) PROVE Stuck'
    BY <2>2, <2>6 DEF Stuck, Preflight
  <2>7. ASSUME NEW w \in Whole, Open(w) \/ BeginSlot(w) PROVE Stuck'
    BY <2>2, <2>7 DEF Stuck, Open, BeginSlot
  <2>8. CASE Authorize
    BY <2>2, <2>8 DEF Stuck, Authorize
  <2>9. ASSUME NEW receipt \in Receipt, Settle(receipt) PROVE Stuck'
    <3>1. pc = "settle" /\ answer.usage = None /\ Unsent \subseteq {Len(ledger)}
      BY <2>2, <2>9 DEF Settle, Stuck
    <3>2. meter'.halted
      BY <2>9, <3>1, ChargeHalts DEF Settle, Typed, TypeOK
    <3>3. gate'.stopped /\ pc' = "retain"
      BY <2>9, <3>2 DEF Settle, Settles, Typed, TypeOK, Gate
    <3> QED
      BY <2>0, <2>1, <3>1, <3>3 DEF Stuck
  <2>10. CASE NotDispatched \/ (\E stop \in BOOLEAN : NoBalance(stop))
    <3>1. pc = "settle" /\ Unsent \subseteq {Len(ledger)}
      BY <2>2, <2>10 DEF NotDispatched, NoBalance, Stuck
    <3>2. gate'.stopped /\ pc' = "retain"
      BY <2>10 DEF NotDispatched, NoBalance, Settles, Typed, TypeOK, Gate
    <3> QED
      BY <2>0, <2>1, <3>1, <3>2 DEF Stuck
  <2>11. ASSUME NEW o \in {"normal", "failed", "cancelled"}, NEW w \in Whole, LoopEnds(o, w) PROVE Stuck'
    <3>1. pc = "turn" /\ (gate.stopped \/ cancelled) /\ gate' = gate /\ pc' \in {"attempt", "crashed"}
          /\ (cancelled => outcome' = "cancelled")
      BY <2>2, <2>11 DEF Stuck, LoopEnds
    <3> QED
      BY <3>1 DEF Stuck
  <2>12. ASSUME NEW w \in Whole, SettleSlot(w) PROVE Stuck'
    BY <2>2, <2>12 DEF Stuck, SettleSlot
  <2>13. CASE NextSlot
    BY <2>2, <2>13 DEF Stuck, NextSlot
  <2> QED
    BY <1>1, <2>3, <2>4, <2>5, <2>6, <2>7, <2>8, <2>9, <2>10, <2>11, <2>12, <2>13 DEF Elsewhere
<1>2. ASSUME NEW directory \in BOOLEAN, NEW w \in Whole, Intent(directory, w) PROVE UnsentInv'
  <2>1. Unsent = {}
    BY <1>2, IntentDoes DEF UnsentInv, Stuck
  <2>2. Unsent' = {}
    <3>1. UNCHANGED sent
      BY <1>2, IntentDoes
    <3>2. CASE UNCHANGED ledger
      BY <2>1, <3>1, <3>2 DEF Unsent, Denied
    <3>3. CASE /\ DOMAIN ledger' = DOMAIN ledger \cup {Len(ledger')} /\ ledger'[Len(ledger')].number = None
               /\ \A i \in DOMAIN ledger : ledger'[i] = ledger[i]
      BY <2>1, <3>1, <3>3 DEF Unsent, Denied
    <3> QED
      BY <1>2, <3>2, <3>3, IntentDoes
  <2> QED
    BY <2>2, UnsentIsLast
<1>3. ASSUME NEW w \in Whole, Keep(w) PROVE UnsentInv'
  <2>1. pc = "keep" /\ UNCHANGED sent /\ DOMAIN ledger' = DOMAIN ledger /\ Len(ledger') = Len(ledger)
        /\ \A i \in DOMAIN ledger : i # Len(ledger) => ledger'[i] = ledger[i]
    BY <1>3, KeepDoes
  <2>2. Unsent = {}
    BY <2>1 DEF UnsentInv, Stuck
  <2>3. Unsent' \subseteq {Len(ledger)}
    BY <2>1, <2>2 DEF Unsent, Denied
  <2>4. pc' = "dispatch" \/ (pc' = "turn" /\ gate'.stopped)
    BY <1>3, KeepDoes
  <2>5. Stuck'
    BY <2>1, <2>3, <2>4 DEF Stuck
  <2> QED
    BY <2>3, <2>5, UnsentIsLast
<1>4. ASSUME NEW w \in Whole, Retain(w) PROVE UnsentInv'
  <2>1. pc = "retain" /\ pc' = "turn" /\ UNCHANGED sent /\ DOMAIN ledger' = DOMAIN ledger /\ (gate.stopped => gate'.stopped)
        /\ ledger'[Len(ledger)].number = ledger[Len(ledger)].number
        /\ \A i \in DOMAIN ledger : i # Len(ledger) => ledger'[i] = ledger[i]
    BY <1>4, RetainDoes
  <2>2. ~Denied(ledger[Len(ledger)])
    BY <2>1 DEF DeniedInv, InExchange, Denied
  <2>3. Unsent' \subseteq Unsent
    <3> SUFFICES ASSUME NEW i \in DOMAIN ledger, i \notin sent, ledger'[i].number # None, ~Denied(ledger'[i])
                 PROVE  i \in Unsent
      BY <2>1 DEF Unsent, Denied
    <3>1. CASE i = Len(ledger)
      BY <2>1, <2>2, <3>1 DEF Unsent
    <3>2. CASE i # Len(ledger)
      BY <2>1, <3>2 DEF Unsent
    <3> QED
      BY <3>1, <3>2
  <2>4. Stuck => Stuck'
    BY <2>1 DEF Stuck
  <2> QED
    BY <2>3, <2>4, UnsentShrinks
\* A request that may have left.
<1>5. ASSUME NEW reached \in BOOLEAN, pc = "dispatch", UNCHANGED ledger,
             sent' = IF reached THEN sent \cup {Len(ledger)} ELSE sent
      PROVE  Unsent' \subseteq {Len(ledger)} /\ (reached => Unsent' = {})
  <2>1. Unsent \subseteq {Len(ledger)}
    BY <1>5 DEF UnsentInv, Stuck
  <2>2. Unsent' \subseteq Unsent /\ Unsent' \cap sent' = {}
    BY <1>5 DEF Unsent, Denied
  <2> QED
    BY <1>5, <2>1, <2>2
<1>6. ASSUME NEW a \in Answer, NEW reached \in BOOLEAN, Dispatch(a, reached) PROVE UnsentInv'
  <2>1. pc = "dispatch" /\ pc' = "settle" /\ UNCHANGED ledger /\ sent' = IF reached THEN sent \cup {Len(ledger)} ELSE sent
    BY <1>6 DEF Dispatch, files
  <2>2. Unsent' \subseteq {Len(ledger)} /\ (reached => Unsent' = {})
    BY <1>5, <2>1
  <2>3. ~reached => answer'.usage = None /\ answer'.how \notin {"settled", "received"}
    BY <1>6 DEF Dispatch
  <2>4. Unsent' # {} => Stuck'
    BY <2>1, <2>2, <2>3 DEF Stuck
  <2> QED
    BY <2>2, <2>4, UnsentIsLast
<1>7. ASSUME NEW reached \in BOOLEAN, Interrupted(reached) PROVE UnsentInv'
  <2>1. pc = "dispatch" /\ pc' = "turn" /\ UNCHANGED ledger /\ sent' = IF reached THEN sent \cup {Len(ledger)} ELSE sent
    BY <1>7 DEF Interrupted, files
  <2>2. Unsent' \subseteq {Len(ledger)}
    BY <1>5, <2>1
  <2>3. cancelled /\ cancelled' = cancelled
    BY <1>7 DEF Interrupted
  <2>4. Stuck'
    BY <2>1, <2>3 DEF Stuck
  <2> QED
    BY <2>2, <2>4, UnsentIsLast
<1> QED
  BY <1>1, <1>2, <1>3, <1>4, <1>6, <1>7, StepsAre

LEMMA ReportHolds == Spec => [](CampaignInv /\ ReportInv)
<1>1. CampaignInv /\ ReportInv /\ [Next]_vars => ReportInv'
  BY SlotsKept, DeniedKept, UnsentKept DEF CampaignInv, ReportInv
<1> QED
  BY <1>1, ReportBegins, CampaignHolds, PTL DEF Spec

\* For every schedule and whatever fails: a report rebuilt from the files counts
\* every exchange that reached the provider and at most one that did not, and
\* what it calls skipped or missing is as it says.
THEOREM ReportsAreTrue == Spec => []ReportTrue
<1>1. CampaignInv /\ ReportInv => ReportTrue
  <2> SUFFICES ASSUME Typed, LedgerInv, SlotsInv, DeniedInv, UnsentInv, Readable
               PROVE  /\ sent \subseteq ProviderExchanges
                      /\ Cardinality(ProviderExchanges \ sent) <= 1
                      /\ \A s \in Slot : Inventory(s) = "skipped" => Exchanges(s) = {}
                      /\ \A s, t \in Slot : s < t /\ Inventory(s) \in {"missing", "skipped"}
                                              => Inventory(t) \notin {"completed", "failed"}
    BY DEF CampaignInv, ReportInv, ReportTrue
  <2>0. None \notin Int /\ \A i \in DOMAIN ledger : ledger[i].settlement # None => ledger[i].settlement # Torn
    BY CampaignAssumption DEF Readable, LedgerReadable
  <2>1. sent \subseteq ProviderExchanges
    <3> SUFFICES ASSUME NEW i \in sent PROVE i \in Authorized /\ i \notin Refuted
      BY DEF ProviderExchanges
    <3>1. i \in DOMAIN ledger
      BY DEF Typed, TypeOK
    <3>2. ledger[i].number # None
      BY <2>0, NatConstants DEF LedgerInv
    <3>3. i \notin Refuted
      BY <2>0, <3>1 DEF Refuted, Settled, DeniedInv, Denied
    <3> QED
      BY <3>1, <3>2, <3>3 DEF Authorized
  <2>2. Cardinality(ProviderExchanges \ sent) <= 1
    <3>1. ProviderExchanges \ sent \subseteq Unsent
      BY DEF ProviderExchanges, Authorized, Refuted, Settled, Unsent, Denied
    <3>2. \A i, j \in ProviderExchanges \ sent : i = j
      BY <3>1 DEF UnsentInv
    <3>3. CASE ProviderExchanges \ sent = {}
      BY <3>3, FS_EmptySet
    <3>4. ASSUME NEW i \in ProviderExchanges \ sent PROVE Cardinality(ProviderExchanges \ sent) <= 1
      <4>1. ProviderExchanges \ sent = {i}
        BY <3>2, <3>4
      <4> QED
        BY <4>1, FS_Singleton
    <3> QED
      BY <3>3, <3>4
  <2>3. ASSUME NEW s \in Slot, Inventory(s) = "skipped" PROVE Exchanges(s) = {}
    <3>1. disk \in Store /\ disk.attempt[s] # Torn /\ disk.stop # Torn
      BY DEF Typed, TypeOK, Readable
    <3>2. disk.stop # None /\ s > disk.stop
      BY <2>3, <3>1 DEF Inventory, Store
    <3>3. disk.stop \in Slot \cup {-1} /\ \A i \in DOMAIN ledger : ledger[i].slot <= disk.stop
      BY <3>1, <3>2 DEF Store, SlotsInv
    <3>4. disk.stop \in Int /\ s \in Int
      BY <3>3 DEF Slot
    <3> QED
      BY <3>2, <3>3, <3>4 DEF Exchanges
  <2>4. ASSUME NEW s \in Slot, NEW t \in Slot, s < t, Inventory(s) \in {"missing", "skipped"}
        PROVE  Inventory(t) \notin {"completed", "failed"}
    <3>1. disk \in Store /\ disk.attempt[s] # Torn
      BY DEF Typed, TypeOK, Readable
    <3>2. disk.attempt[s] \notin {"completed", "failed"}
      BY <2>4, <3>1, CampaignAssumption DEF Inventory, Store
    <3>3. disk.attempt[t] = None
      BY <2>4, <3>2 DEF SlotsInv
    <3> QED
      BY <3>3 DEF Inventory
  <2> QED
    BY <2>1, <2>2, <2>3, <2>4
<1> QED
  BY <1>1, ReportHolds, PTL
=============================================================================
