----------------------------- MODULE LiveCampaign -----------------------------
(***************************************************************************)
(* A paid evaluation campaign of the Python harness: the serial runner and *)
(* its budgeted gateway (deepseek_live_runner.py), the budget meter and    *)
(* the file store (deepseek_live_campaign.py), and the report any process  *)
(* can rebuild from the store's files afterwards.                          *)
(*                                                                         *)
(* One action is what happens between two things the runner does not       *)
(* control: a file it writes, a request to the provider, a balance query.  *)
(* A file is written in place: a write that fails, or a crash in it,       *)
(* leaves it absent or torn.  A slot is its sequence number; the exchange  *)
(* directories of all slots are one ledger, in their order.  One unit of   *)
(* tokens costs one unit of money at peak rates, and a stop code is kept   *)
(* as far as the runner tells it from others.                              *)
(***************************************************************************)
EXTENDS Integers, Sequences, FiniteSets

CONSTANTS
    Slots,          \* the slots of the lock
    SlotCalls,      \* slot.maximum_model_exchanges, also the loop's model-call limit
    MaxCalls,       \* lock.maximum_paid_model_calls
    Cap,            \* lock.maximum_campaign_cost_cny
    CallTokens,     \* the budget's ceiling for one call
    CampaignTokens, \* the budget's ceiling for the campaign
    MaxStreak,      \* transport failures in a row that stop the campaign
    MaxFaults,      \* bound of the model: writes and queries that fail
    None, Torn, Odd \* no value, a file half written, usage that does not add up

ASSUME CampaignAssumption ==
    /\ {Slots, SlotCalls, MaxCalls, Cap, CallTokens, CampaignTokens, MaxStreak} \subseteq Nat \ {0}
    /\ MaxFaults \in Nat
    /\ {None, Torn, Odd} \cap Int = {} /\ Cardinality({None, Torn, Odd}) = 3
    /\ None \notin {"completed", "failed"}

VARIABLES
    lock,      \* what drifted from the frozen lock, and what the operator asked for
    pc, slot,  \* where the runner is, and the slot it began last
    meter,     \* CampaignBudgetMeter
    gate,      \* the slot's _BudgetedGateway
    answer,    \* what the downstream gateway said of the exchange in progress
    settled,   \* what the exchange's settlement is to say
    outcome,   \* how the slot's agent loop ended
    streak,    \* consecutive_transport_failures
    disk,      \* FileLiveCampaignStore, but for the exchanges
    ledger,    \* its exchange directories
    cancelled, \* the cancel signal
    sent,      \* the exchanges whose request reached the provider
    faults     \* writes and queries that failed

call == <<answer, settled>>
files == <<disk, ledger>>
vars == <<lock, pc, slot, meter, gate, call, outcome, streak, files, cancelled, sent, faults>>

Slot == 0..Slots - 1
LockPart == {"provider", "translation", "suite", "fixtures", "lineage"}

\* A balance the provider calls unavailable.
Unavailable == -1
Receipt == Unavailable..Cap + 1
Usage == (1..CallTokens + 1) \cup {None, Odd}
How == {"settled", "failed", "received", "uncertain", "unsent"}
Kind == {None, "credential", "transport", "other"}
Whole == {"kept", "torn", "absent"}

Answer == [how : How, kind : Kind, usage : Usage, model : {"a", "b"}]

\* What matters of a receipt: that it names a balance, and that it was read
\* for this very exchange.
Kept(receipt) == IF receipt = Unavailable THEN "unavailable" ELSE "own"

Settlement == [how : How, receipt : {None, "own", "stale", "unavailable"}, odd : BOOLEAN]

Entry ==
    [slot : Slot, intent : Whole, number : Nat \cup {None, Torn},
     settlement : Settlement \cup {None, Torn}]

Meter ==
    [initial : Receipt \cup {None}, current : Receipt \cup {None},
     calls : Nat, slotCalls : Nat, pending : BOOLEAN, active : BOOLEAN,
     tokens : Nat, model : {"a", "b", None}, halted : BOOLEAN]

Gate == [stopped : BOOLEAN, kind : Kind]

Store ==
    [anchor : Whole, preflight : {None, Torn, "own", "unavailable"}, stop : Slot \cup {-1} \cup {None, Torn},
     report : [Slot -> {"kept", Torn, None}],
     attempt : [Slot -> {"completed", "failed", Torn, None}]]

Ended == {"done", "refused", "crashed"}

TypeOK ==
    /\ pc \in Ended \cup
          {"start", "preflight", "begin", "turn", "authorize", "keep", "dispatch", "settle", "retain",
           "attempt", "next", "stop"}
    /\ lock \in [drift : LockPart \cup {None}, asked : {"preview", "own", "other"}]
    /\ slot \in Slot \cup {-1}
    /\ meter \in Meter
    /\ gate \in Gate
    /\ answer \in Answer \cup {None} /\ settled \in Settlement \cup {None}
    /\ outcome \in {None, "normal", "failed", "cancelled"}
    /\ streak \in 0..MaxStreak
    /\ disk \in Store
    /\ ledger \in Seq(Entry) /\ sent \subseteq DOMAIN ledger
    /\ cancelled \in BOOLEAN /\ faults \in 0..MaxFaults

NewMeter ==
    [initial |-> None, current |-> None, calls |-> 0, slotCalls |-> 0, pending |-> FALSE,
     active |-> FALSE, tokens |-> 0, model |-> None, halted |-> FALSE]

NewGate == [stopped |-> FALSE, kind |-> None]

Init ==
    /\ lock \in [drift : LockPart \cup {None}, asked : {"preview", "own", "other"}]
    /\ pc = "start" /\ slot = -1
    /\ meter = NewMeter /\ gate = NewGate
    /\ answer = None /\ settled = None
    /\ outcome = None /\ streak = 0
    /\ disk = [anchor |-> "absent", preflight |-> None, stop |-> None,
               report |-> [s \in Slot |-> None], attempt |-> [s \in Slot |-> None]]
    /\ ledger = <<>> /\ sent = {}
    /\ cancelled = FALSE /\ faults = 0

-----------------------------------------------------------------------------
(* A fault: a write leaves its file absent or torn, a query finds nobody.  *)

Fault(failed) ==
    /\ failed => faults < MaxFaults
    /\ faults' = IF failed THEN faults + 1 ELSE faults

\* What a file holds after a write of `value` that went the way `w`.
After(w, old, value) == CASE w = "kept" -> value [] w = "torn" -> Torn [] w = "absent" -> old

-----------------------------------------------------------------------------
(* The meter.                                                              *)

Spent(m) == m.initial - m.current

\* record_model_call after the receipt is appended: its checks in their
\* order, the first that fails stops the meter.
Charge(m, receipt, usage, model) ==
    LET read == [m EXCEPT !.pending = FALSE]
        known == [read EXCEPT !.current = receipt]
        counted == [known EXCEPT !.tokens = @ + usage]
        Halt(state) == [state EXCEPT !.halted = TRUE]
    IN  IF receipt = Unavailable \/ receipt > m.initial THEN Halt(read)
        ELSE IF usage \in {None, Odd} \/ usage > CallTokens THEN Halt(known)
        ELSE IF Spent(known) > counted.tokens \/ counted.tokens > CampaignTokens THEN Halt(counted)
        ELSE IF m.model \notin {None, model} THEN Halt(counted)
        ELSE [counted EXCEPT !.model = model]

\* settle_uncertain_dispatch: the receipt is read, and the meter stops.
Uncertain(m, receipt) ==
    [m EXCEPT !.pending = FALSE, !.halted = TRUE,
              !.current = IF receipt = Unavailable \/ receipt > m.initial THEN @ ELSE receipt]

Released(m) == [m EXCEPT !.pending = FALSE, !.calls = @ - 1, !.slotCalls = @ - 1]

MayCall(m) ==
    /\ ~m.halted /\ m.active /\ ~m.pending
    /\ m.calls < MaxCalls /\ m.slotCalls < SlotCalls
    /\ Spent(m) < Cap /\ m.current > 0

-----------------------------------------------------------------------------
(* The runner, up to its first slot.                                       *)

\* The parts of the lock against what the code expects of them.
ProviderHolds == lock.drift # "provider"
TranslationHolds == lock.drift # "translation"
SuiteHolds == lock.drift # "suite"
FixturesHold == lock.drift # "fixtures"
LineageHolds == lock.drift # "lineage"
Loads == LineageHolds /\ ProviderHolds /\ TranslationHolds /\ SuiteHolds /\ FixturesHold

\* A lock that drifted, or another acknowledgement: nothing is created.
Refuse ==
    /\ pc = "start" /\ (~Loads \/ lock.asked = "other")
    /\ pc' = "refused"
    /\ UNCHANGED <<lock, slot, meter, gate, call, outcome, streak, files, cancelled, sent, faults>>

\* Without --live the schedule is printed.
Preview ==
    /\ pc = "start" /\ Loads /\ lock.asked = "preview"
    /\ pc' = "done"
    /\ UNCHANGED <<lock, slot, meter, gate, call, outcome, streak, files, cancelled, sent, faults>>

Open(w) ==
    /\ pc = "start" /\ Loads /\ lock.asked = "own"
    /\ Fault(w # "kept")
    /\ disk' = [disk EXCEPT !.anchor = w]
    /\ pc' = IF w # "kept" THEN "crashed" ELSE IF cancelled THEN "stop" ELSE "preflight"
    /\ UNCHANGED <<lock, slot, meter, gate, call, outcome, streak, ledger, cancelled, sent>>

Preflight(receipt, w) ==
    LET accepted == receipt > 0 /\ receipt <= Cap
    IN  /\ pc = "preflight"
        /\ Fault(w # "kept")
        /\ meter' = IF accepted THEN [meter EXCEPT !.initial = receipt, !.current = receipt]
                                ELSE [meter EXCEPT !.halted = TRUE]
        /\ disk' = [disk EXCEPT !.preflight = After(w, @, Kept(receipt))]
        /\ pc' = IF accepted /\ w = "kept" THEN "begin" ELSE "stop"
        /\ UNCHANGED <<lock, slot, gate, call, outcome, streak, ledger, cancelled, sent>>

\* The balance client raises: nobody answers, the answer is none, or the
\* store of answers cannot keep it.
QueryFails == Fault(TRUE)

NoPreflight ==
    /\ pc = "preflight"
    /\ QueryFails
    /\ pc' = "stop"
    /\ UNCHANGED <<lock, slot, meter, gate, call, outcome, streak, files, cancelled, sent>>

-----------------------------------------------------------------------------
(* A slot: its agent loop, as far as it asks the gateway.                  *)

\* The meter and the store refuse a slot by an exception nobody catches.
BeginSlot(w) ==
    /\ pc = "begin" /\ slot + 1 \in Slot
    /\ Fault(w # "kept")
    /\ slot' = slot + 1
    /\ IF meter.halted \/ meter.active
          THEN /\ pc' = "crashed"
               /\ UNCHANGED <<meter, gate, answer>>
          ELSE /\ meter' = [meter EXCEPT !.active = TRUE, !.slotCalls = 0]
               /\ gate' = NewGate
               /\ answer' = None
               /\ pc' = IF w = "kept" THEN "turn" ELSE "crashed"
    /\ UNCHANGED <<lock, settled, outcome, streak, files, cancelled, sent>>

Exchanges(s) == {i \in DOMAIN ledger : ledger[i].slot = s}

\* A gateway that does not remember its stop.
GoesOnStopped ==
    /\ ~cancelled
    /\ Cardinality(Exchanges(slot)) < SlotCalls
    /\ answer # None => answer.how = "settled" \/ answer.kind = "other"

\* The loop goes on after a settled candidate, and after a context overflow.
GoesOn ==
    /\ ~cancelled /\ ~gate.stopped
    /\ Cardinality(Exchanges(slot)) < SlotCalls
    /\ answer # None => answer.how = "settled" \/ answer.kind = "other"

\* record_exchange_intent; a gateway that fails here returns to the loop.
Intent(directory, w) ==
    /\ pc = "turn" /\ GoesOn
    /\ directory \/ w = "absent"
    /\ Fault(w # "kept")
    /\ ledger' = IF directory
                   THEN Append(ledger, [slot |-> slot, intent |-> w, number |-> None, settlement |-> None])
                   ELSE ledger
    /\ gate' = [gate EXCEPT !.stopped = @ \/ w # "kept"]
    /\ pc' = IF w = "kept" THEN "authorize" ELSE "turn"
    /\ answer' = None
    /\ UNCHANGED <<lock, slot, meter, settled, outcome, streak, disk, cancelled, sent>>

Authorize ==
    /\ pc = "authorize"
    /\ IF MayCall(meter)
          THEN /\ meter' = [meter EXCEPT !.calls = @ + 1, !.slotCalls = @ + 1, !.pending = TRUE]
               /\ pc' = "keep"
               /\ UNCHANGED gate
          ELSE /\ meter' = [meter EXCEPT !.halted = TRUE]
               /\ gate' = [gate EXCEPT !.stopped = TRUE]
               /\ pc' = "turn"
    /\ UNCHANGED <<lock, slot, call, outcome, streak, files, cancelled, sent, faults>>

\* An authorization whose record does not matter.
KeepHeedless(w) ==
    /\ pc = "keep"
    /\ Fault(w # "kept")
    /\ ledger' = [ledger EXCEPT ![Len(ledger)].number = After(w, @, meter.calls)]
    /\ pc' = "dispatch"
    /\ UNCHANGED <<lock, slot, meter, gate, call, outcome, streak, disk, cancelled, sent>>

\* record_exchange_authorization
Keep(w) ==
    /\ pc = "keep"
    /\ Fault(w # "kept")
    /\ ledger' = [ledger EXCEPT ![Len(ledger)].number = After(w, @, meter.calls)]
    /\ meter' = IF w = "kept" THEN meter ELSE Released(meter)
    /\ gate' = [gate EXCEPT !.stopped = @ \/ w # "kept"]
    /\ pc' = IF w = "kept" THEN "dispatch" ELSE "turn"
    /\ UNCHANGED <<lock, slot, call, outcome, streak, disk, cancelled, sent>>

\* The downstream gateway returns or raises.  Only a request that reached the
\* provider has a usage.
Dispatch(a, reached) ==
    /\ pc = "dispatch"
    /\ a.how = "failed" <=> a.kind # None
    /\ a.how \in {"uncertain", "unsent"} => a.usage = None
    /\ a.how \in {"settled", "received"} \/ a.usage # None => reached
    /\ a.how = "unsent" => ~reached
    /\ answer' = a
    /\ gate' = IF a.how = "failed" THEN [gate EXCEPT !.kind = a.kind] ELSE gate
    /\ sent' = IF reached THEN sent \cup {Len(ledger)} ELSE sent
    /\ pc' = "settle"
    /\ UNCHANGED <<lock, slot, meter, settled, outcome, streak, files, cancelled, faults>>

\* The transport notices a cancel by a KeyboardInterrupt, which passes the
\* gateway: what reached the provider stays unsettled.
Interrupted(reached) ==
    /\ pc = "dispatch" /\ cancelled
    /\ sent' = IF reached THEN sent \cup {Len(ledger)} ELSE sent
    /\ pc' = "turn"
    /\ UNCHANGED <<lock, slot, meter, gate, call, outcome, streak, files, cancelled, faults>>

Settles(receipt) ==
    /\ settled' = [how |-> answer.how, receipt |-> receipt, odd |-> answer.usage = Odd]
    /\ answer' = [answer EXCEPT !.usage = None, !.model = "a"]
    /\ pc' = "retain"
    /\ UNCHANGED <<lock, slot, outcome, streak, files, cancelled, sent>>

\* The downstream gateway raised, whatever it was: the campaign stops.
Raised(a) == a.how \notin {"settled", "failed"}

\* _settle_result and _settle_exception once the balance is read.
Settle(receipt) ==
    /\ pc = "settle" /\ answer.how # "unsent"
    /\ meter' = IF answer.how = "uncertain" THEN Uncertain(meter, receipt)
                ELSE Charge(meter, receipt, answer.usage, answer.model)
    /\ gate' = [gate EXCEPT !.stopped = \/ meter'.halted
                                        \/ Raised(answer)
                                        \/ answer.kind = "credential"]
    /\ Settles(Kept(receipt))
    /\ UNCHANGED faults

\* The client raises: a BudgetStop retains the receipt read last, any other
\* exception none.  The call stays pending.
NoBalance(stop) ==
    /\ pc = "settle" /\ answer.how # "unsent"
    /\ QueryFails
    /\ gate' = [gate EXCEPT !.stopped = TRUE]
    /\ Settles(IF stop THEN "stale" ELSE None)
    /\ UNCHANGED meter

NotDispatched ==
    /\ pc = "settle" /\ answer.how = "unsent"
    /\ meter' = Released(meter)
    /\ gate' = [gate EXCEPT !.stopped = TRUE]
    /\ Settles(None)
    /\ UNCHANGED faults

\* record_exchange_settlement
Retain(w) ==
    /\ pc = "retain"
    /\ Fault(w # "kept")
    /\ ledger' = [ledger EXCEPT ![Len(ledger)].settlement = After(w, @, settled)]
    /\ gate' = [gate EXCEPT !.stopped = @ \/ w # "kept"]
    /\ settled' = None
    /\ pc' = "turn"
    /\ UNCHANGED <<lock, slot, meter, answer, outcome, streak, disk, cancelled, sent>>

\* The loop ends, its case is evaluated, and report.json written; a cancel
\* comes before a failure.
LoopEnds(o, w) ==
    /\ pc = "turn"
    /\ o = "cancelled" <=> cancelled
    /\ o = "normal" => ~gate.stopped /\ answer # None /\ answer.how = "settled"
    /\ Fault(w # "kept")
    /\ outcome' = o
    /\ disk' = [disk EXCEPT !.report[slot] = After(w, @, "kept")]
    /\ pc' = IF w = "kept" THEN "attempt" ELSE "crashed"
    /\ UNCHANGED <<lock, slot, meter, gate, call, streak, ledger, cancelled, sent>>

\* A campaign that goes on without the record of an attempt.
SettleSlotHeedless(w) ==
    /\ pc = "attempt"
    /\ Fault(w # "kept")
    /\ disk' = [disk EXCEPT !.attempt[slot] = After(w, @, IF outcome = "normal" THEN "completed" ELSE "failed")]
    /\ pc' = "next"
    /\ UNCHANGED <<lock, slot, meter, gate, call, outcome, streak, ledger, cancelled, sent>>

\* FileLiveCampaignStore.settle_slot
SettleSlot(w) ==
    /\ pc = "attempt"
    /\ Fault(w # "kept")
    /\ disk' = [disk EXCEPT !.attempt[slot] = After(w, @, IF outcome = "normal" THEN "completed" ELSE "failed")]
    /\ pc' = IF w = "kept" THEN "next" ELSE "stop"
    /\ UNCHANGED <<lock, slot, meter, gate, call, outcome, streak, ledger, cancelled, sent>>

\* The stop rules of the runner; without one the meter settles the slot, by
\* an exception nobody catches if it stopped or waits for a settlement.
NextSlot ==
    LET count == IF gate.kind = "transport" THEN streak + 1 ELSE 0
    IN  /\ pc = "next"
        /\ streak' = count
        /\ IF gate.stopped \/ outcome = "cancelled" \/ count >= MaxStreak
              THEN pc' = "stop" /\ UNCHANGED meter
              ELSE IF meter.halted \/ meter.pending
              THEN pc' = "crashed" /\ UNCHANGED meter
              ELSE /\ pc' = "begin"
                   /\ meter' = [meter EXCEPT !.active = FALSE, !.slotCalls = 0]
        /\ UNCHANGED <<lock, slot, gate, call, outcome, files, cancelled, sent, faults>>

RecordStop(w) ==
    /\ pc = "stop"
    /\ Fault(w # "kept")
    /\ disk' = [disk EXCEPT !.stop = After(w, @, slot)]
    /\ pc' = IF w = "kept" THEN "done" ELSE "crashed"
    /\ UNCHANGED <<lock, slot, meter, gate, call, outcome, streak, ledger, cancelled, sent>>

Complete ==
    /\ pc = "begin" /\ slot + 1 \notin Slot
    /\ pc' = "done"
    /\ UNCHANGED <<lock, slot, meter, gate, call, outcome, streak, files, cancelled, sent, faults>>

-----------------------------------------------------------------------------
(* The world: a cancel, and a crash, which loses what is in memory.        *)

Cancel ==
    /\ pc \notin Ended /\ ~cancelled
    /\ cancelled' = TRUE
    /\ UNCHANGED <<lock, pc, slot, meter, gate, call, outcome, streak, files, sent, faults>>

Crash ==
    /\ pc \notin Ended
    /\ pc' = "crashed" /\ slot' = -1
    /\ meter' = NewMeter /\ gate' = NewGate
    /\ answer' = None /\ settled' = None
    /\ outcome' = None /\ streak' = 0
    /\ UNCHANGED <<lock, files, cancelled, sent, faults>>

Runs ==
    \/ Refuse \/ Preview
    \/ NoPreflight
    \/ \E receipt \in Receipt, w \in Whole : Preflight(receipt, w)
    \/ \E directory \in BOOLEAN, w \in Whole : Intent(directory, w)
    \/ Authorize
    \/ \E a \in Answer, reached \in BOOLEAN : Dispatch(a, reached)
    \/ \E reached \in BOOLEAN : Interrupted(reached)
    \/ \E receipt \in Receipt : Settle(receipt)
    \/ \E stop \in BOOLEAN : NoBalance(stop)
    \/ NotDispatched
    \/ \E o \in {"normal", "failed", "cancelled"}, w \in Whole : LoopEnds(o, w)
    \/ \E w \in Whole : Open(w) \/ BeginSlot(w) \/ Keep(w) \/ Retain(w) \/ SettleSlot(w) \/ RecordStop(w)
    \/ NextSlot
    \/ Complete

Next == Runs \/ Cancel \/ Crash

\* The provider and the balance service answer within their timeouts.
Spec == Init /\ [][Next]_vars /\ WF_vars(Runs)

-----------------------------------------------------------------------------
(* The report of reconstruct_live_campaign_report, from the files alone.   *)

Authorized == {i \in DOMAIN ledger : ledger[i].number # None}
Settled == {i \in DOMAIN ledger : ledger[i].settlement # None}
Refuted == {i \in Settled : ledger[i].settlement.how = "unsent"}
ProviderExchanges == Authorized \ Refuted

Inventory(s) ==
    IF disk.attempt[s] # None THEN disk.attempt[s]
    ELSE IF disk.stop # None /\ s > disk.stop THEN "skipped"
    ELSE "missing"

\* _validate_exchange_ledger
LedgerReadable ==
    \A i \in DOMAIN ledger :
        /\ ledger[i].intent = "kept"
        /\ ledger[i].number # None => ledger[i].number = Cardinality({j \in Authorized : j <= i}) /\ ledger[i].number <= MaxCalls
        /\ ledger[i].settlement # None =>
              i \in Authorized /\ ledger[i].settlement # Torn /\ ~ledger[i].settlement.odd

Readable ==
    /\ disk.anchor = "kept" /\ disk.preflight # Torn /\ disk.stop # Torn
    /\ \A s \in Slot : disk.attempt[s] # Torn /\ disk.report[s] # Torn
    /\ LedgerReadable

-----------------------------------------------------------------------------
(* Properties.                                                             *)

\* Whatever fails and wherever the process dies, a request that reached the
\* provider has its intent and its own authorization number on disk, below the
\* ceiling: record_exchange_intent, authorize_model_call and
\* record_exchange_authorization come before the downstream gateway.
LedgerFirst ==
    /\ TypeOK
    /\ \A i \in sent : ledger[i].intent = "kept" /\ ledger[i].number \in 1..MaxCalls
    /\ \A i, j \in sent : ledger[i].number = ledger[j].number => i = j

\* A report rebuilt at any time counts every exchange that reached the
\* provider, and at most one that did not; a slot it calls skipped reached
\* nobody; what it calls executed or skipped is as many slots as there are
\* before and after the one in progress.
ReportTrue ==
    Readable =>
        /\ sent \subseteq ProviderExchanges
        /\ Cardinality(ProviderExchanges \ sent) <= 1
        /\ \A s \in Slot : Inventory(s) = "skipped" => Exchanges(s) = {}
        /\ \A s, t \in Slot : s < t /\ Inventory(s) \in {"missing", "skipped"} => Inventory(t) \notin {"completed", "failed"}

\* No request goes out under a lock that drifted or was not acknowledged, and
\* none after a stop: neither once the meter or the gateway stopped or the stop
\* is on disk, nor in a later slot than one whose attempt could not be kept (the
\* break statements of run and its settlement rules).
NothingAfterStop ==
    [][ sent' # sent =>
             /\ lock = [drift |-> None, asked |-> "own"]
             /\ ~meter.halted /\ ~gate.stopped /\ disk.stop = None
             /\ \A s \in Slot : s < slot => disk.attempt[s] \in {"completed", "failed"} ]_vars

\* A stop is final, and yet the campaign comes to its end, by its last slot, a
\* stop or an exception.
StopIsFinal == NothingAfterStop /\ <>(pc \in Ended)

=============================================================================
