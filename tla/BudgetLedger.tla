---------------------------- MODULE BudgetLedger ----------------------------
(***************************************************************************)
(* The reservation ledger of typescript/src/execution/admission.ts.        *)
(*                                                                         *)
(* Runs begin with restored counts; their clients reserve model calls and  *)
(* tool steps in batches and settle the tickets they were given.  Admit    *)
(* and settle operations go through one promise queue; each of them awaits *)
(* the accounting sink between its check and its charge, and during that   *)
(* await other runs may begin, the guard may close and clients may queue.  *)
(***************************************************************************)
EXTENDS Integers, Sequences, FiniteSetsExt

CONSTANTS
    Run,        \* run identities
    Ticket,     \* reservation identities (randomUUID)
    Count,      \* batch sizes a caller may ask for
    Limits,     \* the KernelLimits a run may begin with, [Kind -> cap]
    Restorable, \* the restored Counts a run may begin with, [Kind -> Nat]
    Outer,      \* the enclosing budget, [Kind -> cap]
    NoCap,      \* an absent cap: metered limits, or no outer entry
    MaxSafe,    \* Number.MAX_SAFE_INTEGER
    MaxQueue,   \* bound of the model: operations in the promise queue
    NoTicket

Kind == {"model", "tools"}
Cap == Nat \cup {NoCap}
Usage == {"reported", "unavailable"}
TicketRecord == [run : Run, kind : Kind, count : Count, settled : Usage \cup {"no"}]

ASSUME LedgerAssumption ==
    /\ Count \subseteq Nat \ {0}
    /\ Limits \subseteq [Kind -> Cap]
    /\ Restorable \subseteq [Kind -> Nat]
    /\ Outer \in [Kind -> Cap]
    /\ NoCap \notin Nat
    /\ MaxSafe \in Nat
    /\ MaxQueue \in Nat
    /\ NoTicket \notin Ticket \cup TicketRecord

VARIABLES
    phase,    \* begin() per run: "unknown", "recording", "open", "failed"
    limit,    \* the limits a run began with
    counts,   \* per-run counts
    total,    \* enclosing counts
    restored, \* history: what each run restored
    imported, \* history: the part of total that runs restored
    ticket,   \* the tickets map
    usage,    \* whether the accumulated usage is still "reported"
    queue,    \* the promise queue: the head's operation is running
    writing,  \* the running operation awaits the accounting sink
    fresh,    \* the ticket of the reservation being persisted
    durable,  \* tickets whose budget.reserved event the sink acknowledged
    granted,  \* history: tickets whose admit() resolved to its caller
    stopped   \* the guard throws

ledgerVars == <<phase, limit, counts, total, restored, imported, ticket, usage, queue,
          writing, fresh, durable, granted, stopped>>
runVars == <<phase, limit, restored, imported>>
account == <<counts, total, ticket, usage>>

NoCounts == [k \in Kind |-> 0]
AdmitRequest == [op : {"admit"}, run : Run, kind : Kind, count : Count]
SettleRequest == [op : {"settle"}, run : Run, ticket : Ticket, usage : Usage]

LedgerTypeOK ==
    /\ phase \in [Run -> {"unknown", "recording", "open", "failed"}]
    /\ limit \in [Run -> [Kind -> Cap]]
    /\ counts \in [Run -> [Kind -> Nat]]
    /\ total \in [Kind -> Nat]
    /\ restored \in [Run -> [Kind -> Nat]]
    /\ imported \in [Kind -> Nat]
    /\ ticket \in [Ticket -> TicketRecord \cup {NoTicket}]
    /\ usage \in Usage
    /\ queue \in Seq(AdmitRequest \cup SettleRequest)
    /\ writing \in BOOLEAN
    /\ fresh \in Ticket \cup {NoTicket}
    /\ durable \in SUBSET Ticket
    /\ granted \in SUBSET Ticket
    /\ stopped \in BOOLEAN

LedgerInit ==
    /\ phase = [r \in Run |-> "unknown"]
    /\ limit = [r \in Run |-> [k \in Kind |-> NoCap]]
    /\ counts = [r \in Run |-> NoCounts]
    /\ total = NoCounts
    /\ restored = [r \in Run |-> NoCounts]
    /\ imported = NoCounts
    /\ ticket = [t \in Ticket |-> NoTicket]
    /\ usage = "reported"
    /\ queue = <<>>
    /\ writing = FALSE
    /\ fresh = NoTicket
    /\ durable = {}
    /\ granted = {}
    /\ stopped = FALSE

-----------------------------------------------------------------------------
(* begin(): not queued, so it interleaves with a reservation in progress.  *)

\* The restored model calls assumed to have reported their usage.
ForgottenUsage(past) == usage

RestoredUsage(past) == IF past["model"] > 0 THEN "unavailable" ELSE usage

BeginRun(r, l, past) ==
    /\ phase[r] = "unknown"
    /\ counts' = [counts EXCEPT ![r] = past]
    /\ restored' = [restored EXCEPT ![r] = past]
    /\ limit' = [limit EXCEPT ![r] = l]
    /\ \/ /\ \A k \in Kind : total[k] + past[k] <= MaxSafe
          /\ phase' = [phase EXCEPT ![r] = "recording"]
          /\ total' = [k \in Kind |-> total[k] + past[k]]
          /\ imported' = [k \in Kind |-> imported[k] + past[k]]
          /\ usage' = RestoredUsage(past)
       \/ /\ \E k \in Kind : total[k] + past[k] > MaxSafe
          /\ phase' = [phase EXCEPT ![r] = "failed"]
          /\ UNCHANGED <<total, imported, usage>>
    /\ UNCHANGED <<ticket, queue, writing, fresh, durable, granted, stopped>>

\* The budget.run event settles: a rejected sink rejects begin(), the restored
\* counts stay in the enclosing total and the identity stays used.
BeginRecorded(r) ==
    /\ phase[r] = "recording"
    /\ \E outcome \in {"open", "failed"} : phase' = [phase EXCEPT ![r] = outcome]
    /\ UNCHANGED <<limit, restored, imported, account, queue, writing,
                   fresh, durable, granted, stopped>>

-----------------------------------------------------------------------------
(* Callers join the promise queue.                                         *)

Enqueue(req) ==
    /\ Len(queue) < MaxQueue
    /\ phase[req.run] = "open"
    /\ queue' = Append(queue, req)
    /\ UNCHANGED <<runVars, account, writing, fresh, durable, granted, stopped>>

\* Bound of the model: a caller asks only while Ticket still holds an identity
\* for every reservation already queued.
TicketsLeft ==
    Cardinality({i \in DOMAIN queue : queue[i].op = "admit"})
        < Cardinality({t \in Ticket : ticket[t] = NoTicket})

Admit(r, k, n) ==
    /\ TicketsLeft
    /\ Enqueue([op |-> "admit", run |-> r, kind |-> k, count |-> n])

\* Settling a model ticket with no usage is settling it with "unavailable"; tool
\* tickets carry no usage ("reported" stands for that).  The ticket may be one
\* this run does not own, or one already settled.
SettleTicket(r, t, u) ==
    /\ t \in granted
    /\ ticket[t].kind = "tools" => u = "reported"
    /\ Enqueue([op |-> "settle", run |-> r, ticket |-> t, usage |-> u])

-----------------------------------------------------------------------------
(* The operation at the head of the queue.                                 *)

Req == Head(queue)
Asked(op) == queue # <<>> /\ Req.op = op

\* The operation settles, successfully or not: the queue goes on.
Finish ==
    /\ queue' = Tail(queue)
    /\ writing' = FALSE
    /\ fresh' = NoTicket

Within(n, cap) == cap # NoCap => n <= cap

\* The cap test without the batch size: the last batch overshoots.
AdmissibleOne(r, k, n) ==
    /\ Within(counts[r][k] + 1, limit[r][k])
    /\ Within(total[k] + 1, Outer[k])
    /\ total[k] + n <= MaxSafe

\* The enclosing cap tested against the run's own counts.
AdmissibleAlone(r, k, n) ==
    /\ Within(counts[r][k] + n, limit[r][k])
    /\ Within(counts[r][k] + n, Outer[k])
    /\ total[k] + n <= MaxSafe

Admissible(r, k, n) ==
    /\ Within(counts[r][k] + n, limit[r][k])
    /\ Within(total[k] + n, Outer[k])
    /\ total[k] + n <= MaxSafe

\* guard() throws, or a cap answers undefined.
AdmitRefused ==
    /\ Asked("admit") /\ ~writing
    /\ stopped \/ ~Admissible(Req.run, Req.kind, Req.count)
    /\ Finish
    /\ UNCHANGED <<runVars, account, durable, granted, stopped>>

AdmitChecked ==
    /\ Asked("admit") /\ ~writing
    /\ ~stopped /\ Admissible(Req.run, Req.kind, Req.count)
    /\ \E t \in Ticket : ticket[t] = NoTicket /\ fresh' = t
    /\ writing' = TRUE
    /\ UNCHANGED <<runVars, account, queue, durable, granted, stopped>>

\* The guard consulted before the charge: a stop during persistence loses it.
ChargeUnlessStopped(r, k, n, t) ==
    IF stopped THEN UNCHANGED <<counts, total, ticket>> ELSE
        /\ counts' = [counts EXCEPT ![r][k] = @ + n]
        /\ total' = [total EXCEPT ![k] = @ + n]
        /\ ticket' = [ticket EXCEPT ![t] = [run |-> r, kind |-> k, count |-> n, settled |-> "no"]]

Charge(r, k, n, t) ==
    /\ counts' = [counts EXCEPT ![r][k] = @ + n]
    /\ total' = [total EXCEPT ![k] = @ + n]
    /\ ticket' = [ticket EXCEPT ![t] = [run |-> r, kind |-> k, count |-> n, settled |-> "no"]]

\* The event is on disk: the reservation is charged even if stop arrived
\* during persistence, and then the guard runs again before the ticket is
\* handed out.
AdmitRecorded ==
    /\ Asked("admit") /\ writing
    /\ durable' = durable \cup {fresh}
    /\ Charge(Req.run, Req.kind, Req.count, fresh)
    /\ granted' = IF stopped THEN granted ELSE granted \cup {fresh}
    /\ Finish
    /\ UNCHANGED <<runVars, usage, stopped>>

\* The sink rejects.
AdmitUnrecorded ==
    /\ Asked("admit") /\ writing
    /\ Finish
    /\ UNCHANGED <<runVars, account, durable, granted, stopped>>

Owned == ticket[Req.ticket] # NoTicket /\ ticket[Req.ticket].run = Req.run

\* unknown_reservation, or a ticket already settled.
SettleIgnored ==
    /\ Asked("settle") /\ ~writing
    /\ Owned => ticket[Req.ticket].settled # "no"
    /\ Finish
    /\ UNCHANGED <<runVars, account, durable, granted, stopped>>

SettleChecked ==
    /\ Asked("settle") /\ ~writing
    /\ Owned /\ ticket[Req.ticket].settled = "no"
    /\ writing' = TRUE
    /\ UNCHANGED <<runVars, account, queue, fresh, durable, granted, stopped>>

\* entry.settled, and addUsage() for a model ticket.
SettleRecorded ==
    /\ Asked("settle") /\ writing
    /\ ticket' = [ticket EXCEPT ![Req.ticket].settled = Req.usage]
    /\ usage' = IF ticket[Req.ticket].kind = "model" /\ Req.usage = "unavailable"
                THEN "unavailable" ELSE usage
    /\ Finish
    /\ UNCHANGED <<runVars, counts, total, durable, granted, stopped>>

\* The sink rejects: the ticket stays unsettled and may be settled again.
SettleUnrecorded ==
    /\ Asked("settle") /\ writing
    /\ Finish
    /\ UNCHANGED <<runVars, account, durable, granted, stopped>>

\* snapshot(): an unsettled model ticket makes the usage unavailable.
SnapshotUsage ==
    IF \E t \in Ticket : /\ ticket[t] # NoTicket
                         /\ ticket[t].kind = "model"
                         /\ ticket[t].settled = "no"
    THEN "unavailable" ELSE usage

\* ExecutionController.requestStop or its deadline closes the guard for good.
Stop ==
    /\ ~stopped
    /\ stopped' = TRUE
    /\ UNCHANGED <<runVars, account, queue, writing, fresh, durable, granted>>

-----------------------------------------------------------------------------
Step ==
    \/ AdmitRefused \/ AdmitChecked \/ AdmitRecorded \/ AdmitUnrecorded
    \/ SettleIgnored \/ SettleChecked \/ SettleRecorded \/ SettleUnrecorded

LedgerNext ==
    \/ \E r \in Run, l \in Limits, c \in Restorable : BeginRun(r, l, c)
    \/ \E r \in Run : BeginRecorded(r)
    \/ \E r \in Run, k \in Kind, n \in Count : Admit(r, k, n)
    \/ \E r \in Run, t \in Ticket, u \in Usage : SettleTicket(r, t, u)
    \/ Step
    \/ Stop

LedgerSpec == LedgerInit /\ [][LedgerNext]_ledgerVars

-----------------------------------------------------------------------------
Charged == {t \in Ticket : ticket[t] # NoTicket}
Of(k) == {t \in Charged : ticket[t].kind = k}
Sum(S) == MapThenSumSet(LAMBDA t : ticket[t].count, S)
Larger(m, n) == IF m < n THEN n ELSE m

\* No interleaving of begins, concurrent admissions, sink failures and stops
\* takes a run past its limits (or past what it was restored with), or the
\* reservations of all runs together past the enclosing budget, although the
\* caps are tested before the sink is awaited and charged after (lines 43-47).
RunWithinCaps ==
    \A r \in Run, k \in Kind :
        limit[r][k] # NoCap => counts[r][k] <= Larger(limit[r][k], restored[r][k])

OuterWithinCaps ==
    \A k \in Kind : Outer[k] # NoCap => total[k] <= imported[k] + Outer[k]

WithinBudget == RunWithinCaps /\ OuterWithinCaps

\* "Persistence is a pre-effect barrier" (line 15): a caller holds a ticket only
\* if the sink acknowledged its reservation, and exactly the acknowledged
\* reservations are charged, whatever stop does meanwhile.
PersistedBeforeGranted ==
    /\ granted \subseteq durable
    /\ durable = Charged

\* A snapshot that reports usage omits none: no restored model call, no model
\* ticket unsettled or settled without usage.
UsageNeverUnderstated ==
    SnapshotUsage = "reported" =>
        /\ imported["model"] = 0
        /\ \A t \in Of("model") : ticket[t].settled = "reported"

\* The enclosing counts are what runs restored plus the whole batch of every
\* ticket: nothing is lost, refunded or counted twice by failures, by a second
\* settlement or by a begin during a reservation; and the usage that goes with
\* them is never understated.
AccountsBalance ==
    /\ LedgerTypeOK
    /\ \A k \in Kind : total[k] = imported[k] + Sum(Of(k))
    /\ UsageNeverUnderstated

Allowance == INSTANCE BudgetAllowance WITH
    joined <- {r \in Run : phase[r] # "unknown"},
    spent <- counts,
    pool <- [k \in Kind |-> total[k] - imported[k]]

\* "Atomic whole-batch reservations" (execution/README.md): the check and the
\* charge, an await apart, look like one step that tested both caps.
ReservationsAreAtomic == Allowance!Spec
=============================================================================
