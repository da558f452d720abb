------------------------- MODULE ProtocolStudyProofs -------------------------
(***************************************************************************)
(* For every matrix, all replies and configurations: no slot is begun      *)
(* after a drift, however often a runner died before; what the second      *)
(* study rests on stays what it was; and a summary tells of the calls that *)
(* left.                                                                   *)
(***************************************************************************)
EXTENDS ProtocolStudy, SetSums, TLAPS

Prints == {"f1", "f2"}

Printed(attempt) == \A call \in Calls(attempt) : call.print \in Prints \cup {None}

\* The slot a runner is at, and how far its directory is.
AtSlot(status) == slot \in Of(study) /\ dir[slot] = status

\* What the runner remembers has every print of the attempts on disk, but for
\* the one it has just kept, and tells no drift; they are of its configuration.
Remembers ==
    /\ prints \in [Transports -> SUBSET Prints] /\ ~Drifts(prints)
    /\ \A u \in Known(study) : kept[u].lock = lock[study]
    /\ \A u \in Known(study) : (pc = "after" /\ u = slot) \/ PrintsOf(kept[u]) \subseteq prints[Transport[u]]

\* Every attempt the first study was summarized with is still there.
SourceGood ==
    /\ summary # None
    /\ StrictSlots \subseteq Known("reliability")
    /\ \A s, u \in StrictSlots : kept[s].lock = kept[u].lock
    /\ Cut(kept) = Cut(summary.kept)

Recorded ==
    /\ dir \in [Slot -> {"absent", "open", "torn", "kept"}] /\ DOMAIN kept = Slot
    /\ \A s \in Slot : dir[s] = "kept" => Printed(kept[s])
    /\ \A call \in {first, second} \ {None} : call.print \in Prints \cup {None}

Working ==
    /\ pc \in {"idle", "loop", "send", "sent", "keep", "write", "after"}
    /\ pc # "idle" => study \in Studies /\ Remembers
    /\ pc \in {"send", "sent", "keep"} => AtSlot("open")
    /\ pc = "write" => AtSlot("torn")
    /\ pc = "after" => AtSlot("kept")

Sourced == Known("sensitivity") # {} \/ (pc # "idle" /\ study = "sensitivity") => SourceGood

StudyInv == Recorded /\ Working /\ Sourced

-----------------------------------------------------------------------------
LEMMA StudyBegins == Init => StudyInv
<1> SUFFICES ASSUME Init PROVE StudyInv
  OBVIOUS
<1>1. Recorded
  BY DEF Init, Recorded
<1>2. Working
  BY DEF Init, Working
<1>3. Sourced
  BY DEF Init, Sourced, Known, Of
<1> QED
  BY <1>1, <1>2, <1>3 DEF StudyInv

\* A transport of which the runner remembers two prints has drifted.
LEMMA OnePrint ==
    ASSUME NEW p \in [Transports -> SUBSET Prints], ~Drifts(p),
           NEW t \in Transports, NEW a \in p[t], NEW b \in p[t]
    PROVE  a = b
<1> SUFFICES ASSUME a # b PROVE FALSE
  OBVIOUS
<1>1. IsFiniteSet(Prints) /\ p[t] \subseteq Prints
  <2>1. IsFiniteSet({} \cup {"f1"})
    BY FS_EmptySet, FS_AddElement
  <2>2. IsFiniteSet(({} \cup {"f1"}) \cup {"f2"})
    BY <2>1, FS_AddElement
  <2> QED
    BY <2>2 DEF Prints
<1>2. IsFiniteSet(p[t]) /\ {a, b} \subseteq p[t]
  BY <1>1, FS_Subset
<1>3. Cardinality({a, b}) <= Cardinality(p[t]) /\ Cardinality(p[t]) \in Nat
  BY <1>2, FS_Subset, FS_CardinalityType
<1>4. Cardinality({a, b}) = 2
  <2>1. IsFiniteSet({a}) /\ Cardinality({a}) = 1
    BY FS_Singleton
  <2>2. Cardinality({a} \cup {b}) = 2
    BY <2>1, FS_AddElement
  <2>3. {a} \cup {b} = {a, b}
    OBVIOUS
  <2> QED
    BY <2>2, <2>3
<1> QED
  BY <1>3, <1>4 DEF Drifts

\* Where the runner begins a slot, any two calls on disk agree.
LEMMA NoDriftOnDisk ==
    ASSUME StudyInv, pc = "loop",
           NEW s \in Known(study), NEW u \in Known(study), Transport[s] = Transport[u],
           NEW c \in Calls(kept[s]), NEW d \in Calls(kept[u]), c.print # None, d.print # None
    PROVE  c.print = d.print
<1>1. c.print \in PrintsOf(kept[s]) /\ d.print \in PrintsOf(kept[u])
  BY DEF PrintsOf
<1>2. PrintsOf(kept[s]) \subseteq prints[Transport[s]] /\ PrintsOf(kept[u]) \subseteq prints[Transport[u]]
  BY DEF StudyInv, Working, Remembers
<1>3. prints \in [Transports -> SUBSET Prints] /\ ~Drifts(prints) /\ Transport[s] \in Transports
  BY StudyAssumption DEF StudyInv, Working, Remembers, Known, Of
<1> QED
  BY <1>1, <1>2, <1>3, OnePrint

\* A step that changes no file and no configuration.
LEMMA SourceSame ==
    ASSUME Sourced, UNCHANGED <<dir, kept, summary>>,
           pc' = "idle" \/ (UNCHANGED study /\ pc # "idle")
    PROVE  Sourced'
BY DEF Sourced, SourceGood, Known, Of, StrictSlots, Cut

LEMMA ExitKeeps ==
    ASSUME StudyInv, NEW how, Exits(how), UNCHANGED <<dir, kept, summary>>
    PROVE  StudyInv'
<1>1. Recorded'
  BY DEF Exits, StudyInv, Recorded, Printed, Calls
<1>2. Working'
  BY DEF Exits, Working
<1>3. Sourced'
  <2>1. Sourced /\ pc' = "idle"
    BY DEF Exits, StudyInv
  <2> QED
    BY <2>1, SourceSame
<1> QED
  BY <1>1, <1>2, <1>3 DEF StudyInv

LEMMA StartSteps ==
    ASSUME StudyInv, NEW st \in Studies, NEW s, NEW n, Start(st, s, n)
    PROVE  StudyInv'
<1>1. CASE \E how : Exits(how)
  BY <1>1, ExitKeeps DEF Start, disk
<1>2. CASE ~(\E how : Exits(how))
  <2>1. /\ st = "sensitivity" => SourceHolds
        /\ \A u \in Known(st) : kept[u].lock = lock[st]
        /\ ~Drifts(PrintsOnDisk(st))
        /\ pc' = "loop" /\ study' = st /\ prints' = PrintsOnDisk(st)
        /\ UNCHANGED <<lock, source, dir, kept, summary, slot, first, second>>
    BY <1>2 DEF Start, config, disk, slotvars
  <2>2. \A u \in Known(st) : u \in Slot /\ PrintsOf(kept[u]) \subseteq Prints
    BY DEF StudyInv, Recorded, Printed, PrintsOf, Known, Of
  <2>3. /\ PrintsOnDisk(st) \in [Transports -> SUBSET Prints]
        /\ \A u \in Known(st) : PrintsOf(kept[u]) \subseteq PrintsOnDisk(st)[Transport[u]]
    BY <2>2, StudyAssumption DEF PrintsOnDisk
  <2>4. Remembers'
    BY <2>1, <2>3 DEF Remembers, Known, Of, PrintsOf, Calls, Drifts
  <2>5. Working'
    BY <2>1, <2>4 DEF Working
  <2>6. Recorded'
    BY <2>1 DEF StudyInv, Recorded, Printed, Calls
  <2>7. SourceHolds => SourceGood
    BY DEF SourceHolds, SourceGood, Known, Of, StrictSlots
  <2>8. Sourced'
    BY <2>1, <2>7 DEF StudyInv, Sourced, SourceGood, Known, Of, StrictSlots, Cut
  <2> QED
    BY <2>5, <2>6, <2>8 DEF StudyInv
<1> QED
  BY <1>1, <1>2

LEMMA BeginStep ==
    ASSUME StudyInv, NEW s \in Slot, Begin(s)
    PROVE  StudyInv'
<1>1. CASE \E how : Exits(how)
  <2>1. UNCHANGED <<dir, kept, summary>>
    BY <1>1 DEF Begin, Exits
  <2> QED
    BY <1>1, <2>1, ExitKeeps
<1>2. CASE dir[s] = "absent"
  <2>1. /\ pc = "loop" /\ Study[s] = study /\ dir' = [dir EXCEPT ![s] = "open"] /\ pc' = "send" /\ slot' = s
        /\ UNCHANGED <<first, second, study, prints, lock, kept, summary>>
    BY <1>2 DEF Begin, Due, Selected, memory, config
  <2>2. /\ dir \in [Slot -> {"absent", "open", "torn", "kept"}]
        /\ \A u \in Slot : dir'[u] = "kept" <=> dir[u] = "kept"
    BY <1>2, <2>1 DEF StudyInv, Recorded
  <2>3. \A st \in Studies : Known(st)' = Known(st)
    BY <2>2 DEF Known, Of
  <2>4. Recorded'
    BY <2>1, <2>2 DEF StudyInv, Recorded, Printed, Calls
  <2>5. study \in Studies /\ Remembers
    BY <2>1 DEF StudyInv, Working
  <2>6. Known(study)' = Known(study) /\ Remembers'
    BY <2>1, <2>3, <2>5 DEF Remembers, PrintsOf, Calls, Drifts
  <2>7. AtSlot("open")'
    BY <2>1, <2>2 DEF AtSlot, Of
  <2>8. Working'
    BY <2>1, <2>5, <2>6, <2>7 DEF Working
  <2>9. Sourced'
    BY <2>1, <2>3 DEF StudyInv, Sourced, SourceGood, StrictSlots, Of, Cut, Studies
  <2> QED
    BY <2>4, <2>8, <2>9 DEF StudyInv
<1> QED
  BY <1>1, <1>2 DEF Begin

\* Between the directory and its attempt.
LEMMA SlotSteps ==
    ASSUME StudyInv,
           \/ Send \/ SendRepair
           \/ \E reply \in UNION {Replies[s] : s \in Slot} : Receive(reply)
    PROVE  StudyInv'
<1>1. CASE Send \/ SendRepair
  <2>1. pc = "send" /\ pc' = "sent" /\ UNCHANGED <<dir, kept, summary, lock, slot, first, second, study, prints>>
    BY <1>1 DEF Send, SendRepair, Sends, config, disk, slotvars, memory
  <2>2. Recorded'
    BY <2>1 DEF StudyInv, Recorded, Printed, Calls
  <2>3. Working'
    BY <2>1 DEF StudyInv, Working, Remembers, AtSlot, Calls, PrintsOf, Drifts, Known, Of
  <2>4. Sourced'
    BY <2>1, SourceSame DEF StudyInv
  <2> QED
    BY <2>2, <2>3, <2>4 DEF StudyInv
<1>2. ASSUME NEW reply, Receive(reply)
      PROVE  StudyInv'
  <2> DEFINE call == Assessed(reply, slot)
  <2>1. UNCHANGED <<dir, kept, summary, lock>> /\ pc = "sent"
    BY <1>2 DEF Receive, config, disk
  <2>2. slot \in Slot /\ reply \in Reply
    BY <1>2, <2>1, StudyAssumption DEF Receive, StudyInv, Working, AtSlot, Of
  <2>3. call.print \in Prints \cup {None}
    BY <2>2 DEF Assessed, Reply, Prints
  <2>4. CASE Exits("raised")
    BY <2>1, <2>4, ExitKeeps
  <2>5. CASE call.level # Raises
    <3>1. /\ pc' \in {"send", "keep"} /\ UNCHANGED <<slot, study, prints>>
          /\ first' \in {first, call} /\ second' \in {second, call}
      BY <1>2, <2>5 DEF Receive, memory
    <3>2. Recorded'
      BY <2>1, <2>3, <3>1 DEF StudyInv, Recorded, Printed, Calls
    <3>3. Working'
      BY <2>1, <3>1 DEF StudyInv, Working, Remembers, AtSlot, Calls, PrintsOf, Drifts, Known, Of
    <3>4. Sourced'
      BY <2>1, <3>1, SourceSame DEF StudyInv
    <3> QED
      BY <3>2, <3>3, <3>4 DEF StudyInv
  <2> QED
    BY <1>2, <2>4, <2>5 DEF Receive
<1> QED
  BY <1>1, <1>2

LEMMA CreateStep ==
    ASSUME StudyInv, Create
    PROVE  StudyInv'
<1>1. /\ pc = "keep" /\ dir' = [dir EXCEPT ![slot] = "torn"] /\ pc' = "write"
      /\ UNCHANGED <<kept, summary, lock, slot, first, second, study, prints>>
  BY DEF Create, config, slotvars, memory
<1>2. slot \in Of(study) /\ slot \in Slot /\ dir[slot] = "open" /\ study \in Studies
  BY <1>1 DEF StudyInv, Working, AtSlot, Of
<1>3. /\ dir' \in [Slot -> {"absent", "open", "torn", "kept"}] /\ dir'[slot] = "torn"
      /\ \A u \in Slot : dir'[u] = "kept" <=> dir[u] = "kept"
  BY <1>1, <1>2 DEF StudyInv, Recorded
<1>4. \A st \in Studies : Known(st)' = Known(st)
  BY <1>3 DEF Known, Of
<1>5. Recorded'
  BY <1>1, <1>3 DEF StudyInv, Recorded, Printed, Calls
<1>6. Known(study)' = Known(study) /\ Remembers'
  BY <1>1, <1>2, <1>4 DEF StudyInv, Working, Remembers, PrintsOf, Calls, Drifts
<1>7. Working'
  BY <1>1, <1>2, <1>3, <1>6 DEF Working, AtSlot, Of
<1>8. Sourced'
  BY <1>1, <1>4 DEF StudyInv, Sourced, SourceGood, StrictSlots, Of, Cut, Studies
<1> QED
  BY <1>5, <1>7, <1>8 DEF StudyInv

LEMMA KeepStep ==
    ASSUME StudyInv, Keep
    PROVE  StudyInv'
<1> DEFINE attempt == [lock |-> lock[study], first |-> first, second |-> second]
<1>1. /\ pc = "write" /\ pc' = "after"
      /\ dir' = [dir EXCEPT ![slot] = "kept"] /\ kept' = [kept EXCEPT ![slot] = attempt]
      /\ UNCHANGED <<summary, lock, slot, first, second, study, prints>>
  BY DEF Keep, config, slotvars, memory
<1>2. slot \in Of(study) /\ slot \in Slot /\ dir[slot] = "torn" /\ study \in Studies
  BY <1>1 DEF StudyInv, Working, AtSlot, Of
<1>3. /\ dir' \in [Slot -> {"absent", "open", "torn", "kept"}] /\ DOMAIN kept' = Slot
      /\ dir'[slot] = "kept" /\ kept'[slot] = attempt
      /\ \A u \in Slot \ {slot} : dir'[u] = dir[u] /\ kept'[u] = kept[u]
  BY <1>1, <1>2 DEF StudyInv, Recorded
<1>4. Known(study)' = Known(study) \cup {slot}
  BY <1>1, <1>2, <1>3 DEF Known, Of
<1>5. Printed(attempt)
  BY DEF StudyInv, Recorded, Printed, Calls
<1>6. Recorded'
  BY <1>1, <1>3, <1>5 DEF StudyInv, Recorded, Printed, Calls
<1>7. Remembers
  BY <1>1 DEF StudyInv, Working
<1>8. \A u \in Known(study) : u # slot /\ u \in Slot /\ kept'[u] = kept[u]
  BY <1>2, <1>3 DEF Known, Of
<1>9. Remembers'
  <2>1. prints' \in [Transports -> SUBSET Prints] /\ ~Drifts(prints)'
    BY <1>1, <1>7 DEF Remembers, Drifts
  <2>2. \A u \in Known(study)' : kept'[u].lock = lock'[study']
    BY <1>1, <1>3, <1>4, <1>7, <1>8 DEF Remembers
  <2>3. \A u \in Known(study)' : u = slot' \/ PrintsOf(kept[u])' \subseteq prints'[Transport[u]]
    BY <1>1, <1>4, <1>7, <1>8 DEF Remembers, PrintsOf, Calls
  <2> QED
    BY <1>1, <2>1, <2>2, <2>3 DEF Remembers
<1>10. Working'
  BY <1>1, <1>2, <1>3, <1>9 DEF Working, AtSlot, Of
<1>11. ASSUME SourceGood PROVE SourceGood'
  <2>1. \A u \in StrictSlots : dir[u] = "kept" /\ u \in Slot /\ kept'[u] = kept[u] /\ dir'[u] = "kept"
    BY <1>2, <1>3, <1>11 DEF SourceGood, Known, Of, StrictSlots
  <2>2. Cut(kept)' = Cut(kept)
    BY <2>1 DEF Cut, StrictSlots
  <2>3. Cut(summary.kept)' = Cut(summary.kept)
    BY <1>1 DEF Cut, StrictSlots
  <2>4. StrictSlots' \subseteq Known("reliability")'
    BY <2>1 DEF StrictSlots, Known, Of
  <2> QED
    BY <1>1, <1>11, <2>1, <2>2, <2>3, <2>4 DEF SourceGood, StrictSlots
<1>12. Known("sensitivity")' # {} \/ study' = "sensitivity" => Known("sensitivity") # {} \/ study = "sensitivity"
  BY <1>1, <1>2, <1>3 DEF Known, Of
<1>13. Sourced'
  BY <1>1, <1>11, <1>12 DEF StudyInv, Sourced
<1> QED
  BY <1>6, <1>10, <1>13 DEF StudyInv

LEMMA AfterStep ==
    ASSUME StudyInv, After
    PROVE  StudyInv'
<1>1. pc = "after" /\ UNCHANGED <<dir, kept, summary, lock>>
  BY DEF After, config, disk
<1>2. CASE Exits("stopped")
  BY <1>1, <1>2, ExitKeeps
<1>3. CASE ~Exits("stopped")
  <2> DEFINE t == Transport[slot]
             seen == [prints EXCEPT ![t] = @ \cup PrintsOf(kept[slot])]
  <2>1. ~Drifts(seen) /\ pc' = "loop" /\ prints' = seen /\ study' = study /\ first' = None /\ second' = None
    BY <1>3 DEF After
  <2>2. slot \in Slot /\ slot \in Known(study) /\ study \in Studies /\ Remembers /\ t \in Transports
    BY <1>1, StudyAssumption DEF StudyInv, Working, AtSlot, Known, Of
  <2>3. PrintsOf(kept[slot]) \subseteq Prints
    BY <2>2 DEF StudyInv, Recorded, Printed, PrintsOf, Known
  <2>4. prints' \in [Transports -> SUBSET Prints] /\ \A x \in Transports : prints[x] \subseteq prints'[x]
    BY <2>1, <2>2, <2>3 DEF Remembers
  <2>5. \A u \in Known(study) : PrintsOf(kept[u]) \subseteq prints'[Transport[u]]
    <3> SUFFICES ASSUME NEW u \in Known(study) PROVE PrintsOf(kept[u]) \subseteq prints'[Transport[u]]
      OBVIOUS
    <3>1. Transport[u] \in Transports
      BY StudyAssumption DEF Known, Of
    <3>2. CASE u = slot
      BY <2>1, <2>2, <3>2 DEF Remembers
    <3>3. CASE u # slot
      BY <2>2, <2>4, <3>1, <3>3 DEF Remembers
    <3> QED
      BY <3>2, <3>3
  <2>6. Remembers'
    BY <1>1, <2>1, <2>2, <2>4, <2>5 DEF Remembers, Known, Of, PrintsOf, Calls, Drifts
  <2>7. Working'
    BY <2>1, <2>2, <2>6 DEF Working
  <2>8. Recorded'
    BY <1>1, <2>1 DEF StudyInv, Recorded, Printed, Calls
  <2>9. Sourced'
    BY <1>1, <2>1, SourceSame DEF StudyInv
  <2> QED
    BY <2>7, <2>8, <2>9 DEF StudyInv
<1> QED
  BY <1>2, <1>3

LEMMA IdleSteps ==
    ASSUME StudyInv,
           \/ Ends \/ WriteFails \/ Crash \/ Summarize
           \/ \E st \in Studies, l \in Locks : Commit(st, l)
           \/ UNCHANGED vars
    PROVE  StudyInv'
<1>1. CASE Ends \/ WriteFails \/ Crash
  BY <1>1, ExitKeeps DEF Ends, WriteFails, Crash, disk
<1>2. CASE Summarize
  <2>1. pc = "idle" /\ pc' = "idle" /\ summary = None /\ UNCHANGED <<dir, kept, first, second>>
    BY <1>2 DEF Summarize, slotvars
  <2>2. Known("sensitivity")' = {}
    BY <2>1 DEF StudyInv, Sourced, SourceGood, Known, Of
  <2> QED
    BY <2>1, <2>2 DEF StudyInv, Recorded, Working, Sourced, Printed, Calls
<1>3. CASE \E st \in Studies, l \in Locks : Commit(st, l)
  <2>1. pc = "idle" /\ pc' = "idle" /\ UNCHANGED <<dir, kept, summary, first, second>>
    BY <1>3 DEF Commit, disk, slotvars
  <2>2. Recorded' /\ Working'
    BY <2>1 DEF StudyInv, Recorded, Working, Printed, Calls
  <2>3. Sourced'
    BY <2>1, SourceSame DEF StudyInv
  <2> QED
    BY <2>2, <2>3 DEF StudyInv
<1>4. CASE UNCHANGED vars
  BY <1>4 DEF vars, config, disk, slotvars, memory, StudyInv, Recorded, Working, Sourced, Remembers, AtSlot,
              SourceGood, Printed, Calls, PrintsOf, Drifts, Known, Of, StrictSlots, Cut
<1> QED
  BY <1>1, <1>2, <1>3, <1>4

LEMMA StudySteps == StudyInv /\ [Next]_vars => StudyInv'
BY StartSteps, BeginStep, SlotSteps, CreateStep, KeepStep, AfterStep, IdleSteps DEF Next

-----------------------------------------------------------------------------
\* What the second study keeps rests on attempts of the first that are complete,
\* of one configuration, and cut where the summary it names says, whatever is
\* run, committed or killed afterwards (verify_source_observations).
THEOREM SourceNeverMoves == Spec => []SourceStays
<1>1. StudyInv => SourceStays
  BY DEF StudyInv, Sourced, SourceGood, SourceStays
<1> QED
  BY StudyBegins, StudySteps, <1>1, PTL DEF Spec

\* However often a runner died or was started for a single slot: none begins a
\* slot when two calls on disk tell different prints of one transport, or an
\* attempt is of another configuration (the checks at the start of the runners
\* and after each attempt).
THEOREM DriftAlwaysStops == Spec => DriftStops
<1> DEFINE Begins == \A st \in Studies : (\E s \in Of(st) : dir[s] = "absent" /\ dir'[s] = "open") =>
       /\ \A s \in Known(st) : kept[s].lock = lock[st]
       /\ \A s, u \in Known(st) : \A c \in Calls(kept[s]), d \in Calls(kept[u]) :
             Transport[s] = Transport[u] => None \in {c.print, d.print} \/ c.print = d.print
<1>1. ASSUME StudyInv, [Next]_vars PROVE [Begins]_vars
  <2> SUFFICES ASSUME NEW st \in Studies, NEW s \in Of(st), dir[s] = "absent", dir'[s] = "open", Next
               PROVE  /\ \A x \in Known(st) : kept[x].lock = lock[st]
                      /\ \A x, u \in Known(st) : \A c \in Calls(kept[x]), d \in Calls(kept[u]) :
                            Transport[x] = Transport[u] => None \in {c.print, d.print} \/ c.print = d.print
    BY <1>1
  <2>1. dir' # dir
    OBVIOUS
  <2>2. s \in Slot /\ dir \in [Slot -> {"absent", "open", "torn", "kept"}]
    BY <1>1 DEF Of, StudyInv, Recorded
  <2>3. ~Create /\ ~Keep
    BY <2>2 DEF Create, Keep
  <2>4. PICK b \in Slot : Begin(b)
    BY <2>1, <2>3 DEF Next, Start, Exits, Ends, Send, SendRepair, Sends, Receive, After, WriteFails, Crash, Summarize,
                      Commit, disk
  <2>5. b = s /\ pc = "loop" /\ Study[s] = study /\ study = st
    BY <2>2, <2>4 DEF Begin, Due, Selected, Of
  <2>6. \A x \in Known(st) : kept[x].lock = lock[st]
    BY <1>1, <2>5 DEF StudyInv, Working, Remembers
  <2> QED
    BY <1>1, <2>5, <2>6, NoDriftOnDisk
<1> QED
  BY StudyBegins, StudySteps, <1>1, PTL DEF Spec, DriftStops

-----------------------------------------------------------------------------
(* The summary tells what was paid for.                                    *)

\* What the directories and the configurations hold.
FilesTyped ==
    /\ lock \in [Studies -> Locks] /\ source \in Summary \cup {None} /\ summary \in Summary \cup {None}
    /\ dir \in [Slot -> {"absent", "open", "torn", "kept"}]
    /\ kept \in [Slot -> Attempt \cup {None}]

\* What the process holds.
MemoryTyped ==
    /\ pc \in {"idle", "loop", "send", "sent", "keep", "write", "after"}
    /\ study \in Studies \cup {None} /\ slot \in Slot \cup {None}
    /\ first \in Call \cup {None} /\ second \in Call \cup {None}
    /\ single \in Slot \cup {None} /\ limit \in {None, 1}
    /\ prints \in [Transports -> SUBSET {"f1", "f2"}]
    /\ exit \in {None, "complete", "limited", "stopped", "raised"}

\* The calls an attempt tells of, and that only a failed one was repaired.
Tries(last) == IF last = None THEN 1 ELSE 2
Mended(attempt) == attempt.second # None => attempt.first.level \in 0..2

\* Nothing was sent for a slot that is absent, and what was sent for one that is
\* kept is what its attempt tells.
CallsTold ==
    /\ made \in [Slot -> 0..2]
    /\ \A s \in Slot : dir[s] = "absent" => made[s] = 0
    /\ \A s \in Slot : dir[s] = "kept" =>
          kept[s] \in Attempt /\ made[s] = Tries(kept[s].second) /\ Mended(kept[s])

\* The calls of the slot a runner is at.
CallsAtWork ==
    /\ pc \in {"idle", "loop"} => first = None /\ second = None
    /\ pc \in {"send", "sent"} => second = None /\ (first # None => first.level \in 0..2)
    /\ pc = "send" => made[slot] = IF first = None THEN 0 ELSE 1
    /\ pc = "sent" => made[slot] = IF first = None THEN 1 ELSE 2
    /\ pc \in {"keep", "write"} =>
          first # None /\ made[slot] = Tries(second) /\ (second # None => first.level \in 0..2)

\* A process counts no more slots than there are attempts.
Finished == {s \in Slot : dir[s] = "kept"}
Counts ==
    /\ streak \in Nat /\ done \in Nat /\ streak <= done
    /\ pc = "idle" => done = 0
    /\ done + (IF pc = "after" THEN 1 ELSE 0) <= Cardinality(Finished)

\* The process that ended well left nothing of its study to do.
EndedWell ==
    /\ pc # "idle" => exit = None
    /\ exit = "complete" => \E st \in Studies : \A s \in Of(st) : dir[s] = "kept"

SumInv == FilesTyped /\ MemoryTyped /\ CallsTold /\ CallsAtWork /\ Counts /\ EndedWell

-----------------------------------------------------------------------------
\* A matrix has as many slots as its order names.
LEMMA SlotsCounted == IsFiniteSet(Slot) /\ Cardinality(Slot) = Len(Order) /\ Len(Order) \in Nat
<1>1. Order \in Seq(Slot) /\ \A i, j \in DOMAIN Order : Order[i] = Order[j] => i = j
  BY StudyAssumption DEF IsInjective
<1>2. Len(Order) \in Nat /\ DOMAIN Order = 1..Len(Order) /\ Order \in [1..Len(Order) -> Slot]
  BY <1>1
<1>3. \A s \in Slot : \E i \in 1..Len(Order) : Order[i] = s
  BY <1>2 DEF Slot, ToSet
<1>4. Order \in Bijection(1..Len(Order), Slot)
  BY <1>1, <1>2, <1>3 DEF Bijection, Injection, Surjection, IsInjective
<1>5. ExistsBijection(1..Len(Order), Slot)
  BY <1>4 DEF ExistsBijection
<1> QED
  BY <1>2, <1>5, FS_CountingElements, FS_NatBijection

\* The first slot of a selection, in the order of the digests.
LEMMA FirstOf ==
    ASSUME NEW S, S \subseteq Slot, S # {}
    PROVE  \E s \in S : \A i \in DOMAIN Order : \E j \in DOMAIN Order : Order[j] = s /\ (i < j => Order[i] \notin S)
<1> DEFINE Places == {i \in DOMAIN Order : Order[i] \in S}
<1>1. Order \in Seq(Slot)
  BY StudyAssumption
<1>2. Places \subseteq Nat /\ Places # {}
  <2>1. DOMAIN Order \subseteq Nat
    BY <1>1
  <2>2. \A s \in Slot : \E i \in DOMAIN Order : Order[i] = s
    BY DEF Slot, ToSet
  <2> QED
    BY <2>1, <2>2
<1>3. PICK j \in Places : \A i \in Places : ~(<<i, j>> \in OpToRel(<, Nat))
  BY <1>2, NatLessThanWellFounded, WFMin
<1>4. \A i \in Places : ~(i < j)
  BY <1>2, <1>3 DEF OpToRel
<1> QED
  BY <1>4

-----------------------------------------------------------------------------
LEMMA AnswerTyped ==
    ASSUME NEW s \in Slot, NEW reply \in Reply, Assessed(reply, s).level # Raises
    PROVE  Assessed(reply, s) \in Call
<1>1. CASE reply.status = "ok" /\ reply.message # None
  <2> DEFINE level == Level(reply.message, s)  length == Length(reply.message)
  <2>1. Assessed(reply, s) = [level |-> level, status |-> "ok", print |-> reply.print, length |-> length]
    BY <1>1 DEF Assessed
  <2>2. level \in 0..4
    <3>1. JsonLevel(reply.message, Variant[s]) \in 0..4
      BY DEF JsonLevel, Raises
    <3>2. StrictLevel(reply.message, Variant[s]) \in 0..4
      BY DEF StrictLevel
    <3> QED
      BY <3>1, <3>2 DEF Level
  <2>3. length \in {"no", "cut", "odd"}
    BY DEF Length
  <2>4. reply.print \in {None, "f1", "f2"}
    BY DEF Reply
  <2> HIDE DEF level, length
  <2>5. level # 4
    BY <2>1 DEF Raises
  <2>6. level \in -1..3
    BY <2>2, <2>5
  <2> QED
    BY <2>1, <2>3, <2>4, <2>6 DEF Call, Statuses
<1>2. CASE ~(reply.status = "ok" /\ reply.message # None)
  BY <1>2 DEF Assessed, Call, Statuses, Reply
<1> QED
  BY <1>1, <1>2

LEMMA SumBegins == Init => SumInv
<1> SUFFICES ASSUME Init PROVE SumInv
  OBVIOUS
<1>1. FilesTyped /\ MemoryTyped
  BY DEF Init, FilesTyped, MemoryTyped
<1>2. CallsTold /\ CallsAtWork /\ EndedWell
  BY StudyAssumption DEF Init, CallsTold, CallsAtWork, EndedWell
<1>3. Counts
  <2>1. Finished = {} /\ Cardinality({}) = 0
    BY FS_EmptySet DEF Init, Finished
  <2> QED
    BY <2>1 DEF Init, Counts
<1> QED
  BY <1>1, <1>2, <1>3 DEF SumInv

\* A process that ends leaves the attempts there are.
LEMMA ExitTells ==
    ASSUME SumInv, NEW how \in {"complete", "limited", "stopped", "raised"}, Exits(how),
           UNCHANGED <<config, disk, made>>,
           how = "complete" => \E st \in Studies : \A s \in Of(st) : dir[s] = "kept"
    PROVE  SumInv'
<1>1. FilesTyped' /\ MemoryTyped'
  BY DEF SumInv, FilesTyped, MemoryTyped, Exits, config, disk
<1>2. CallsTold' /\ CallsAtWork'
  BY DEF SumInv, CallsTold, CallsAtWork, Exits, disk
<1>3. Counts'
  <2>1. Finished' = Finished
    BY DEF Finished, disk
  <2>2. Cardinality(Finished) \in Nat
    <3>1. IsFiniteSet(Finished)
      BY SlotsCounted, FS_Subset DEF Finished
    <3> QED
      BY <3>1, FS_CardinalityType
  <2> QED
    BY <2>1, <2>2 DEF Exits, Counts
<1>4. EndedWell'
  BY StudyAssumption DEF EndedWell, Exits, disk, Of
<1> QED
  BY <1>1, <1>2, <1>3, <1>4 DEF SumInv

LEMMA StartTells ==
    ASSUME StudyInv, SumInv, NEW st \in Studies, NEW s \in Slot \cup {None}, NEW n \in {None, 1}, Start(st, s, n)
    PROVE  SumInv'
<1>1. CASE Exits("raised") \/ Exits("stopped")
  BY <1>1, ExitTells DEF Start
<1>2. CASE ~(Exits("raised") \/ Exits("stopped"))
  <2>1. /\ pc = "idle" /\ pc' = "loop" /\ study' = st /\ single' = s /\ limit' = n
        /\ prints' = PrintsOnDisk(st) /\ streak' = 0 /\ done' = 0 /\ exit' = None
        /\ UNCHANGED <<config, disk, made, slotvars>>
    BY <1>2 DEF Start
  <2>2. prints' \in [Transports -> SUBSET Prints]
    <3>1. \A u \in Known(st) : PrintsOf(kept[u]) \subseteq Prints
      BY DEF StudyInv, Recorded, Printed, PrintsOf, Known, Of
    <3> QED
      BY <2>1, <3>1 DEF PrintsOnDisk
  <2>3. FilesTyped' /\ MemoryTyped'
    BY <2>1, <2>2 DEF SumInv, FilesTyped, MemoryTyped, config, disk, slotvars, Prints
  <2>4. CallsTold' /\ CallsAtWork'
    BY <2>1 DEF SumInv, CallsTold, CallsAtWork, disk, slotvars
  <2>5. Counts'
    BY <2>1 DEF SumInv, Counts, Finished, disk
  <2>6. EndedWell'
    BY <2>1, StudyAssumption DEF EndedWell
  <2> QED
    BY <2>3, <2>4, <2>5, <2>6 DEF SumInv
<1> QED
  BY <1>1, <1>2

LEMMA BeginTells ==
    ASSUME StudyInv, SumInv, NEW s \in Slot, Begin(s)
    PROVE  SumInv'
<1>1. CASE dir[s] # "absent"
  BY <1>1, ExitTells DEF Begin, disk
<1>2. CASE dir[s] = "absent"
  <2>1. /\ pc = "loop" /\ dir' = [dir EXCEPT ![s] = "open"] /\ pc' = "send" /\ slot' = s
        /\ UNCHANGED <<first, second, memory, exit, config, kept, summary, made>>
    BY <1>2 DEF Begin
  <2>2. /\ dir' \in [Slot -> {"absent", "open", "torn", "kept"}]
        /\ \A u \in Slot : dir'[u] = "kept" <=> dir[u] = "kept"
        /\ \A u \in Slot : dir'[u] = "absent" => dir[u] = "absent"
    BY <1>2, <2>1 DEF SumInv, FilesTyped
  <2>3. FilesTyped' /\ MemoryTyped'
    BY <2>1, <2>2 DEF SumInv, FilesTyped, MemoryTyped, config, memory
  <2>4. CallsTold'
    BY <2>1, <2>2 DEF SumInv, CallsTold
  <2>5. CallsAtWork'
    <3>1. made[s] = 0 /\ first = None /\ second = None
      BY <1>2, <2>1 DEF SumInv, CallsTold, CallsAtWork
    <3> QED
      BY <2>1, <3>1 DEF CallsAtWork
  <2>6. Counts'
    <3>1. Finished' = Finished
      BY <2>2 DEF Finished
    <3> QED
      BY <2>1, <3>1 DEF SumInv, Counts, memory
  <2>7. EndedWell'
    BY <2>1, StudyAssumption DEF SumInv, EndedWell
  <2> QED
    BY <2>3, <2>4, <2>5, <2>6, <2>7 DEF SumInv
<1> QED
  BY <1>1, <1>2

\* A runner that finds nothing due has every slot of its selection.
LEMMA NothingDue ==
    ASSUME StudyInv, single = None, \A s \in Slot : ~Due(s)
    PROVE  \A s \in Of(study) : dir[s] = "kept"
<1> DEFINE Left == {s \in Of(study) : dir[s] # "kept"}
<1>1. SUFFICES ASSUME Left # {} PROVE FALSE
  OBVIOUS
<1>2. Left \subseteq Slot
  BY DEF Of
<1> HIDE DEF Left
<1>3. PICK s \in Left : \A i \in DOMAIN Order : \E j \in DOMAIN Order : Order[j] = s /\ (i < j => Order[i] \notin Left)
  BY <1>1, <1>2, FirstOf
<1>4. \A i \in DOMAIN Order : Order[i] \in Slot
  BY DEF Slot, ToSet
<1>5. Due(s)
  BY <1>3, <1>4 DEF Due, Selected, Left, Of
<1> QED
  BY <1>2, <1>3, <1>5

LEMMA EndTells ==
    ASSUME StudyInv, SumInv, Ends
    PROVE  SumInv'
<1>1. PICK how \in {"complete", "limited", "stopped"} :
         /\ Exits(how)
         /\ how = "complete" => single = None /\ limit = None
  BY DEF Ends
<1>2. study \in Studies
  BY DEF StudyInv, Working, Ends
<1>3. how = "complete" => \A s \in Of(study) : dir[s] = "kept"
  BY <1>1, NothingDue DEF Ends, LimitReached
<1> QED
  BY <1>1, <1>2, <1>3, ExitTells DEF Ends

LEMMA SendTells ==
    ASSUME StudyInv, SumInv, Send \/ SendRepair
    PROVE  SumInv'
<1>1. /\ pc = "send" /\ made' = [made EXCEPT ![slot] = @ + 1] /\ pc' = "sent"
      /\ UNCHANGED <<config, disk, slotvars, memory, exit>>
  BY DEF Send, SendRepair, Sends
<1>2. slot \in Slot /\ dir[slot] = "open"
  BY <1>1 DEF StudyInv, Working, AtSlot, Of
<1>3. second = None /\ made[slot] = IF first = None THEN 0 ELSE 1
  BY <1>1 DEF SumInv, CallsAtWork
<1>4. /\ made' \in [Slot -> 0..2] /\ made'[slot] = IF first = None THEN 1 ELSE 2
      /\ \A s \in Slot \ {slot} : made'[s] = made[s]
  BY <1>1, <1>2, <1>3 DEF SumInv, CallsTold
<1>5. FilesTyped' /\ MemoryTyped'
  BY <1>1 DEF SumInv, FilesTyped, MemoryTyped, config, disk, slotvars, memory
<1>6. CallsTold'
  BY <1>1, <1>2, <1>4 DEF SumInv, CallsTold, disk
<1>7. CallsAtWork'
  BY <1>1, <1>3, <1>4 DEF SumInv, CallsAtWork, slotvars
<1>8. Counts'
  BY <1>1 DEF SumInv, Counts, Finished, memory, disk
<1>9. EndedWell'
  BY <1>1, StudyAssumption DEF SumInv, EndedWell
<1> QED
  BY <1>5, <1>6, <1>7, <1>8, <1>9 DEF SumInv

LEMMA ReceiveTells ==
    ASSUME StudyInv, SumInv, NEW reply, Receive(reply)
    PROVE  SumInv'
<1> DEFINE call == Assessed(reply, slot)
<1>1. pc = "sent" /\ reply \in Replies[slot] /\ UNCHANGED <<config, disk, made>>
  BY DEF Receive
<1>2. slot \in Slot /\ reply \in Reply
  BY <1>1, StudyAssumption DEF StudyInv, Working, AtSlot, Of
<1>3. CASE call.level = Raises
  BY <1>1, <1>3, ExitTells DEF Receive
<1>4. CASE call.level # Raises
  <2>1. call \in Call /\ call # None
    BY <1>2, <1>4, AnswerTyped, StudyAssumption
  <2>2. /\ UNCHANGED <<slot, memory, exit>>
        /\ IF first = None
           THEN first' = call /\ UNCHANGED second /\ pc' = IF Repairable(call) THEN "send" ELSE "keep"
           ELSE second' = call /\ UNCHANGED first /\ pc' = "keep"
    BY <1>4 DEF Receive
  <2>3. /\ second = None /\ first # None => first.level \in 0..2
        /\ second = None
        /\ made[slot] = IF first = None THEN 1 ELSE 2
    BY <1>1 DEF SumInv, CallsAtWork
  <2>4. Repairable(call) => call.level \in 0..2
    BY DEF Repairable
  <2> HIDE DEF call
  <2>5. FilesTyped' /\ MemoryTyped'
    <3>1. FilesTyped'
      BY <1>1 DEF SumInv, FilesTyped, config, disk
    <3>2. pc' \in {"send", "keep"} /\ first' \in Call \cup {None} /\ second' \in Call \cup {None}
      BY <2>1, <2>2 DEF SumInv, MemoryTyped
    <3> QED
      BY <2>2, <3>1, <3>2 DEF SumInv, MemoryTyped, memory
  <2>6. CallsTold'
    BY <1>1 DEF SumInv, CallsTold, disk
  <2>7. CallsAtWork'
    BY <1>1, <2>1, <2>2, <2>3, <2>4 DEF SumInv, CallsAtWork, Tries
  <2>8. Counts'
    BY <1>1, <2>2 DEF SumInv, Counts, Finished, memory, disk
  <2>9. EndedWell'
    BY <1>1, <2>2, StudyAssumption DEF SumInv, EndedWell
  <2> QED
    BY <2>5, <2>6, <2>7, <2>8, <2>9 DEF SumInv
<1> QED
  BY <1>3, <1>4

LEMMA CreateTells ==
    ASSUME StudyInv, SumInv, Create
    PROVE  SumInv'
<1>1. /\ pc = "keep" /\ dir' = [dir EXCEPT ![slot] = "torn"] /\ pc' = "write"
      /\ UNCHANGED <<config, kept, summary, made, slotvars, memory, exit>>
  BY DEF Create
<1>2. slot \in Slot /\ dir[slot] = "open"
  BY <1>1 DEF StudyInv, Working, AtSlot, Of
<1>3. /\ dir' \in [Slot -> {"absent", "open", "torn", "kept"}]
      /\ \A u \in Slot : dir'[u] = "kept" <=> dir[u] = "kept"
      /\ \A u \in Slot : dir'[u] = "absent" => dir[u] = "absent"
  BY <1>1, <1>2 DEF SumInv, FilesTyped
<1>4. FilesTyped' /\ MemoryTyped'
  BY <1>1, <1>3 DEF SumInv, FilesTyped, MemoryTyped, config, memory, slotvars
<1>5. CallsTold'
  BY <1>1, <1>3 DEF SumInv, CallsTold
<1>6. CallsAtWork'
  BY <1>1 DEF SumInv, CallsAtWork, slotvars, Tries
<1>7. Counts'
  <2>1. Finished' = Finished
    BY <1>3 DEF Finished
  <2> QED
    BY <1>1, <2>1 DEF SumInv, Counts, memory
<1>8. EndedWell'
  BY <1>1, StudyAssumption DEF SumInv, EndedWell
<1> QED
  BY <1>4, <1>5, <1>6, <1>7, <1>8 DEF SumInv

LEMMA KeepTells ==
    ASSUME StudyInv, SumInv, Keep
    PROVE  SumInv'
<1> DEFINE attempt == [lock |-> lock[study], first |-> first, second |-> second]
<1>1. /\ pc = "write" /\ pc' = "after"
      /\ dir' = [dir EXCEPT ![slot] = "kept"] /\ kept' = [kept EXCEPT ![slot] = attempt]
      /\ UNCHANGED <<config, summary, made, slotvars, memory, exit>>
  BY DEF Keep
<1>2. slot \in Slot /\ dir[slot] = "torn" /\ study \in Studies
  BY <1>1 DEF StudyInv, Working, AtSlot, Of
<1>3. first # None /\ made[slot] = Tries(second) /\ (second # None => first.level \in 0..2)
  BY <1>1 DEF SumInv, CallsAtWork
<1>4. attempt \in Attempt
  BY <1>2, <1>3 DEF SumInv, FilesTyped, MemoryTyped, Attempt
<1>5. attempt.first = first /\ attempt.second = second
  OBVIOUS
<1> HIDE DEF attempt
<1>6. /\ dir' \in [Slot -> {"absent", "open", "torn", "kept"}]
      /\ kept' \in [Slot -> Attempt \cup {None}]
      /\ dir'[slot] = "kept" /\ kept'[slot] = attempt
      /\ \A u \in Slot \ {slot} : dir'[u] = dir[u] /\ kept'[u] = kept[u]
  BY <1>1, <1>2, <1>4 DEF SumInv, FilesTyped
<1>7. FilesTyped' /\ MemoryTyped'
  BY <1>1, <1>6 DEF SumInv, FilesTyped, MemoryTyped, config, slotvars, memory
<1>8. CallsTold'
  BY <1>1, <1>3, <1>4, <1>5, <1>6 DEF SumInv, CallsTold, Mended
<1>9. CallsAtWork'
  BY <1>1 DEF CallsAtWork
<1>10. Counts'
  <2>1. Finished' = Finished \cup {slot} /\ slot \notin Finished
    BY <1>2, <1>6 DEF Finished
  <2>2. IsFiniteSet(Finished)
    BY SlotsCounted, FS_Subset DEF Finished
  <2>3. Cardinality(Finished') = Cardinality(Finished) + 1 /\ Cardinality(Finished) \in Nat
    BY <2>1, <2>2, FS_AddElement, FS_CardinalityType
  <2> QED
    BY <1>1, <2>3 DEF SumInv, Counts, memory
<1>11. EndedWell'
  BY <1>1, StudyAssumption DEF SumInv, EndedWell
<1> QED
  BY <1>7, <1>8, <1>9, <1>10, <1>11 DEF SumInv

LEMMA AfterTells ==
    ASSUME StudyInv, SumInv, After
    PROVE  SumInv'
<1>1. pc = "after" /\ UNCHANGED <<config, disk, made>>
  BY DEF After
<1>2. CASE Exits("stopped")
  BY <1>1, <1>2, ExitTells
<1>3. CASE ~Exits("stopped")
  <2>1. /\ pc' = "loop" /\ slot' = None /\ first' = None /\ second' = None
        /\ streak' \in {0, streak + 1} /\ done' = done + 1
        /\ UNCHANGED <<study, single, limit, exit>>
    BY <1>3 DEF After
  <2>2. prints' \in [Transports -> SUBSET Prints]
    <3>1. StudyInv' /\ pc' # "idle"
      BY <2>1, AfterStep
    <3> QED
      BY <3>1 DEF StudyInv, Working, Remembers
  <2>3. FilesTyped' /\ MemoryTyped'
    BY <1>1, <2>1, <2>2 DEF SumInv, FilesTyped, MemoryTyped, config, disk, Prints
  <2>4. CallsTold' /\ CallsAtWork'
    BY <1>1, <2>1 DEF SumInv, CallsTold, CallsAtWork, disk
  <2>5. Counts'
    <3>1. Finished' = Finished
      BY <1>1 DEF Finished, disk
    <3> QED
      BY <1>1, <2>1, <3>1 DEF SumInv, Counts
  <2>6. EndedWell'
    BY <1>1, <2>1, StudyAssumption DEF SumInv, EndedWell
  <2> QED
    BY <2>3, <2>4, <2>5, <2>6 DEF SumInv
<1> QED
  BY <1>2, <1>3

\* What is done between two runs, and what kills one.
LEMMA OthersTell ==
    ASSUME StudyInv, SumInv,
           \/ WriteFails \/ Crash \/ Summarize
           \/ \E st \in Studies, l \in Locks : Commit(st, l)
           \/ UNCHANGED vars
    PROVE  SumInv'
<1>1. CASE WriteFails \/ Crash
  BY <1>1, ExitTells DEF WriteFails, Crash
<1>2. CASE Summarize
  <2>1. /\ summary' = [lock |-> lock["reliability"], kept |-> [s \in Of("reliability") |-> kept[s]]]
        /\ UNCHANGED <<config, dir, kept, made, pc, slotvars, memory, exit>>
    BY <1>2 DEF Summarize
  <2>2. summary' \in Summary
    BY <2>1 DEF SumInv, FilesTyped, Summary, Studies, Of
  <2>3. FilesTyped' /\ MemoryTyped'
    BY <2>1, <2>2 DEF SumInv, FilesTyped, MemoryTyped, config, slotvars, memory
  <2>4. CallsTold' /\ CallsAtWork'
    BY <2>1 DEF SumInv, CallsTold, CallsAtWork, slotvars
  <2>5. Counts' /\ EndedWell'
    BY <2>1 DEF SumInv, Counts, Finished, EndedWell, memory, Of
  <2> QED
    BY <2>3, <2>4, <2>5 DEF SumInv
<1>3. ASSUME NEW st \in Studies, NEW l \in Locks, Commit(st, l)
      PROVE  SumInv'
  <2>1. /\ lock' = [lock EXCEPT ![st] = l] /\ source' \in {source, summary}
        /\ UNCHANGED <<disk, made, pc, slotvars, memory, exit>>
    BY <1>3 DEF Commit
  <2>2. FilesTyped' /\ MemoryTyped'
    BY <2>1 DEF SumInv, FilesTyped, MemoryTyped, disk, slotvars, memory
  <2>3. CallsTold' /\ CallsAtWork'
    BY <2>1 DEF SumInv, CallsTold, CallsAtWork, slotvars, disk
  <2>4. Counts' /\ EndedWell'
    BY <2>1 DEF SumInv, Counts, Finished, EndedWell, memory, disk, Of
  <2> QED
    BY <2>2, <2>3, <2>4 DEF SumInv
<1>4. CASE UNCHANGED vars
  <2>1. UNCHANGED <<config, disk, made, pc, slotvars, memory, exit>>
    BY <1>4 DEF vars
  <2>2. FilesTyped' /\ MemoryTyped'
    BY <2>1 DEF SumInv, FilesTyped, MemoryTyped, config, disk, slotvars, memory
  <2>3. CallsTold' /\ CallsAtWork'
    BY <2>1 DEF SumInv, CallsTold, CallsAtWork, slotvars, disk
  <2>4. Counts' /\ EndedWell'
    BY <2>1 DEF SumInv, Counts, Finished, EndedWell, memory, disk, Of
  <2> QED
    BY <2>2, <2>3, <2>4 DEF SumInv
<1> QED
  BY <1>1, <1>2, <1>3, <1>4

LEMMA SumSteps == StudyInv /\ SumInv /\ [Next]_vars => SumInv'
<1> SUFFICES ASSUME StudyInv, SumInv, [Next]_vars PROVE SumInv'
  OBVIOUS
<1>1. ASSUME NEW st \in Studies, NEW s \in Slot \cup {None}, NEW n \in {None, 1}, Start(st, s, n) PROVE SumInv'
  BY <1>1, StartTells
<1>2. ASSUME NEW s \in Slot, Begin(s) PROVE SumInv'
  BY <1>2, BeginTells
<1>3. ASSUME NEW reply, Receive(reply) PROVE SumInv'
  BY <1>3, ReceiveTells
<1> QED
  BY <1>1, <1>2, <1>3, EndTells, SendTells, CreateTells, KeepTells, AfterTells, OthersTell DEF Next

-----------------------------------------------------------------------------
LEMMA SumsUp ==
    ASSUME SumInv, NEW st \in Studies, Summarizes(st)
    PROVE  /\ Cardinality(Rows(st)) + Repairs(st) = MapThenSumSet(LAMBDA s : made[s], Rows(st))
           /\ \A t \in Transports : Valid(st, t, FALSE) \subseteq Valid(st, t, TRUE)
<1> DEFINE Mends == {s \in Rows(st) : kept[s].second # None}
<1>1. Rows(st) \subseteq Slot /\ IsFiniteSet(Rows(st)) /\ Mends \subseteq Rows(st)
  BY SlotsCounted, FS_Subset DEF Rows, Of
<1>2. \A s \in Rows(st) : kept[s] \in Attempt /\ made[s] = Tries(kept[s].second) /\ Mended(kept[s])
  BY <1>1 DEF SumInv, CallsTold, Summarizes
<1>3. \A s \in Rows(st) : made[s] = IF s \in Mends THEN 2 ELSE 1
  BY <1>2 DEF Tries
<1>4. Repairs(st) = Cardinality(Mends)
  BY DEF Repairs
<1>5. SumOf(made, Rows(st)) = Cardinality(Rows(st)) + Cardinality(Mends)
  <2> HIDE DEF Mends
  <2> QED
    BY <1>1, <1>3, SumOnesAndTwos
<1>6. ASSUME NEW t \in Transports, NEW s \in Valid(st, t, FALSE)
      PROVE  s \in Valid(st, t, TRUE)
  <2>1. s \in Rows(st) /\ Transport[s] = t /\ kept[s].first.level = 3
    BY <1>6 DEF Valid, Effective
  <2>2. kept[s].second = None
    BY <1>2, <2>1 DEF Mended
  <2> QED
    BY <2>1, <2>2 DEF Valid, Effective
<1> QED
  BY <1>4, <1>5, <1>6 DEF SumOf

LEMMA SumHolds == StudyInv /\ SumInv => SummaryTrue
<1> SUFFICES ASSUME StudyInv, SumInv PROVE SummaryTrue
  OBVIOUS
<1>1. streak \in 0..Len(Order) /\ done \in 0..Len(Order)
  <2>1. IsFiniteSet(Slot) /\ Cardinality(Slot) = Len(Order) /\ Len(Order) \in Nat
    BY SlotsCounted
  <2>2. Cardinality(Finished) <= Cardinality(Slot) /\ Cardinality(Finished) \in Nat
    <3>1. Finished \subseteq Slot
      BY DEF Finished
    <3> QED
      BY <2>1, <3>1, FS_Subset, FS_CardinalityType
  <2>3. streak \in Nat /\ done \in Nat /\ streak <= done
        /\ done + (IF pc = "after" THEN 1 ELSE 0) <= Cardinality(Finished)
    BY DEF SumInv, Counts
  <2> QED
    BY ONLY <2>1, <2>2, <2>3
<1>2. TypeOK
  BY <1>1 DEF SumInv, FilesTyped, MemoryTyped, CallsTold, TypeOK
<1>3. exit = "complete" => \E st \in Studies : Rows(st) = Of(st)
  BY DEF SumInv, EndedWell, Rows, Shown
<1>4. \A s \in Of("reliability") : Shown(s) = "missing" => made[s] = 0
  <2> SUFFICES ASSUME NEW s \in Of("reliability"), Shown(s) = "missing" PROVE made[s] = 0
    OBVIOUS
  <2>1. s \in Slot /\ dir[s] = "absent"
    BY DEF Shown, Of
  <2> QED
    BY <2>1 DEF SumInv, CallsTold
<1> QED
  BY <1>2, <1>3, <1>4, SumsUp DEF SummaryTrue

\* Whatever processes died or stopped: a missing slot was never sent, a summary
\* counts the calls that left for the slots it shows as complete, a run that
\* ended well left nothing to do, and a repair loses no valid answer.
THEOREM SummariesAreTrue == Spec => []SummaryTrue
<1>1. StudyInv /\ SumInv /\ [Next]_vars => SumInv'
  BY SumSteps
<1> QED
  BY <1>1, StudyBegins, StudySteps, SumBegins, SumHolds, PTL DEF Spec
=============================================================================
