------------------------- MODULE ScanPipelineProofs -------------------------
(***************************************************************************)
(* Proofs about ScanPipeline for every number of scanners, instruments,    *)
(* strategies and bars.                                                    *)
(***************************************************************************)
EXTENDS ScanPipeline, FiniteSetTheorems, TLAPS

\* A place in the registry that the loop of _run_strategies may stand at.
InLoop == {"audit", "dedup", "count", "gate"}

\* What TypeOK needs to be inductive: the strategy whose state a failing gate
\* may change exists, and the signals table is finite, so that it can be counted.
LoopOK ==
    /\ \A p \in Scanners : pc[p] \in InLoop => sc[p].strat \in DOMAIN Registry
    /\ \A p \in Scanners : sc[p].strat \in Nat \ {0}
    /\ \A p \in Scanners : IsFiniteSet(NewIds(p))
    /\ IsFiniteSet(DOMAIN signals)

TypeInv == TypeOK /\ LoopOK

LEMMA NoLocalsType == NoLocals \in LocalsType /\ NoLocals.strat = 1
  BY InstrumentsAssumption DEF NoLocals, Locals, LocalsType, Decision, NoSignal

LEMMA NoWritesType == NoWrites \in WritesType
  BY DEF NoWrites, WritesType

LEMMA TypeInit == Init => TypeInv
<1> SUFFICES ASSUME Init PROVE TypeInv
  OBVIOUS
<1>1. TypeOK
  <2>1. /\ clock \in Nat /\ runs \in Nat /\ lastId \in Nat
        /\ pc \in [Scanners -> Label]
        /\ lock \in Scanners \cup {NoOne}
        /\ audit \subseteq AuditRow /\ chat \subseteq Nat \X Nat
        /\ enabled \in [Strategies -> BOOLEAN]
        /\ DOMAIN signals = {}
    BY DEF Init, Label
  <2>2. txn \in [Scanners -> WritesType]
    BY NoWritesType DEF Init
  <2>3. sc = [p \in Scanners |-> NoLocals]
    BY DEF Init
  <2> QED BY <2>1, <2>2, <2>3, NoLocalsType DEF TypeOK
<1>2. LoopOK
  <2>1. \A p \in Scanners : sc[p].strat = 1 /\ pc[p] = "idle"
    BY NoLocalsType DEF Init
  <2>2. \A p \in Scanners : NewIds(p) = {}
    <3> SUFFICES ASSUME NEW p \in Scanners PROVE NewIds(p) = {}
      OBVIOUS
    <3>1. txn[p].insert = {}
      BY DEF Init, NoWrites
    <3> QED BY <3>1 DEF NewIds
  <2>3. DOMAIN signals = {}
    BY DEF Init
  <2>4. IsFiniteSet({})
    BY FS_EmptySet
  <2>5. /\ \A p \in Scanners : IsFiniteSet(NewIds(p))
        /\ IsFiniteSet(DOMAIN signals)
    BY <2>2, <2>3, <2>4
  <2>6. /\ \A p \in Scanners : pc[p] \in InLoop => sc[p].strat \in DOMAIN Registry
        /\ \A p \in Scanners : sc[p].strat \in Nat \ {0}
    BY <2>1 DEF InLoop
  <2> QED BY <2>5, <2>6 DEF LoopOK
<1> QED BY <1>1, <1>2 DEF TypeInv

-----------------------------------------------------------------------------
(***************************************************************************)
(* The audit chain.  The rows a transaction sees are well chained at every *)
(* moment, and only the holder of the lock has rows that are not committed.*)
(***************************************************************************)

\* A linked set of rows with ids up to n, and a last one if it is not empty.
WellChained(S, n) ==
    /\ Chain!Linked(S)
    /\ \A r \in S : r.id \in Nat /\ r.prev \in Nat /\ 0 < r.id /\ r.id <= n
    /\ S # {} => \E m \in S : \A r \in S : r.id <= m.id

ChainInv ==
    /\ lastId \in Nat
    /\ WellChained(audit, lastId)
    /\ \A p \in Scanners : WellChained(Visible(p), lastId)
    /\ \A p \in Scanners : \A a \in audit, r \in txn[p].rows : a.id < r.id
    /\ \A p \in Scanners : txn[p].rows # {} => lock = p

\* The four ways a step can touch the chain.
KeepsRows(p) == \A q \in Scanners \ {p} : txn'[q].rows = txn[q].rows

Quiet ==
    /\ UNCHANGED <<audit, lock, lastId>>
    /\ \A q \in Scanners : txn'[q].rows = txn[q].rows

Appends(p) ==
    /\ lock \in {NoOne, p} /\ lock' = p
    /\ lastId' = lastId + 1
    /\ audit' = audit
    /\ KeepsRows(p)
    /\ \E r : /\ r.id = lastId + 1 /\ r.prev = HeadId(Visible(p))
              /\ txn'[p].rows = txn[p].rows \cup {r}

Ends(p) ==
    /\ lastId' = lastId
    /\ lock' = IF lock = p THEN NoOne ELSE lock
    /\ KeepsRows(p)
    /\ txn'[p].rows = {}

Commits(p) == Ends(p) /\ audit' = audit \cup txn[p].rows
Drops(p) == Ends(p) /\ audit' = audit

\* The head of a well-chained set is its greatest id.
LEMMA HeadIsMax ==
    ASSUME NEW S, NEW n \in Nat, WellChained(S, n)
    PROVE  /\ HeadId(S) \in Nat /\ HeadId(S) <= n
           /\ \A r \in S : r.id <= HeadId(S)
           /\ HeadId(S) = 0 \/ \E r \in S : r.id = HeadId(S)
<1>1. CASE S = {}
  BY <1>1 DEF HeadId, Chain!Genesis
<1>2. CASE S # {}
  <2> DEFINE IsMax(r) == \A s \in S : s.id <= r.id
  <2>1. PICK m \in S : IsMax(m)
    BY <1>2 DEF WellChained
  <2>2. /\ (CHOOSE r \in S : IsMax(r)) \in S
        /\ IsMax(CHOOSE r \in S : IsMax(r))
    BY <2>1
  <2>3. HeadId(S) = (CHOOSE r \in S : IsMax(r)).id
    BY <1>2 DEF HeadId
  <2> HIDE DEF IsMax
  <2> DEFINE h == CHOOSE r \in S : IsMax(r)
  <2>4. h \in S /\ IsMax(h) /\ HeadId(S) = h.id
    BY <2>2, <2>3
  <2> HIDE DEF h
  <2> QED BY <2>4 DEF IsMax, WellChained
<1> QED BY <1>1, <1>2

\* AuditRepo.add: one more row, linked to the head, leaves the set well chained.
LEMMA AppendKeepsChain ==
    ASSUME NEW S, NEW n \in Nat, WellChained(S, n),
           NEW r, r.id = n + 1, r.prev = HeadId(S)
    PROVE  WellChained(S \cup {r}, n + 1)
<1>1. /\ HeadId(S) \in Nat /\ HeadId(S) <= n
      /\ \A s \in S : s.id <= HeadId(S)
      /\ HeadId(S) = 0 \/ \E s \in S : s.id = HeadId(S)
  BY HeadIsMax
<1>2. \A s \in S : s.id \in Nat /\ s.prev \in Nat /\ 0 < s.id /\ s.id <= n
  BY DEF WellChained
<1>3. Chain!Linked(S \cup {r})
  BY <1>1, <1>2 DEF WellChained, Chain!Linked, Chain!Genesis
<1> QED BY <1>1, <1>2, <1>3 DEF WellChained

LEMMA ChainBoundGrows ==
    ASSUME NEW S, NEW n \in Nat, WellChained(S, n)
    PROVE  WellChained(S, n + 1)
  BY DEF WellChained

LEMMA AuditAddAppends ==
    ASSUME TypeOK, NEW p \in Scanners, NEW writes \in WritesType,
           writes.rows = txn[p].rows, NEW stage, NEW ok, NEW sid,
           AuditAdd(p, writes, stage, ok, sid), UNCHANGED audit
    PROVE  Appends(p)
<1> DEFINE r == NextRow(p, stage, ok, sid)
<1>1. r.id = lastId + 1 /\ r.prev = HeadId(Visible(p))
  BY DEF NextRow
<1> HIDE DEF r
<1>2. txn' = [txn EXCEPT ![p] = [writes EXCEPT !.rows = @ \cup {r}]]
  BY DEF AuditAdd, r
<1>3. /\ txn'[p].rows = txn[p].rows \cup {r}
      /\ KeepsRows(p)
  BY <1>2 DEF TypeOK, KeepsRows, WritesType
<1> QED BY <1>1, <1>3 DEF Appends, AuditAdd

LEMMA EndTxnEnds ==
    ASSUME TypeOK, NEW p \in Scanners, EndTxn(p), UNCHANGED lastId
    PROVE  Ends(p)
  BY DEF TypeOK, EndTxn, Ends, KeepsRows, NoWrites

LEMMA InsertKeepsRows ==
    ASSUME TypeOK, NEW p \in Scanners, NEW status \in Status
    PROVE  Insert(p, status) \in WritesType /\ Insert(p, status).rows = txn[p].rows
<1>1. sc[p] \in LocalsType /\ txn[p] \in WritesType
  BY DEF TypeOK
<1>2. NewSignal(p, status) \in SignalRow /\ sc[p].run \in Nat
  <2>1. Day(sc[p].now) \in Nat
    BY <1>1, LimitsAssumption DEF Day, LocalsType
  <2> QED BY <1>1, <2>1 DEF NewSignal, SignalRow, LocalsType
<1> QED BY <1>1, <1>2 DEF Insert, WritesType

\* Every step touches the chain in one of the four ways.
LEMMA StepKinds ==
    ASSUME TypeInv, [Next]_vars
    PROVE  Quiet \/ \E p \in Scanners : Appends(p) \/ Commits(p) \/ Drops(p)
<1> USE DEF TypeInv
<1>1. ASSUME NEW p \in Scanners, NEW i \in Instruments, Begin(p, i) PROVE Quiet
  BY <1>1 DEF Begin, Quiet, dbVars
<1>2. ASSUME NEW p \in Scanners, EndWithoutSignal(p) PROVE Quiet
  BY <1>2 DEF EndWithoutSignal, Quiet, dbVars
<1>3. ASSUME NEW p \in Scanners, NEW bar \in 0 .. clock, LoadFrame(p, bar) PROVE Quiet
  BY <1>3 DEF LoadFrame, Quiet, dbVars
<1>4. ASSUME NEW p \in Scanners, NEW b \in BOOLEAN, ShadowAudit(p, b) PROVE Appends(p)
  BY <1>4, AuditAddAppends DEF ShadowAudit, TypeOK, dbVars
<1>5. ASSUME NEW p \in Scanners, SkipStrategy(p) PROVE Quiet
  BY <1>5 DEF SkipStrategy, Quiet, dbVars
<1>6. ASSUME NEW p \in Scanners, NEW b \in BOOLEAN, GenerateCandidate(p, b) PROVE Quiet
  BY <1>6 DEF GenerateCandidate, Quiet, dbVars
<1>7. ASSUME NEW p \in Scanners, AuditMisaligned(p) PROVE Appends(p)
  BY <1>7, AuditAddAppends DEF AuditMisaligned, TypeOK, dbVars
<1>8. ASSUME NEW p \in Scanners, AuditCandidate(p) PROVE Appends(p)
  BY <1>8, AuditAddAppends DEF AuditCandidate, TypeOK, dbVars
<1>9. ASSUME NEW p \in Scanners, NoCandidate(p) PROVE Quiet
  BY <1>9 DEF NoCandidate, Quiet, dbVars
<1>10. ASSUME NEW p \in Scanners, Dedup(p) PROVE Quiet
  BY <1>10 DEF Dedup, Quiet, dbVars
<1>11. ASSUME NEW p \in Scanners, CountSince(p) PROVE Quiet
  BY <1>11 DEF CountSince, Quiet, dbVars
<1>12. ASSUME NEW p \in Scanners, GatePass(p) PROVE Appends(p)
  BY <1>12, AuditAddAppends DEF GatePass, TypeOK, dbVars
<1>13. ASSUME NEW p \in Scanners, NEW b \in BOOLEAN, GateFail(p, b) PROVE Appends(p)
  <2> DEFINE d == IF sc[p].guardOk THEN {} ELSE {Registry[sc[p].strat]}
             w == [Insert(p, "REJECTED") EXCEPT !.disable = d]
  <2>1. d \in SUBSET Strategies
    BY <1>13 DEF GateFail, LoopOK, InLoop, Strategies
  <2>2. w \in WritesType /\ w.rows = txn[p].rows
    <3>1. /\ Insert(p, "REJECTED") \in WritesType
          /\ Insert(p, "REJECTED").rows = txn[p].rows
      BY InsertKeepsRows DEF Status, FinalStatus
    <3> HIDE DEF d
    <3> QED BY <2>1, <3>1 DEF WritesType
  <2>3. AuditAdd(p, w, "GATE", FALSE, sc[p].run) /\ UNCHANGED audit
    BY <1>13 DEF GateFail, dbVars
  <2> HIDE DEF w
  <2> QED BY <2>2, <2>3, AuditAddAppends
<1>14. ASSUME NEW p \in Scanners, NEW d \in Decision, LlmAccepts(p, d) PROVE Quiet
  BY <1>14 DEF LlmAccepts, Quiet, dbVars
<1>15. ASSUME NEW p \in Scanners, NEW d \in Decision, LlmRefuses(p, d) PROVE Quiet
  <2> DEFINE s == IF d = "REJECTED" THEN "REJECTED" ELSE "ABSTAINED"
  <2>1. Insert(p, s).rows = txn[p].rows
    BY InsertKeepsRows DEF Status, FinalStatus
  <2>2. /\ txn' = [txn EXCEPT ![p] = Insert(p, s)]
        /\ UNCHANGED <<audit, lock, lastId>>
    BY <1>15 DEF LlmRefuses, dbVars
  <2> HIDE DEF s
  <2> QED BY <2>1, <2>2 DEF Quiet, TypeOK
<1>16. ASSUME NEW p \in Scanners, PostGatePass(p) PROVE Appends(p)
  BY <1>16, AuditAddAppends DEF PostGatePass, TypeOK, dbVars
<1>17. ASSUME NEW p \in Scanners, NEW b \in BOOLEAN, PostGateFail(p, b) PROVE Appends(p)
  <2>1. /\ Insert(p, "REJECTED") \in WritesType
        /\ Insert(p, "REJECTED").rows = txn[p].rows
    BY InsertKeepsRows DEF Status, FinalStatus
  <2>2. AuditAdd(p, Insert(p, "REJECTED"), "GATE", FALSE, sc[p].run) /\ UNCHANGED audit
    BY <1>17 DEF PostGateFail, dbVars
  <2> QED BY <2>1, <2>2, AuditAddAppends
<1>18. ASSUME NEW p \in Scanners, Publish(p) PROVE Quiet
  <2>1. Insert(p, "PUBLISHED").rows = txn[p].rows
    BY InsertKeepsRows DEF Status, OpenStatus
  <2>2. /\ txn' = [txn EXCEPT ![p] = Insert(p, "PUBLISHED")]
        /\ UNCHANGED <<audit, lock, lastId>>
    BY <1>18 DEF Publish, dbVars
  <2> QED BY <2>1, <2>2 DEF Quiet, TypeOK
<1>19. ASSUME NEW p \in Scanners, Commit(p) PROVE Commits(p)
  BY <1>19, EndTxnEnds DEF Commit, Apply, Commits
<1>20. ASSUME NEW p \in Scanners, NEW b \in BOOLEAN, Deliver(p, b) PROVE Quiet
  BY <1>20 DEF Deliver, Quiet, dbVars
<1>21. ASSUME NEW p \in Scanners, MarkDelivery(p) PROVE Appends(p)
  <2> DEFINE as == IF sc[p].sent THEN "sent" ELSE "failed"
             m == {[id |-> sc[p].sid, as |-> as]}
             w == [txn[p] EXCEPT !.deliver = m]
  <2>1. w \in WritesType /\ w.rows = txn[p].rows
    <3>1. sc[p].sid \in Nat /\ txn[p] \in WritesType
      BY DEF TypeOK, LocalsType
    <3>2. as \in {"sent", "failed"}
      OBVIOUS
    <3> HIDE DEF as
    <3>3. [id |-> sc[p].sid, as |-> as] \in [id : Nat, as : {"sent", "failed"}]
      BY <3>1, <3>2
    <3>4. m \in SUBSET [id : Nat, as : {"sent", "failed"}]
      BY <3>3
    <3> HIDE DEF m
    <3> QED BY <3>1, <3>4 DEF WritesType
  <2>2. AuditAdd(p, w, "DELIVERY", sc[p].sent, sc[p].sid) /\ UNCHANGED audit
    BY <1>21 DEF MarkDelivery, dbVars
  <2> HIDE DEF w
  <2> QED BY <2>1, <2>2, AuditAddAppends
<1>22. ASSUME NEW p \in Scanners, MarkCommit(p) PROVE Commits(p)
  BY <1>22, EndTxnEnds DEF MarkCommit, Apply, Commits
<1>23. ASSUME NEW p \in Scanners, Abort(p) PROVE Drops(p)
  BY <1>23, EndTxnEnds DEF Abort, Drops, dbVars
<1>24. ASSUME NEW id \in DOMAIN signals, NEW status \in Status, Track(id, status)
       PROVE Quiet
  BY <1>24 DEF Track, Quiet
<1>25. ASSUME NEW s \in Strategies, Toggle(s) PROVE Quiet
  BY <1>25 DEF Toggle, Quiet
<1>26. CASE Tick
  BY <1>26 DEF Tick, Quiet, dbVars
<1>27. CASE UNCHANGED vars
  BY <1>27 DEF vars, Quiet
<1> QED
  BY <1>1, <1>2, <1>3, <1>4, <1>5, <1>6, <1>7, <1>8, <1>9, <1>10, <1>11, <1>12,
     <1>13, <1>14, <1>15, <1>16, <1>17, <1>18, <1>19, <1>20, <1>21, <1>22,
     <1>23, <1>24, <1>25, <1>26, <1>27 DEF Next, Step

LEMMA ChainInit == Init => ChainInv
<1> SUFFICES ASSUME Init PROVE ChainInv
  OBVIOUS
<1>1. audit = {} /\ lastId = 0 /\ \A p \in Scanners : txn[p].rows = {}
  BY DEF Init, NoWrites
<1>2. WellChained({}, 0)
  BY DEF WellChained, Chain!Linked
<1>3. \A p \in Scanners : Visible(p) = {}
  BY <1>1 DEF Visible
<1> QED BY <1>1, <1>2, <1>3 DEF ChainInv

LEMMA ChainStep == TypeInv /\ ChainInv /\ [Next]_vars => ChainInv'
<1> SUFFICES ASSUME TypeInv, ChainInv, [Next]_vars PROVE ChainInv'
  OBVIOUS
<1>1. CASE Quiet
  <2>1. \A p \in Scanners : Visible(p)' = Visible(p)
    BY <1>1 DEF Quiet, Visible
  <2> QED BY <1>1, <2>1 DEF Quiet, ChainInv
<1>2. ASSUME NEW p \in Scanners, Appends(p) PROVE ChainInv'
  <2>1. \A q \in Scanners \ {p} : txn[q].rows = {} /\ txn'[q].rows = {}
    BY <1>2, ScannersAssumption DEF Appends, KeepsRows, ChainInv
  <2>2. PICK r : /\ r.id = lastId + 1 /\ r.prev = HeadId(Visible(p))
                 /\ txn'[p].rows = txn[p].rows \cup {r}
    BY <1>2 DEF Appends
  <2>3. lastId' = lastId + 1 /\ audit' = audit /\ lock' = p /\ lastId \in Nat
    BY <1>2 DEF Appends, ChainInv
  <2>4. WellChained(audit', lastId')
    BY <2>3, ChainBoundGrows DEF ChainInv
  <2>5. WellChained(Visible(p)', lastId')
    <3>1. Visible(p)' = Visible(p) \cup {r}
      BY <2>2, <2>3 DEF Visible
    <3>2. WellChained(Visible(p), lastId)
      BY DEF ChainInv
    <3>3. WellChained(Visible(p) \cup {r}, lastId + 1)
      BY <2>2, <2>3, <3>2, AppendKeepsChain
    <3> QED BY <2>3, <3>1, <3>3
  <2>6. \A q \in Scanners \ {p} : WellChained(Visible(q)', lastId')
    BY <2>1, <2>4 DEF Visible
  <2>7. \A a \in audit', s \in txn'[p].rows : a.id < s.id
    <3>1. \A a \in audit : a.id \in Nat /\ a.id <= lastId
      BY DEF ChainInv, WellChained
    <3> QED BY <2>2, <2>3, <3>1 DEF ChainInv
  <2> QED BY <2>1, <2>3, <2>4, <2>5, <2>6, <2>7 DEF ChainInv
<1>3. ASSUME NEW p \in Scanners, Commits(p) PROVE ChainInv'
  <2>1. WellChained(audit', lastId')
    BY <1>3 DEF Commits, Ends, ChainInv, Visible
  <2>2. \A q \in Scanners : txn[q].rows # {} /\ q # p => audit' = audit
    BY <1>3 DEF Commits, Ends, ChainInv
  <2>3. \A q \in Scanners : txn'[q].rows # {} =>
            q # p /\ txn'[q].rows = txn[q].rows /\ lock' = q
    BY <1>3, ScannersAssumption DEF Commits, Ends, KeepsRows, ChainInv
  <2>4. \A q \in Scanners : WellChained(Visible(q)', lastId')
    <3> SUFFICES ASSUME NEW q \in Scanners PROVE WellChained(Visible(q)', lastId')
      OBVIOUS
    <3>1. CASE txn'[q].rows = {}
      BY <3>1, <2>1 DEF Visible
    <3>2. CASE txn'[q].rows # {}
      BY <3>2, <2>2, <2>3, <1>3 DEF Visible, Commits, Ends, ChainInv
    <3> QED BY <3>1, <3>2
  <2>5. \A q \in Scanners : \A a \in audit', s \in txn'[q].rows : a.id < s.id
    BY <2>2, <2>3 DEF ChainInv
  <2> QED BY <1>3, <2>1, <2>3, <2>4, <2>5 DEF ChainInv, Commits, Ends
<1>4. ASSUME NEW p \in Scanners, Drops(p) PROVE ChainInv'
  <2>1. \A q \in Scanners : txn'[q].rows # {} =>
            q # p /\ txn'[q].rows = txn[q].rows /\ lock' = q
    BY <1>4, ScannersAssumption DEF Drops, Ends, KeepsRows, ChainInv
  <2>2. \A q \in Scanners : WellChained(Visible(q)', lastId')
    <3> SUFFICES ASSUME NEW q \in Scanners PROVE WellChained(Visible(q)', lastId')
      OBVIOUS
    <3>1. CASE txn'[q].rows = {}
      BY <3>1, <1>4 DEF Visible, Drops, Ends, ChainInv
    <3>2. CASE txn'[q].rows # {}
      BY <3>2, <2>1, <1>4 DEF Visible, Drops, Ends, ChainInv
    <3> QED BY <3>1, <3>2
  <2> QED BY <1>4, <2>1, <2>2 DEF ChainInv, Drops, Ends
<1> QED BY <1>1, <1>2, <1>3, <1>4, StepKinds

-----------------------------------------------------------------------------
(***************************************************************************)
(* Type correctness, in three parts: the runs, their transactions, the     *)
(* tables.  The id an audit row links to is a number because the chain is  *)
(* well formed, hence ChainInv among the hypotheses.                       *)
(***************************************************************************)

RunsOK ==
    /\ pc \in [Scanners -> Label]
    /\ sc \in [Scanners -> LocalsType]
    /\ \A p \in Scanners : pc[p] \in InLoop => sc[p].strat \in DOMAIN Registry
    /\ \A p \in Scanners : sc[p].strat \in Nat \ {0}

TxnsOK ==
    /\ txn \in [Scanners -> WritesType]
    /\ lock \in Scanners \cup {NoOne}
    /\ lastId \in Nat
    /\ \A p \in Scanners : IsFiniteSet(NewIds(p))

TablesOK ==
    /\ clock \in Nat /\ runs \in Nat
    /\ audit \subseteq AuditRow
    /\ DOMAIN signals \subseteq Nat /\ IsFiniteSet(DOMAIN signals)
    /\ \A id \in DOMAIN signals : signals[id] \in SignalRow
    /\ enabled \in [Strategies -> BOOLEAN]
    /\ chat \subseteq Nat \X Nat

LEMMA TypeParts == TypeInv <=> RunsOK /\ TxnsOK /\ TablesOK
  BY DEF TypeInv, TypeOK, LoopOK, RunsOK, TxnsOK, TablesOK

LEMMA TablesUnchanged ==
    TablesOK /\ UNCHANGED <<clock, runs, dbVars, chat>> => TablesOK'
  BY DEF TablesOK, dbVars

LEMMA TxnsUnchanged == TxnsOK /\ UNCHANGED <<txn, lock, lastId>> => TxnsOK'
<1> SUFFICES ASSUME TxnsOK, UNCHANGED <<txn, lock, lastId>> PROVE TxnsOK'
  OBVIOUS
<1>1. \A p \in Scanners : NewIds(p)' = NewIds(p)
  BY DEF NewIds
<1> QED BY <1>1 DEF TxnsOK

LEMMA AuditAddType ==
    ASSUME TypeInv, ChainInv, NEW p \in Scanners, NEW writes \in WritesType,
           IsFiniteSet({new.id : new \in writes.insert}),
           NEW stage \in Stage, NEW ok \in BOOLEAN, NEW sid \in Nat,
           AuditAdd(p, writes, stage, ok, sid)
    PROVE  TxnsOK'
<1> DEFINE r == NextRow(p, stage, ok, sid)
           w == [writes EXCEPT !.rows = @ \cup {r}]
<1>0. TxnsOK /\ lastId \in Nat
  BY TypeParts DEF TxnsOK
<1>1. HeadId(Visible(p)) \in Nat
  BY <1>0, HeadIsMax DEF ChainInv
<1>2. r \in AuditRow
  BY <1>0, <1>1 DEF NextRow, AuditRow
<1>3. txn' = [txn EXCEPT ![p] = w] /\ lock' = p /\ lastId' = lastId + 1
  BY DEF AuditAdd
<1> HIDE DEF r
<1>4. w \in WritesType /\ w.insert = writes.insert
  BY <1>2 DEF WritesType
<1> HIDE DEF w
<1>5. txn' \in [Scanners -> WritesType]
  BY <1>0, <1>3, <1>4 DEF TxnsOK
<1>6. ASSUME NEW q \in Scanners PROVE IsFiniteSet(NewIds(q)')
  <2>1. CASE q = p
    <3>1. NewIds(q)' = {new.id : new \in writes.insert}
      BY <2>1, <1>0, <1>3, <1>4 DEF NewIds, TxnsOK
    <3> QED BY <3>1
  <2>2. CASE q # p
    <3>1. NewIds(q)' = NewIds(q)
      BY <2>2, <1>0, <1>3 DEF NewIds, TxnsOK
    <3> QED BY <3>1, <1>0 DEF TxnsOK
  <2> QED BY <2>1, <2>2
<1> QED BY <1>0, <1>3, <1>5, <1>6 DEF TxnsOK

\* The common case: the step writes nothing but its audit row.
LEMMA PlainAuditAddType ==
    ASSUME TypeInv, ChainInv, NEW p \in Scanners,
           NEW stage \in Stage, NEW ok \in BOOLEAN, NEW sid \in Nat,
           AuditAdd(p, txn[p], stage, ok, sid)
    PROVE  TxnsOK'
<1>1. txn[p] \in WritesType /\ IsFiniteSet(NewIds(p))
  BY TypeParts DEF TxnsOK
<1>2. IsFiniteSet({new.id : new \in txn[p].insert})
  BY <1>1 DEF NewIds
<1> QED BY <1>1, <1>2, AuditAddType

LEMMA InsertType ==
    ASSUME TypeInv, NEW p \in Scanners, NEW status \in Status
    PROVE  /\ Insert(p, status) \in WritesType
           /\ IsFiniteSet({new.id : new \in Insert(p, status).insert})
<1>1. Insert(p, status) \in WritesType
  BY InsertKeepsRows DEF TypeInv
<1>2. Insert(p, status).insert = {[id |-> sc[p].run, row |-> NewSignal(p, status)]}
  BY DEF Insert, TypeInv, TypeOK, WritesType
<1>3. {new.id : new \in Insert(p, status).insert} = {sc[p].run}
  BY <1>2
<1> QED BY <1>1, <1>3, FS_Singleton

LEMMA EndTxnType ==
    ASSUME TypeInv, NEW p \in Scanners, EndTxn(p), UNCHANGED lastId
    PROVE  TxnsOK'
<1>1. TxnsOK
  BY TypeParts
<1>2. txn' \in [Scanners -> WritesType]
  BY <1>1, NoWritesType DEF EndTxn, TxnsOK
<1>3. ASSUME NEW q \in Scanners PROVE IsFiniteSet(NewIds(q)')
  <2>1. CASE q = p
    <3>1. txn'[q].insert = {}
      BY <2>1, <1>1 DEF EndTxn, TxnsOK, NoWrites
    <3>2. NewIds(q)' = {}
      BY <3>1 DEF NewIds
    <3> QED BY <3>2, FS_EmptySet
  <2>2. CASE q # p
    <3>1. NewIds(q)' = NewIds(q)
      BY <2>2, <1>1 DEF EndTxn, NewIds, TxnsOK
    <3> QED BY <3>1, <1>1 DEF TxnsOK
  <2> QED BY <2>1, <2>2
<1> QED BY <1>1, <1>2, <1>3 DEF TxnsOK, EndTxn

LEMMA TypeInsertStep ==
    ASSUME TypeInv, NEW p \in Scanners, NEW status \in Status,
           txn' = [txn EXCEPT ![p] = Insert(p, status)], UNCHANGED <<lock, lastId>>
    PROVE  TxnsOK'
<1>1. TxnsOK
  BY TypeParts
<1>2. /\ Insert(p, status) \in WritesType
      /\ IsFiniteSet({new.id : new \in Insert(p, status).insert})
  BY InsertType
<1>3. ASSUME NEW q \in Scanners PROVE IsFiniteSet(NewIds(q)')
  <2>1. CASE q = p
    <3>1. NewIds(q)' = {new.id : new \in Insert(p, status).insert}
      BY <2>1, <1>1 DEF NewIds, TxnsOK
    <3> QED BY <3>1, <1>2
  <2>2. CASE q # p
    <3>1. NewIds(q)' = NewIds(q)
      BY <2>2, <1>1 DEF NewIds, TxnsOK
    <3> QED BY <3>1, <1>1 DEF TxnsOK
  <2> QED BY <2>1, <2>2
<1> QED BY <1>1, <1>2, <1>3 DEF TxnsOK

LEMMA ApplyType ==
    ASSUME TypeInv, NEW p \in Scanners, Apply(p),
           UNCHANGED <<clock, runs, lastId, chat>>
    PROVE  TxnsOK' /\ TablesOK'
<1>1. TxnsOK' /\ TablesOK /\ TxnsOK
  BY EndTxnType, TypeParts DEF Apply
<1>2. /\ txn[p].rows \subseteq AuditRow
      /\ txn[p].insert \subseteq [id : Nat, row : SignalRow]
      /\ txn[p].deliver \subseteq [id : Nat, as : {"sent", "failed"}]
  BY <1>1 DEF TxnsOK, WritesType
<1>3. NewIds(p) \subseteq Nat /\ IsFiniteSet(NewIds(p))
  BY <1>1, <1>2 DEF NewIds, TxnsOK
<1>4. /\ DOMAIN signals' = DOMAIN signals \cup NewIds(p)
      /\ \A id \in DOMAIN signals' : signals'[id] =
            IF id \in NewIds(p)
            THEN (CHOOSE new \in txn[p].insert : new.id = id).row
            ELSE IF \E d \in txn[p].deliver : d.id = id
                 THEN [signals[id] EXCEPT !.delivery =
                          (CHOOSE d \in txn[p].deliver : d.id = id).as]
                 ELSE signals[id]
  BY DEF Apply, SignalsAfter
<1>5. DOMAIN signals' \subseteq Nat /\ IsFiniteSet(DOMAIN signals')
  <2>1. IsFiniteSet(DOMAIN signals) /\ DOMAIN signals \subseteq Nat
    BY <1>1 DEF TablesOK
  <2>2. IsFiniteSet(DOMAIN signals \cup NewIds(p))
    BY <1>3, <2>1, FS_Union
  <2> QED BY <1>3, <1>4, <2>1, <2>2
<1>6. ASSUME NEW id \in DOMAIN signals' PROVE signals'[id] \in SignalRow
  <2>1. CASE id \in NewIds(p)
    <3>1. \E new \in txn[p].insert : new.id = id
      BY <2>1 DEF NewIds
    <3>2. (CHOOSE new \in txn[p].insert : new.id = id) \in txn[p].insert
      BY <3>1
    <3> QED BY <1>2, <1>4, <2>1, <3>2
  <2>2. CASE id \notin NewIds(p) /\ \E d \in txn[p].deliver : d.id = id
    <3>1. (CHOOSE d \in txn[p].deliver : d.id = id) \in txn[p].deliver
      BY <2>2
    <3> DEFINE as == (CHOOSE d \in txn[p].deliver : d.id = id).as
    <3>2. as \in {"sent", "failed"}
      BY <1>2, <3>1
    <3>3. signals[id] \in SignalRow
      BY <1>1, <1>4, <2>2 DEF TablesOK
    <3>4. signals'[id] = [signals[id] EXCEPT !.delivery = as]
      BY <1>4, <2>2
    <3> HIDE DEF as
    <3> QED BY <3>2, <3>3, <3>4 DEF SignalRow
  <2>3. CASE id \notin NewIds(p) /\ ~ \E d \in txn[p].deliver : d.id = id
    BY <1>1, <1>4, <2>3 DEF TablesOK
  <2> QED BY <2>1, <2>2, <2>3
<1>7. enabled' \in [Strategies -> BOOLEAN]
  BY <1>1 DEF Apply, TablesOK
<1>8. audit' \subseteq AuditRow
  BY <1>1, <1>2 DEF Apply, TablesOK
<1> QED BY <1>1, <1>5, <1>6, <1>7, <1>8 DEF TablesOK

LEMMA TypeStep == TypeInv /\ ChainInv /\ [Next]_vars => TypeInv'
<1> SUFFICES ASSUME TypeInv, ChainInv, [Next]_vars PROVE RunsOK' /\ TxnsOK' /\ TablesOK'
  BY TypeParts, PTL
<1>0. RunsOK /\ TxnsOK /\ TablesOK /\ NoLocals \in LocalsType /\ NoLocals.strat = 1
  BY TypeParts, NoLocalsType
<1> USE DEF Goto, Finish, dbVars
<1>1. ASSUME NEW p \in Scanners, NEW i \in Instruments, Begin(p, i)
      PROVE  RunsOK' /\ TxnsOK' /\ TablesOK'
  <2>1. Locals(runs + 1, i, clock) \in LocalsType /\ Locals(runs + 1, i, clock).strat = 1
    BY <1>0 DEF Locals, LocalsType, TablesOK, Decision, NoSignal
  <2>2. RunsOK'
    BY <1>0, <1>1, <2>1 DEF Begin, RunsOK, InLoop, Label
  <2>3. TablesOK'
    BY <1>0, <1>1 DEF Begin, TablesOK
  <2> QED BY <1>0, <1>1, <2>2, <2>3, TxnsUnchanged DEF Begin
<1>2. ASSUME NEW p \in Scanners, EndWithoutSignal(p)
      PROVE  RunsOK' /\ TxnsOK' /\ TablesOK'
  <2>1. RunsOK'
    BY <1>0, <1>2 DEF EndWithoutSignal, RunsOK, InLoop, Label
  <2> QED BY <1>0, <1>2, <2>1, TxnsUnchanged, TablesUnchanged DEF EndWithoutSignal
<1>3. ASSUME NEW p \in Scanners, NEW bar \in 0 .. clock, LoadFrame(p, bar)
      PROVE  RunsOK' /\ TxnsOK' /\ TablesOK'
  <2>1. RunsOK'
    BY <1>0, <1>3 DEF LoadFrame, RunsOK, InLoop, Label, LocalsType, TablesOK
  <2> QED BY <1>0, <1>3, <2>1, TxnsUnchanged, TablesUnchanged DEF LoadFrame
<1>4. ASSUME NEW p \in Scanners, NEW b \in BOOLEAN, ShadowAudit(p, b)
      PROVE  RunsOK' /\ TxnsOK' /\ TablesOK'
  <2>1. RunsOK'
    BY <1>0, <1>4 DEF ShadowAudit, RunsOK, InLoop, Label
  <2>2. TxnsOK'
    BY <1>4, PlainAuditAddType DEF ShadowAudit, Stage, NoSignal
  <2> QED BY <1>0, <1>4, <2>1, <2>2, TablesUnchanged DEF ShadowAudit
<1>5. ASSUME NEW p \in Scanners, SkipStrategy(p)
      PROVE  RunsOK' /\ TxnsOK' /\ TablesOK'
  <2>1. RunsOK'
    <3>1. pc' = pc /\ pc[p] = "strategy" /\ sc' = [sc EXCEPT ![p].strat = @ + 1]
      BY <1>5 DEF SkipStrategy
    <3>2. sc' \in [Scanners -> LocalsType] /\ sc'[p].strat \in Nat \ {0}
      BY <1>0, <3>1 DEF RunsOK, LocalsType
    <3>3. \A q \in Scanners \ {p} : sc'[q] = sc[q]
      BY <1>0, <3>1 DEF RunsOK
    <3> QED BY <1>0, <3>1, <3>2, <3>3 DEF RunsOK, InLoop
  <2> QED BY <1>0, <1>5, <2>1, TxnsUnchanged, TablesUnchanged DEF SkipStrategy
<1>6. ASSUME NEW p \in Scanners, NEW b \in BOOLEAN, GenerateCandidate(p, b)
      PROVE  RunsOK' /\ TxnsOK' /\ TablesOK'
  <2>1. sc[p].strat \in DOMAIN Registry
    BY <1>0, <1>6, RegistryAssumption DEF GenerateCandidate, RunsOK
  <2>2. RunsOK'
    BY <1>0, <1>6, <2>1 DEF GenerateCandidate, RunsOK, InLoop, Label, LocalsType
  <2> QED BY <1>0, <1>6, <2>2, TxnsUnchanged, TablesUnchanged DEF GenerateCandidate
<1>7. ASSUME NEW p \in Scanners, AuditMisaligned(p)
      PROVE  RunsOK' /\ TxnsOK' /\ TablesOK'
  <2>1. RunsOK'
    BY <1>0, <1>7 DEF AuditMisaligned, RunsOK, InLoop, Label, LocalsType
  <2>2. TxnsOK'
    BY <1>7, PlainAuditAddType DEF AuditMisaligned, Stage, NoSignal
  <2> QED BY <1>0, <1>7, <2>1, <2>2, TablesUnchanged DEF AuditMisaligned
<1>8. ASSUME NEW p \in Scanners, AuditCandidate(p)
      PROVE  RunsOK' /\ TxnsOK' /\ TablesOK'
  <2>1. RunsOK'
    BY <1>0, <1>8 DEF AuditCandidate, RunsOK, InLoop, Label
  <2>2. TxnsOK'
    BY <1>0, <1>8, PlainAuditAddType DEF AuditCandidate, Stage, RunsOK, LocalsType
  <2> QED BY <1>0, <1>8, <2>1, <2>2, TablesUnchanged DEF AuditCandidate
<1>9. ASSUME NEW p \in Scanners, NoCandidate(p)
      PROVE  RunsOK' /\ TxnsOK' /\ TablesOK'
  <2>1. RunsOK'
    BY <1>0, <1>9 DEF NoCandidate, RunsOK, InLoop, Label
  <2> QED BY <1>0, <1>9, <2>1, TxnsUnchanged, TablesUnchanged DEF NoCandidate
<1>10. ASSUME NEW p \in Scanners, Dedup(p)
      PROVE  RunsOK' /\ TxnsOK' /\ TablesOK'
  <2>1. Duplicates(p) \subseteq Nat
    BY <1>0 DEF Duplicates, TablesOK
  <2>2. RunsOK'
    BY <1>0, <1>10, <2>1 DEF Dedup, RunsOK, InLoop, Label, LocalsType
  <2> QED BY <1>0, <1>10, <2>2, TxnsUnchanged, TablesUnchanged DEF Dedup
<1>11. ASSUME NEW p \in Scanners, CountSince(p)
      PROVE  RunsOK' /\ TxnsOK' /\ TablesOK'
  <2> DEFINE n == Cardinality(CountedToday(sc[p].inst, Day(sc[p].now)))
  <2>1. CountedToday(sc[p].inst, Day(sc[p].now)) \in SUBSET DOMAIN signals
    BY DEF CountedToday
  <2>2. n \in Nat
    BY <1>0, <2>1, FS_Subset, FS_CardinalityType DEF TablesOK
  <2>3. sc' = [sc EXCEPT ![p].today = n] /\ pc' = [pc EXCEPT ![p] = "gate"]
        /\ pc[p] = "count"
    BY <1>11 DEF CountSince
  <2> HIDE DEF n
  <2>4. RunsOK'
    BY <1>0, <2>2, <2>3 DEF RunsOK, InLoop, Label, LocalsType
  <2> QED BY <1>0, <1>11, <2>4, TxnsUnchanged, TablesUnchanged DEF CountSince
<1>12. ASSUME NEW p \in Scanners, GatePass(p)
      PROVE  RunsOK' /\ TxnsOK' /\ TablesOK'
  <2>1. RunsOK'
    BY <1>0, <1>12 DEF GatePass, RunsOK, InLoop, Label
  <2>2. TxnsOK'
    BY <1>0, <1>12, PlainAuditAddType DEF GatePass, Stage, RunsOK, LocalsType
  <2> QED BY <1>0, <1>12, <2>1, <2>2, TablesUnchanged DEF GatePass
<1>13. ASSUME NEW p \in Scanners, NEW b \in BOOLEAN, GateFail(p, b)
      PROVE  RunsOK' /\ TxnsOK' /\ TablesOK'
  <2> DEFINE d == IF sc[p].guardOk THEN {} ELSE {Registry[sc[p].strat]}
             ins == Insert(p, "REJECTED")
             w == [ins EXCEPT !.disable = d]
  <2>1. d \in SUBSET Strategies
    BY <1>0, <1>13 DEF GateFail, RunsOK, InLoop, Strategies
  <2>2. ins \in WritesType /\ IsFiniteSet({new.id : new \in ins.insert})
    BY InsertType DEF Status, FinalStatus
  <2>3. AuditAdd(p, w, "GATE", FALSE, sc[p].run)
    BY <1>13 DEF GateFail
  <2> HIDE DEF d, ins
  <2>4. w \in WritesType /\ w.insert = ins.insert
    BY <2>1, <2>2 DEF WritesType
  <2>5. IsFiniteSet({new.id : new \in w.insert})
    BY <2>2, <2>4
  <2> HIDE DEF w
  <2>6. sc[p].run \in Nat
    BY <1>0 DEF RunsOK, LocalsType
  <2>7. TxnsOK'
    BY <2>3, <2>4, <2>5, <2>6, AuditAddType DEF Stage
  <2>8. RunsOK'
    BY <1>0, <1>13 DEF GateFail, RunsOK, InLoop, Label, LocalsType
  <2> QED BY <1>0, <1>13, <2>7, <2>8, TablesUnchanged DEF GateFail
<1>14. ASSUME NEW p \in Scanners, NEW d \in Decision, LlmAccepts(p, d)
      PROVE  RunsOK' /\ TxnsOK' /\ TablesOK'
  <2>1. RunsOK'
    BY <1>0, <1>14 DEF LlmAccepts, RunsOK, InLoop, Label, LocalsType
  <2> QED BY <1>0, <1>14, <2>1, TxnsUnchanged, TablesUnchanged DEF LlmAccepts
<1>15. ASSUME NEW p \in Scanners, NEW d \in Decision, LlmRefuses(p, d)
      PROVE  RunsOK' /\ TxnsOK' /\ TablesOK'
  <2> DEFINE s == IF d = "REJECTED" THEN "REJECTED" ELSE "ABSTAINED"
  <2>1. s \in Status
    BY DEF Status, FinalStatus
  <2>2. /\ txn' = [txn EXCEPT ![p] = Insert(p, s)] /\ UNCHANGED <<lock, lastId>>
    BY <1>15 DEF LlmRefuses
  <2> HIDE DEF s
  <2>3. TxnsOK'
    BY <2>1, <2>2, TypeInsertStep
  <2>4. RunsOK'
    BY <1>0, <1>15 DEF LlmRefuses, RunsOK, InLoop, Label, LocalsType
  <2> QED BY <1>0, <1>15, <2>3, <2>4, TablesUnchanged DEF LlmRefuses
<1>16. ASSUME NEW p \in Scanners, PostGatePass(p)
      PROVE  RunsOK' /\ TxnsOK' /\ TablesOK'
  <2>1. RunsOK'
    BY <1>0, <1>16 DEF PostGatePass, RunsOK, InLoop, Label
  <2>2. TxnsOK'
    BY <1>0, <1>16, PlainAuditAddType DEF PostGatePass, Stage, RunsOK, LocalsType
  <2> QED BY <1>0, <1>16, <2>1, <2>2, TablesUnchanged DEF PostGatePass
<1>17. ASSUME NEW p \in Scanners, NEW b \in BOOLEAN, PostGateFail(p, b)
      PROVE  RunsOK' /\ TxnsOK' /\ TablesOK'
  <2>1. /\ Insert(p, "REJECTED") \in WritesType
        /\ IsFiniteSet({new.id : new \in Insert(p, "REJECTED").insert})
    BY InsertType DEF Status, FinalStatus
  <2>2. AuditAdd(p, Insert(p, "REJECTED"), "GATE", FALSE, sc[p].run) /\ sc[p].run \in Nat
    BY <1>0, <1>17 DEF PostGateFail, RunsOK, LocalsType
  <2>3. TxnsOK'
    BY <2>1, <2>2, AuditAddType DEF Stage
  <2>4. RunsOK'
    BY <1>0, <1>17 DEF PostGateFail, RunsOK, InLoop, Label, LocalsType
  <2> QED BY <1>0, <1>17, <2>3, <2>4, TablesUnchanged DEF PostGateFail
<1>18. ASSUME NEW p \in Scanners, Publish(p)
      PROVE  RunsOK' /\ TxnsOK' /\ TablesOK'
  <2>1. TxnsOK'
    BY <1>18, TypeInsertStep DEF Publish, Status, OpenStatus
  <2>2. RunsOK'
    BY <1>0, <1>18 DEF Publish, RunsOK, InLoop, Label, LocalsType
  <2> QED BY <1>0, <1>18, <2>1, <2>2, TablesUnchanged DEF Publish
<1>19. ASSUME NEW p \in Scanners, Commit(p)
      PROVE  RunsOK' /\ TxnsOK' /\ TablesOK'
  <2>1. RunsOK'
    BY <1>0, <1>19 DEF Commit, RunsOK, InLoop, Label
  <2> QED BY <1>19, <2>1, ApplyType DEF Commit
<1>20. ASSUME NEW p \in Scanners, NEW b \in BOOLEAN, Deliver(p, b)
      PROVE  RunsOK' /\ TxnsOK' /\ TablesOK'
  <2>1. RunsOK'
    BY <1>0, <1>20 DEF Deliver, RunsOK, InLoop, Label, LocalsType
  <2>2. chat' \subseteq Nat \X Nat
    BY <1>0, <1>20 DEF Deliver, RunsOK, LocalsType, TablesOK
  <2>3. TablesOK'
    BY <1>0, <1>20, <2>2 DEF Deliver, TablesOK
  <2> QED BY <1>0, <1>20, <2>1, <2>3, TxnsUnchanged DEF Deliver
<1>21. ASSUME NEW p \in Scanners, MarkDelivery(p)
      PROVE  RunsOK' /\ TxnsOK' /\ TablesOK'
  <2> DEFINE as == IF sc[p].sent THEN "sent" ELSE "failed"
             m == {[id |-> sc[p].sid, as |-> as]}
             w == [txn[p] EXCEPT !.deliver = m]
  <2>1. sc[p].sid \in Nat /\ sc[p].sent \in BOOLEAN /\ txn[p] \in WritesType
        /\ IsFiniteSet(NewIds(p))
    BY <1>0 DEF RunsOK, TxnsOK, LocalsType
  <2>2. AuditAdd(p, w, "DELIVERY", sc[p].sent, sc[p].sid)
    BY <1>21 DEF MarkDelivery
  <2>3. as \in {"sent", "failed"}
    OBVIOUS
  <2> HIDE DEF as
  <2>4. [id |-> sc[p].sid, as |-> as] \in [id : Nat, as : {"sent", "failed"}]
    BY <2>1, <2>3
  <2>5. m \in SUBSET [id : Nat, as : {"sent", "failed"}]
    BY <2>4
  <2> HIDE DEF m
  <2>6. w \in WritesType /\ w.insert = txn[p].insert
    BY <2>1, <2>5 DEF WritesType
  <2> HIDE DEF w
  <2>7. IsFiniteSet({new.id : new \in w.insert})
    BY <2>1, <2>6 DEF NewIds
  <2>8. TxnsOK'
    BY <2>1, <2>2, <2>6, <2>7, AuditAddType DEF Stage
  <2>9. RunsOK'
    BY <1>0, <1>21 DEF MarkDelivery, RunsOK, InLoop, Label
  <2> QED BY <1>0, <1>21, <2>8, <2>9, TablesUnchanged DEF MarkDelivery
<1>22. ASSUME NEW p \in Scanners, MarkCommit(p)
      PROVE  RunsOK' /\ TxnsOK' /\ TablesOK'
  <2>1. RunsOK'
    BY <1>0, <1>22 DEF MarkCommit, RunsOK, InLoop, Label
  <2> QED BY <1>22, <2>1, ApplyType DEF MarkCommit
<1>23. ASSUME NEW p \in Scanners, Abort(p)
      PROVE  RunsOK' /\ TxnsOK' /\ TablesOK'
  <2>1. RunsOK'
    BY <1>0, <1>23 DEF Abort, RunsOK, InLoop, Label
  <2> QED BY <1>0, <1>23, <2>1, EndTxnType, TablesUnchanged DEF Abort
<1>24. ASSUME NEW id \in DOMAIN signals, NEW status \in Status, Track(id, status)
      PROVE  RunsOK' /\ TxnsOK' /\ TablesOK'
  <2>1. RunsOK'
    BY <1>0, <1>24 DEF Track, RunsOK
  <2>2. TablesOK'
    BY <1>0, <1>24 DEF Track, TablesOK, SignalRow
  <2> QED BY <1>0, <1>24, <2>1, <2>2, TxnsUnchanged DEF Track
<1>25. ASSUME NEW s \in Strategies, Toggle(s)
      PROVE  RunsOK' /\ TxnsOK' /\ TablesOK'
  <2>1. RunsOK' /\ TablesOK'
    BY <1>0, <1>25 DEF Toggle, RunsOK, TablesOK
  <2> QED BY <1>0, <1>25, <2>1, TxnsUnchanged DEF Toggle
<1>26. CASE Tick
  <2>1. RunsOK' /\ TablesOK'
    BY <1>0, <1>26 DEF Tick, RunsOK, TablesOK
  <2> QED BY <1>0, <1>26, <2>1, TxnsUnchanged DEF Tick
<1>27. CASE UNCHANGED vars
  <2>1. RunsOK' /\ TablesOK'
    BY <1>0, <1>27 DEF vars, RunsOK, TablesOK
  <2> QED BY <1>0, <1>27, <2>1, TxnsUnchanged DEF vars
<1> QED
  BY <1>1, <1>2, <1>3, <1>4, <1>5, <1>6, <1>7, <1>8, <1>9, <1>10, <1>11, <1>12,
     <1>13, <1>14, <1>15, <1>16, <1>17, <1>18, <1>19, <1>20, <1>21, <1>22,
     <1>23, <1>24, <1>25, <1>26, <1>27 DEF Next, Step

-----------------------------------------------------------------------------
(***************************************************************************)
(* Duplicates.  From its CANDIDATE row to its COMMIT a run holds the chain *)
(* lock, and nobody inserts a signal without it; so what get_by_dedup saw  *)
(* is still true when the row is inserted.                                 *)
(***************************************************************************)

Exclusive == {"dedup", "count", "gate", "llm", "postgate", "publish", "markcommit"}
Checked == {"count", "gate", "llm", "postgate", "publish"}

DedupOK(p) ==
    /\ pc[p] \in Exclusive => lock = p
    /\ pc[p] \in Checked => Duplicates(p) = {}
    /\ txn[p].insert # {} => lock = p /\ ~ Conflicts(p)

DedupInv == \A p \in Scanners : DedupOK(p)

\* No key appears in the signals table that was not there before.
KeysKept ==
    \A id \in DOMAIN signals' :
        \E old \in DOMAIN signals : SameKey(signals'[id], signals[old])

\* What scanner q relies on is untouched.
Undisturbed(q) ==
    /\ pc'[q] = pc[q] /\ sc'[q] = sc[q] /\ txn'[q].insert = txn[q].insert
    /\ lock = q => lock' = q /\ KeysKept

LEMMA UndisturbedStaysOK ==
    ASSUME NEW q \in Scanners, DedupOK(q), Undisturbed(q)
    PROVE  DedupOK(q)'
<1>1. CASE lock = q
  <2>1. lock' = q /\ KeysKept
    BY <1>1 DEF Undisturbed
  <2>2. Duplicates(q) = {} => Duplicates(q)' = {}
    BY <2>1 DEF Undisturbed, KeysKept, Duplicates, SameKey
  <2>3. ~ Conflicts(q) => ~ Conflicts(q)'
    BY <2>1 DEF Undisturbed, KeysKept, Conflicts, SameKey
  <2> QED BY <2>1, <2>2, <2>3 DEF DedupOK, Undisturbed
<1>2. CASE lock # q
  BY <1>2 DEF DedupOK, Undisturbed, Exclusive, Checked
<1> QED BY <1>1, <1>2

LEMMA SameSignalsKeepKeys == UNCHANGED signals => KeysKept
  BY DEF KeysKept, SameKey

LEMMA ApplyKeepsKeys ==
    ASSUME NEW p \in Scanners, TypeInv, Apply(p), txn[p].insert = {}
    PROVE  KeysKept
<1>1. NewIds(p) = {}
  BY DEF NewIds
<1>2. /\ DOMAIN signals' = DOMAIN signals
      /\ \A id \in DOMAIN signals : signals'[id] =
            IF \E d \in txn[p].deliver : d.id = id
            THEN [signals[id] EXCEPT !.delivery =
                     (CHOOSE d \in txn[p].deliver : d.id = id).as]
            ELSE signals[id]
  BY <1>1 DEF Apply, SignalsAfter
<1>3. \A id \in DOMAIN signals : signals[id] \in SignalRow
  BY DEF TypeInv, TypeOK
<1>4. \A id \in DOMAIN signals : SameKey(signals'[id], signals[id])
  BY <1>2, <1>3 DEF SameKey, SignalRow
<1> QED BY <1>2, <1>4 DEF KeysKept

\* A step of scanner p leaves the locals and inserts of the others alone.
OnlyMoves(p) ==
    \A q \in Scanners \ {p} :
        /\ pc'[q] = pc[q] /\ sc'[q] = sc[q]
        /\ txn'[q].insert = txn[q].insert

LEMMA OthersStayOK ==
    ASSUME DedupInv, NEW p \in Scanners, OnlyMoves(p),
           \A q \in Scanners \ {p} : lock = q => lock' = q /\ KeysKept,
           DedupOK(p)'
    PROVE  DedupInv'
<1> SUFFICES ASSUME NEW q \in Scanners PROVE DedupOK(q)'
  BY DEF DedupInv
<1>1. CASE q = p
  BY <1>1
<1>2. CASE q # p
  <2>1. DedupOK(q) /\ Undisturbed(q)
    BY <1>2 DEF DedupInv, OnlyMoves, Undisturbed
  <2> QED BY <2>1, UndisturbedStaysOK
<1> QED BY <1>1, <1>2

\* Steps that neither write nor lock, and stay outside the exclusive section
\* or move on inside it.
LEMMA LocalStepOK ==
    ASSUME DedupInv, TypeInv, NEW p \in Scanners,
           UNCHANGED <<txn, lock, signals>>,
           \A q \in Scanners \ {p} : pc'[q] = pc[q] /\ sc'[q] = sc[q],
           pc'[p] \in Exclusive => pc[p] \in Exclusive,
           pc'[p] \in Checked => Duplicates(p)' = {}
    PROVE  DedupInv'
<1>1. OnlyMoves(p)
  BY DEF OnlyMoves
<1>2. Conflicts(p)' <=> Conflicts(p)
  BY DEF Conflicts
<1>3. DedupOK(p)'
  BY <1>2 DEF DedupInv, DedupOK
<1>4. \A q \in Scanners \ {p} : lock = q => lock' = q /\ KeysKept
  BY SameSignalsKeepKeys
<1> QED BY <1>1, <1>3, <1>4, OthersStayOK

\* A step that audits something takes the lock, or already has it.
LEMMA AuditStepOK ==
    ASSUME DedupInv, TypeInv, NEW p \in Scanners, NEW writes \in WritesType,
           NEW stage, NEW ok, NEW sid, AuditAdd(p, writes, stage, ok, sid),
           UNCHANGED signals,
           \A q \in Scanners \ {p} : pc'[q] = pc[q] /\ sc'[q] = sc[q],
           pc'[p] \in Checked => Duplicates(p)' = {},
           \A new \in writes.insert, id \in DOMAIN signals :
               ~ SameKey(signals[id], new.row)
    PROVE  DedupInv'
<1> DEFINE r == NextRow(p, stage, ok, sid)
<1>1. txn' = [txn EXCEPT ![p] = [writes EXCEPT !.rows = @ \cup {r}]]
      /\ lock' = p /\ lock \in {NoOne, p}
  BY DEF AuditAdd
<1> HIDE DEF r
<1>2. txn'[p].insert = writes.insert
  BY <1>1 DEF TypeInv, TypeOK, WritesType
<1>3. OnlyMoves(p)
  BY <1>1 DEF OnlyMoves, TypeInv, TypeOK
<1>4. DedupOK(p)'
  BY <1>1, <1>2 DEF DedupOK, Conflicts
<1>5. \A q \in Scanners \ {p} : lock # q
  BY <1>1, ScannersAssumption
<1> QED BY <1>3, <1>4, <1>5, OthersStayOK

\* A run that passed the duplicate check and holds the lock may insert.
LEMMA InsertIsFree ==
    ASSUME DedupInv, TypeInv, NEW p \in Scanners, pc[p] \in Checked,
           NEW status \in Status
    PROVE  /\ lock = p
           /\ \A new \in Insert(p, status).insert, id \in DOMAIN signals :
                  ~ SameKey(signals[id], new.row)
<1>1. Insert(p, status).insert = {[id |-> sc[p].run, row |-> NewSignal(p, status)]}
  BY DEF Insert, TypeInv, TypeOK, WritesType
<1>2. Duplicates(p) = {} /\ lock = p
  BY DEF DedupInv, DedupOK, Checked, Exclusive
<1>3. \A id \in DOMAIN signals : ~ SameKey(signals[id], NewSignal(p, status))
  BY <1>2 DEF Duplicates, SameKey, NewSignal
<1> QED BY <1>1, <1>2, <1>3

LEMMA InsertStepOK ==
    ASSUME DedupInv, TypeInv, NEW p \in Scanners, pc[p] \in Checked,
           NEW status \in Status, txn' = [txn EXCEPT ![p] = Insert(p, status)],
           UNCHANGED <<lock, signals>>, pc'[p] = "commit",
           \A q \in Scanners \ {p} : pc'[q] = pc[q] /\ sc'[q] = sc[q]
    PROVE  DedupInv'
<1>1. lock = p /\ \A new \in Insert(p, status).insert, id \in DOMAIN signals :
                     ~ SameKey(signals[id], new.row)
  BY InsertIsFree
<1>2. OnlyMoves(p) /\ txn'[p] = Insert(p, status)
  BY DEF OnlyMoves, TypeInv, TypeOK
<1>3. DedupOK(p)'
  BY <1>1, <1>2 DEF DedupOK, Conflicts, Exclusive, Checked
<1> QED BY <1>1, <1>2, <1>3, OthersStayOK

\* COMMIT and ROLLBACK: the writes are gone and the lock is free again.
LEMMA EndStepOK ==
    ASSUME DedupInv, TypeInv, NEW p \in Scanners, EndTxn(p),
           pc'[p] \notin Exclusive,
           \A q \in Scanners \ {p} : pc'[q] = pc[q] /\ sc'[q] = sc[q],
           lock # p => KeysKept
    PROVE  DedupInv'
<1>1. OnlyMoves(p) /\ txn'[p].insert = {}
  BY DEF OnlyMoves, EndTxn, TypeInv, TypeOK, NoWrites
<1>2. DedupOK(p)'
  BY <1>1 DEF DedupOK, Exclusive, Checked
<1>3. \A q \in Scanners \ {p} : lock = q => lock' = q /\ KeysKept
  BY DEF EndTxn
<1> QED BY <1>1, <1>2, <1>3, OthersStayOK

LEMMA DedupInit == Init => DedupInv
<1> SUFFICES ASSUME Init, NEW p \in Scanners PROVE DedupOK(p)
  BY DEF DedupInv
<1>1. pc[p] = "idle" /\ txn[p].insert = {}
  BY DEF Init, NoWrites
<1> QED BY <1>1 DEF DedupOK, Exclusive, Checked

LEMMA DedupStep == TypeInv /\ DedupInv /\ [Next]_vars => DedupInv'
<1> SUFFICES ASSUME TypeInv, DedupInv, [Next]_vars PROVE DedupInv'
  OBVIOUS
<1>0. /\ pc \in [Scanners -> Label] /\ sc \in [Scanners -> LocalsType]
      /\ txn \in [Scanners -> WritesType]
  BY DEF TypeInv, TypeOK
<1>a. \A p \in Scanners :
         /\ pc[p] \in Exclusive => lock = p
         /\ pc[p] \in Checked => Duplicates(p) = {}
         /\ txn[p].insert # {} => lock = p
         /\ \A new \in txn[p].insert, id \in DOMAIN signals :
                ~ SameKey(signals[id], new.row)
  BY DEF DedupInv, DedupOK, Conflicts
<1>1. ASSUME NEW p \in Scanners, NEW i \in Instruments, Begin(p, i) PROVE DedupInv'
  <2>1. /\ UNCHANGED <<txn, lock, signals>>
        /\ \A q \in Scanners \ {p} : pc'[q] = pc[q] /\ sc'[q] = sc[q]
    BY <1>0, <1>1 DEF Begin, Goto, dbVars
  <2>2. pc'[p] \in Exclusive => pc[p] \in Exclusive
    BY <1>0, <1>1 DEF Begin, Goto, Exclusive
  <2>3. pc'[p] \in Checked => Duplicates(p)' = {}
    BY <1>0, <1>1 DEF Begin, Goto, Checked
  <2> QED BY <2>1, <2>2, <2>3, LocalStepOK
<1>2. ASSUME NEW p \in Scanners, EndWithoutSignal(p) PROVE DedupInv'
  <2>1. /\ UNCHANGED <<txn, lock, signals>>
        /\ \A q \in Scanners \ {p} : pc'[q] = pc[q] /\ sc'[q] = sc[q]
    BY <1>0, <1>2 DEF EndWithoutSignal, Finish, Goto, dbVars
  <2>2. pc'[p] \in Exclusive => pc[p] \in Exclusive
    BY <1>0, <1>2 DEF EndWithoutSignal, Finish, Goto, Exclusive
  <2>3. pc'[p] \in Checked => Duplicates(p)' = {}
    BY <1>0, <1>2 DEF EndWithoutSignal, Finish, Goto, Checked
  <2> QED BY <2>1, <2>2, <2>3, LocalStepOK
<1>3. ASSUME NEW p \in Scanners, NEW bar \in 0 .. clock, LoadFrame(p, bar) PROVE DedupInv'
  <2>1. /\ UNCHANGED <<txn, lock, signals>>
        /\ \A q \in Scanners \ {p} : pc'[q] = pc[q] /\ sc'[q] = sc[q]
    BY <1>0, <1>3 DEF LoadFrame, Goto, dbVars
  <2>2. pc'[p] \in Exclusive => pc[p] \in Exclusive
    BY <1>0, <1>3 DEF LoadFrame, Goto, Exclusive
  <2>3. pc'[p] \in Checked => Duplicates(p)' = {}
    BY <1>0, <1>3 DEF LoadFrame, Goto, Checked
  <2> QED BY <2>1, <2>2, <2>3, LocalStepOK
<1>4. ASSUME NEW p \in Scanners, NEW b \in BOOLEAN, ShadowAudit(p, b) PROVE DedupInv'
  <2>1. AuditAdd(p, txn[p], "REGIME_SHADOW", b, NoSignal) /\ UNCHANGED signals
    BY <1>4 DEF ShadowAudit, dbVars
  <2>2. \A q \in Scanners \ {p} : pc'[q] = pc[q] /\ sc'[q] = sc[q]
    BY <1>0, <1>4 DEF ShadowAudit, Goto
  <2>3. pc'[p] \in Checked => Duplicates(p)' = {}
    BY <1>0, <1>4 DEF ShadowAudit, Goto, Checked
  <2>4. txn[p] \in WritesType
    BY <1>0
  <2> QED BY <1>a, <2>1, <2>2, <2>3, <2>4, AuditStepOK
<1>5. ASSUME NEW p \in Scanners, SkipStrategy(p) PROVE DedupInv'
  <2>1. /\ UNCHANGED <<txn, lock, signals>>
        /\ \A q \in Scanners \ {p} : pc'[q] = pc[q] /\ sc'[q] = sc[q]
    BY <1>0, <1>5 DEF SkipStrategy, Goto, dbVars
  <2>2. pc'[p] \in Exclusive => pc[p] \in Exclusive
    BY <1>0, <1>5 DEF SkipStrategy, Goto, Exclusive
  <2>3. pc'[p] \in Checked => Duplicates(p)' = {}
    BY <1>0, <1>5 DEF SkipStrategy, Goto, Checked
  <2> QED BY <2>1, <2>2, <2>3, LocalStepOK
<1>6. ASSUME NEW p \in Scanners, NEW b \in BOOLEAN, GenerateCandidate(p, b) PROVE DedupInv'
  <2>1. /\ UNCHANGED <<txn, lock, signals>>
        /\ \A q \in Scanners \ {p} : pc'[q] = pc[q] /\ sc'[q] = sc[q]
    BY <1>0, <1>6 DEF GenerateCandidate, Goto, dbVars
  <2>2. pc'[p] \in Exclusive => pc[p] \in Exclusive
    BY <1>0, <1>6 DEF GenerateCandidate, Goto, Exclusive
  <2>3. pc'[p] \in Checked => Duplicates(p)' = {}
    BY <1>0, <1>6 DEF GenerateCandidate, Goto, Checked
  <2> QED BY <2>1, <2>2, <2>3, LocalStepOK
<1>7. ASSUME NEW p \in Scanners, AuditMisaligned(p) PROVE DedupInv'
  <2>1. AuditAdd(p, txn[p], "CANDIDATE", FALSE, NoSignal) /\ UNCHANGED signals
    BY <1>7 DEF AuditMisaligned, dbVars
  <2>2. \A q \in Scanners \ {p} : pc'[q] = pc[q] /\ sc'[q] = sc[q]
    BY <1>0, <1>7 DEF AuditMisaligned, Goto
  <2>3. pc'[p] \in Checked => Duplicates(p)' = {}
    BY <1>0, <1>7 DEF AuditMisaligned, Goto, Checked
  <2>4. txn[p] \in WritesType
    BY <1>0
  <2> QED BY <1>a, <2>1, <2>2, <2>3, <2>4, AuditStepOK
<1>8. ASSUME NEW p \in Scanners, AuditCandidate(p) PROVE DedupInv'
  <2>1. AuditAdd(p, txn[p], "CANDIDATE", TRUE, sc[p].run) /\ UNCHANGED signals
    BY <1>8 DEF AuditCandidate, dbVars
  <2>2. \A q \in Scanners \ {p} : pc'[q] = pc[q] /\ sc'[q] = sc[q]
    BY <1>0, <1>8 DEF AuditCandidate, Goto
  <2>3. pc'[p] \in Checked => Duplicates(p)' = {}
    BY <1>0, <1>8 DEF AuditCandidate, Goto, Checked
  <2>4. txn[p] \in WritesType
    BY <1>0
  <2> QED BY <1>a, <2>1, <2>2, <2>3, <2>4, AuditStepOK
<1>9. ASSUME NEW p \in Scanners, NoCandidate(p) PROVE DedupInv'
  <2>1. /\ UNCHANGED <<txn, lock, signals>>
        /\ \A q \in Scanners \ {p} : pc'[q] = pc[q] /\ sc'[q] = sc[q]
    BY <1>0, <1>9 DEF NoCandidate, Goto, dbVars
  <2>2. pc'[p] \in Exclusive => pc[p] \in Exclusive
    BY <1>0, <1>9 DEF NoCandidate, Goto, Exclusive
  <2>3. pc'[p] \in Checked => Duplicates(p)' = {}
    BY <1>0, <1>9 DEF NoCandidate, Goto, Checked
  <2> QED BY <2>1, <2>2, <2>3, LocalStepOK
<1>10. ASSUME NEW p \in Scanners, Dedup(p) PROVE DedupInv'
  <2>1. /\ UNCHANGED <<txn, lock, signals>>
        /\ \A q \in Scanners \ {p} : pc'[q] = pc[q] /\ sc'[q] = sc[q]
    BY <1>0, <1>10 DEF Dedup, Goto, dbVars
  <2>2. pc'[p] \in Exclusive => pc[p] \in Exclusive
    BY <1>0, <1>10 DEF Dedup, Goto, Exclusive
  <2>3. pc'[p] \in Checked => Duplicates(p)' = {}
    <3>1. CASE Duplicates(p) = {}
      <4>1. sc' = sc /\ signals' = signals
        BY <1>10, <3>1 DEF Dedup, dbVars
      <4> QED BY <3>1, <4>1 DEF Duplicates
    <3>2. CASE Duplicates(p) # {}
      BY <1>0, <1>10, <3>2 DEF Dedup, Goto, Checked
    <3> QED BY <3>1, <3>2
  <2> QED BY <2>1, <2>2, <2>3, LocalStepOK
<1>11. ASSUME NEW p \in Scanners, CountSince(p) PROVE DedupInv'
  <2>1. /\ UNCHANGED <<txn, lock, signals>>
        /\ \A q \in Scanners \ {p} : pc'[q] = pc[q] /\ sc'[q] = sc[q]
    BY <1>0, <1>11 DEF CountSince, Goto, dbVars
  <2>2. pc'[p] \in Exclusive => pc[p] \in Exclusive
    BY <1>0, <1>11 DEF CountSince, Goto, Exclusive
  <2>3. pc'[p] \in Checked => Duplicates(p)' = {}
    <3>1. pc'[p] \in Checked => Duplicates(p) = {}
      BY <1>0, <1>a, <1>11 DEF CountSince, Goto, Checked
    <3>2. /\ sc'[p].inst = sc[p].inst /\ sc'[p].strat = sc[p].strat
          /\ sc'[p].bar = sc[p].bar /\ signals' = signals
      BY <1>0, <1>11 DEF CountSince, Goto, LocalsType, dbVars
    <3> QED BY <3>1, <3>2 DEF Duplicates, SameKey
  <2> QED BY <2>1, <2>2, <2>3, LocalStepOK
<1>12. ASSUME NEW p \in Scanners, GatePass(p) PROVE DedupInv'
  <2>1. AuditAdd(p, txn[p], "GATE", TRUE, sc[p].run) /\ UNCHANGED signals
    BY <1>12 DEF GatePass, dbVars
  <2>2. \A q \in Scanners \ {p} : pc'[q] = pc[q] /\ sc'[q] = sc[q]
    BY <1>0, <1>12 DEF GatePass, Goto
  <2>3. pc'[p] \in Checked => Duplicates(p)' = {}
    <3>1. pc'[p] \in Checked => Duplicates(p) = {}
      BY <1>0, <1>a, <1>12 DEF GatePass, Goto, Checked
    <3>2. sc' = sc /\ signals' = signals
      BY <1>12 DEF GatePass, dbVars
    <3> QED BY <3>1, <3>2 DEF Duplicates
  <2>4. txn[p] \in WritesType
    BY <1>0
  <2> QED BY <1>a, <2>1, <2>2, <2>3, <2>4, AuditStepOK
<1>13. ASSUME NEW p \in Scanners, NEW b \in BOOLEAN, GateFail(p, b) PROVE DedupInv'
  <2> DEFINE d == IF sc[p].guardOk THEN {} ELSE {Registry[sc[p].strat]}
             w == [Insert(p, "REJECTED") EXCEPT !.disable = d]
  <2>1. /\ AuditAdd(p, w, "GATE", FALSE, sc[p].run) /\ UNCHANGED signals
        /\ pc[p] \in Checked
    BY <1>13 DEF GateFail, Checked, dbVars
  <2>2. d \in SUBSET Strategies
    BY <1>13 DEF GateFail, TypeInv, LoopOK, InLoop, Strategies
  <2> HIDE DEF d
  <2>3. Insert(p, "REJECTED") \in WritesType
    BY InsertKeepsRows DEF Status, FinalStatus, TypeInv
  <2>4. w \in WritesType /\ w.insert = Insert(p, "REJECTED").insert
    BY <2>2, <2>3 DEF WritesType
  <2> HIDE DEF w
  <2>5. \A new \in w.insert, id \in DOMAIN signals : ~ SameKey(signals[id], new.row)
    BY <2>1, <2>4, InsertIsFree DEF Status, FinalStatus
  <2>6. /\ pc'[p] \notin Checked
        /\ \A q \in Scanners \ {p} : pc'[q] = pc[q] /\ sc'[q] = sc[q]
    BY <1>0, <1>13 DEF GateFail, Goto, Checked
  <2> QED BY <2>1, <2>4, <2>5, <2>6, AuditStepOK
<1>14. ASSUME NEW p \in Scanners, NEW d \in Decision, LlmAccepts(p, d) PROVE DedupInv'
  <2>1. /\ UNCHANGED <<txn, lock, signals>>
        /\ \A q \in Scanners \ {p} : pc'[q] = pc[q] /\ sc'[q] = sc[q]
    BY <1>0, <1>14 DEF LlmAccepts, Goto, dbVars
  <2>2. pc'[p] \in Exclusive => pc[p] \in Exclusive
    BY <1>0, <1>14 DEF LlmAccepts, Goto, Exclusive
  <2>3. pc'[p] \in Checked => Duplicates(p)' = {}
    <3>1. pc'[p] \in Checked => Duplicates(p) = {}
      BY <1>0, <1>a, <1>14 DEF LlmAccepts, Goto, Checked
    <3>2. /\ sc'[p].inst = sc[p].inst /\ sc'[p].strat = sc[p].strat
          /\ sc'[p].bar = sc[p].bar /\ signals' = signals
      BY <1>0, <1>14 DEF LlmAccepts, Goto, LocalsType, dbVars
    <3> QED BY <3>1, <3>2 DEF Duplicates, SameKey
  <2> QED BY <2>1, <2>2, <2>3, LocalStepOK
<1>15. ASSUME NEW p \in Scanners, NEW d \in Decision, LlmRefuses(p, d) PROVE DedupInv'
  <2> DEFINE s == IF d = "REJECTED" THEN "REJECTED" ELSE "ABSTAINED"
  <2>1. s \in Status
    BY DEF Status, FinalStatus
  <2>2. txn' = [txn EXCEPT ![p] = Insert(p, s)] /\ UNCHANGED <<lock, signals>>
    BY <1>15 DEF LlmRefuses, dbVars
  <2> HIDE DEF s
  <2>3. /\ pc[p] \in Checked /\ pc'[p] = "commit"
        /\ \A q \in Scanners \ {p} : pc'[q] = pc[q] /\ sc'[q] = sc[q]
    BY <1>0, <1>15 DEF LlmRefuses, Goto, Checked
  <2> QED BY <2>1, <2>2, <2>3, InsertStepOK
<1>16. ASSUME NEW p \in Scanners, PostGatePass(p) PROVE DedupInv'
  <2>1. AuditAdd(p, txn[p], "GATE", TRUE, sc[p].run) /\ UNCHANGED signals
    BY <1>16 DEF PostGatePass, dbVars
  <2>2. \A q \in Scanners \ {p} : pc'[q] = pc[q] /\ sc'[q] = sc[q]
    BY <1>0, <1>16 DEF PostGatePass, Goto
  <2>3. pc'[p] \in Checked => Duplicates(p)' = {}
    <3>1. pc'[p] \in Checked => Duplicates(p) = {}
      BY <1>0, <1>a, <1>16 DEF PostGatePass, Goto, Checked
    <3>2. sc' = sc /\ signals' = signals
      BY <1>16 DEF PostGatePass, dbVars
    <3> QED BY <3>1, <3>2 DEF Duplicates
  <2>4. txn[p] \in WritesType
    BY <1>0
  <2> QED BY <1>a, <2>1, <2>2, <2>3, <2>4, AuditStepOK
<1>17. ASSUME NEW p \in Scanners, NEW b \in BOOLEAN, PostGateFail(p, b) PROVE DedupInv'
  <2> DEFINE w == Insert(p, "REJECTED")
  <2>1. /\ AuditAdd(p, w, "GATE", FALSE, sc[p].run) /\ UNCHANGED signals
        /\ pc[p] \in Checked
    BY <1>17 DEF PostGateFail, Checked, dbVars
  <2>2. w \in WritesType
    BY InsertKeepsRows DEF Status, FinalStatus, TypeInv
  <2>3. \A new \in w.insert, id \in DOMAIN signals : ~ SameKey(signals[id], new.row)
    BY <2>1, InsertIsFree DEF Status, FinalStatus
  <2> HIDE DEF w
  <2>4. /\ pc'[p] \notin Checked
        /\ \A q \in Scanners \ {p} : pc'[q] = pc[q] /\ sc'[q] = sc[q]
    BY <1>0, <1>17 DEF PostGateFail, Goto, Checked
  <2> QED BY <2>1, <2>2, <2>3, <2>4, AuditStepOK
<1>18. ASSUME NEW p \in Scanners, Publish(p) PROVE DedupInv'
  <2>1. txn' = [txn EXCEPT ![p] = Insert(p, "PUBLISHED")] /\ UNCHANGED <<lock, signals>>
    BY <1>18 DEF Publish, dbVars
  <2>2. /\ pc[p] \in Checked /\ pc'[p] = "commit"
        /\ \A q \in Scanners \ {p} : pc'[q] = pc[q] /\ sc'[q] = sc[q]
    BY <1>0, <1>18 DEF Publish, Goto, Checked
  <2> QED BY <2>1, <2>2, InsertStepOK DEF Status, OpenStatus
<1>19. ASSUME NEW p \in Scanners, Commit(p) PROVE DedupInv'
  <2>1. Apply(p) /\ EndTxn(p)
    BY <1>19 DEF Commit, Apply
  <2>2. /\ pc'[p] \notin Exclusive
        /\ \A q \in Scanners \ {p} : pc'[q] = pc[q] /\ sc'[q] = sc[q]
    BY <1>0, <1>19 DEF Commit, Finish, Goto, Exclusive
  <2>3. lock # p => KeysKept
    BY <1>a, <2>1, ApplyKeepsKeys
  <2> QED BY <2>1, <2>2, <2>3, EndStepOK
<1>20. ASSUME NEW p \in Scanners, NEW b \in BOOLEAN, Deliver(p, b) PROVE DedupInv'
  <2>1. /\ UNCHANGED <<txn, lock, signals>>
        /\ \A q \in Scanners \ {p} : pc'[q] = pc[q] /\ sc'[q] = sc[q]
    BY <1>0, <1>20 DEF Deliver, Goto, dbVars
  <2>2. pc'[p] \in Exclusive => pc[p] \in Exclusive
    BY <1>0, <1>20 DEF Deliver, Goto, Exclusive
  <2>3. pc'[p] \in Checked => Duplicates(p)' = {}
    BY <1>0, <1>20 DEF Deliver, Goto, Checked
  <2> QED BY <2>1, <2>2, <2>3, LocalStepOK
<1>21. ASSUME NEW p \in Scanners, MarkDelivery(p) PROVE DedupInv'
  <2> DEFINE as == IF sc[p].sent THEN "sent" ELSE "failed"
             m == {[id |-> sc[p].sid, as |-> as]}
             w == [txn[p] EXCEPT !.deliver = m]
  <2>1. /\ AuditAdd(p, w, "DELIVERY", sc[p].sent, sc[p].sid) /\ UNCHANGED signals
        /\ pc'[p] \notin Checked
        /\ \A q \in Scanners \ {p} : pc'[q] = pc[q] /\ sc'[q] = sc[q]
    BY <1>0, <1>21 DEF MarkDelivery, Goto, Checked, dbVars
  <2>2. sc[p].sid \in Nat /\ txn[p] \in WritesType
    BY <1>0 DEF LocalsType
  <2>3. as \in {"sent", "failed"}
    OBVIOUS
  <2> HIDE DEF as
  <2>4. [id |-> sc[p].sid, as |-> as] \in [id : Nat, as : {"sent", "failed"}]
    BY <2>2, <2>3
  <2>5. m \in SUBSET [id : Nat, as : {"sent", "failed"}]
    BY <2>4
  <2> HIDE DEF m
  <2>6. w \in WritesType /\ w.insert = txn[p].insert
    BY <2>2, <2>5 DEF WritesType
  <2> HIDE DEF w
  <2> QED BY <1>a, <2>1, <2>6, AuditStepOK
<1>22. ASSUME NEW p \in Scanners, MarkCommit(p) PROVE DedupInv'
  <2>1. Apply(p) /\ EndTxn(p)
    BY <1>22 DEF MarkCommit, Apply
  <2>2. /\ pc'[p] \notin Exclusive
        /\ \A q \in Scanners \ {p} : pc'[q] = pc[q] /\ sc'[q] = sc[q]
    BY <1>0, <1>22 DEF MarkCommit, Finish, Goto, Exclusive
  <2>3. lock # p => KeysKept
    BY <1>a, <2>1, ApplyKeepsKeys
  <2> QED BY <2>1, <2>2, <2>3, EndStepOK
<1>23. ASSUME NEW p \in Scanners, Abort(p) PROVE DedupInv'
  <2>1. EndTxn(p) /\ UNCHANGED signals
    BY <1>23 DEF Abort, dbVars
  <2>2. /\ pc'[p] \notin Exclusive
        /\ \A q \in Scanners \ {p} : pc'[q] = pc[q] /\ sc'[q] = sc[q]
    BY <1>0, <1>23 DEF Abort, Finish, Goto, Exclusive
  <2> QED BY <2>1, <2>2, SameSignalsKeepKeys, EndStepOK
<1>b. ASSUME UNCHANGED <<pc, sc, txn, lock>>, KeysKept PROVE DedupInv'
  BY <1>b, UndisturbedStaysOK DEF DedupInv, Undisturbed
<1>24. ASSUME NEW id \in DOMAIN signals, NEW status \in Status, Track(id, status)
       PROVE DedupInv'
  <2>1. /\ signals' = [signals EXCEPT ![id].status = status]
        /\ UNCHANGED <<pc, sc, txn, lock>>
    BY <1>24 DEF Track
  <2>2. \A k \in DOMAIN signals : signals[k] \in SignalRow
    BY DEF TypeInv, TypeOK
  <2>3. \A k \in DOMAIN signals : SameKey(signals'[k], signals[k])
    BY <2>1, <2>2 DEF SameKey, SignalRow
  <2>4. KeysKept
    BY <2>1, <2>3 DEF KeysKept
  <2> QED BY <1>b, <2>1, <2>4
<1>25. ASSUME NEW s \in Strategies, Toggle(s) PROVE DedupInv'
  BY <1>b, <1>25, SameSignalsKeepKeys DEF Toggle
<1>26. CASE Tick
  BY <1>b, <1>26, SameSignalsKeepKeys DEF Tick, dbVars
<1>27. CASE UNCHANGED vars
  BY <1>b, <1>27, SameSignalsKeepKeys DEF vars
<1> QED
  BY <1>1, <1>2, <1>3, <1>4, <1>5, <1>6, <1>7, <1>8, <1>9, <1>10, <1>11, <1>12,
     <1>13, <1>14, <1>15, <1>16, <1>17, <1>18, <1>19, <1>20, <1>21, <1>22,
     <1>23, <1>24, <1>25, <1>26, <1>27 DEF Next, Step

-----------------------------------------------------------------------------
(***************************************************************************)
(* What a run leaves behind.  The number of a run is its own for ever, so  *)
(* is the signal it inserts; the rows of its open transaction say how far  *)
(* it came; its message waits for its COMMIT; and the daily count it read  *)
(* can only have become smaller, because it holds the chain lock.          *)
(***************************************************************************)

PreCommit == {"frame", "shadow", "strategy", "audit", "dedup", "count", "gate",
              "llm", "postgate", "publish", "commit"}
Clean == {"idle", "frame", "shadow", "deliver", "mark"}
BeforeCandidate == {"frame", "shadow", "strategy", "audit"}
BeforeGate == {"dedup", "count", "gate"}
BeforeSecondGate == {"llm", "postgate"}
Counted == {"gate", "llm", "postgate", "publish"}
Refused == {"REJECTED", "ABSTAINED"}

\* The tables as arguments: what a later state says of an earlier table.
GateRowsIn(S, id, ok) == {r \in S : r.stage = "GATE" /\ r.sid = id /\ r.ok = ok}
NoTrail(S, id) == \A r \in S : r.sid = id => r.stage = "DELIVERY"
Passed(S, id, n) ==
    /\ \E r \in S : r.stage = "CANDIDATE" /\ r.ok /\ r.sid = id
    /\ IsFiniteSet(GateRowsIn(S, id, TRUE))
    /\ Cardinality(GateRowsIn(S, id, TRUE)) = n
    /\ GateRowsIn(S, id, FALSE) = {}
GatesNeeded == IF LlmEnabled THEN 2 ELSE 1

PublishedOn(S, i, day) ==
    {id \in DOMAIN S : S[id].inst = i /\ S[id].status = "PUBLISHED"
                       /\ Day(S[id].bar) = day}
OpenOn(S, i, day) == {id \in PublishedOn(S, i, day) : S[id].day = day}

\* Which rows and which signal are the run's own.
NumberOK(p) ==
    /\ sc[p].run <= runs
    /\ pc[p] = "idle" <=> sc[p].run = 0
    /\ pc[p] \in Clean => txn[p].rows = {}
    /\ pc[p] \in PreCommit =>
          sc[p].run \notin DOMAIN signals /\ NoTrail(audit, sc[p].run)
    /\ \A r \in txn[p].rows : r.stage # "DELIVERY" =>
          pc[p] \in PreCommit /\ r.sid \in {NoSignal, sc[p].run}
    /\ \A new \in txn[p].insert :
          /\ pc[p] = "commit" /\ new.id = sc[p].run
          /\ new.row.status = "PUBLISHED" \/ new.row.status \in Refused

\* How far the run came, by the rows of its transaction.
TrailOK(p) ==
    /\ pc[p] \in BeforeCandidate => NoTrail(txn[p].rows, sc[p].run)
    /\ pc[p] \in BeforeGate => Passed(txn[p].rows, sc[p].run, 0)
    /\ pc[p] \in BeforeSecondGate => LlmEnabled /\ Passed(txn[p].rows, sc[p].run, 1)
    /\ pc[p] = "publish" => Passed(txn[p].rows, sc[p].run, GatesNeeded)
    /\ \A new \in txn[p].insert : new.row.status = "PUBLISHED" =>
          Passed(txn[p].rows, sc[p].run, GatesNeeded)

\* A message belongs to the run's own signal and waits for its COMMIT.
MessageOK(p) ==
    /\ pc[p] \in PreCommit \ {"commit"} => ~ sc[p].message
    /\ sc[p].message => sc[p].sid = sc[p].run
    /\ pc[p] = "commit" /\ sc[p].message =>
          /\ txn[p].insert # {}
          /\ \A new \in txn[p].insert : new.row.status = "PUBLISHED"
    /\ pc[p] = "deliver" => /\ sc[p].message /\ sc[p].sid \in DOMAIN signals
                            /\ signals[sc[p].sid].status \notin Refused

\* There is room for one more signal on the day of the run.
CapOK(p) ==
    /\ pc[p] \in Counted =>
          Cardinality(PublishedOn(signals, sc[p].inst, Day(sc[p].now))) <= sc[p].today
    /\ pc[p] \in Counted \ {"gate"} => sc[p].today < MaxPerDay
    /\ \A new \in txn[p].insert : new.row.status = "PUBLISHED" =>
          Cardinality(PublishedOn(signals, new.row.inst, new.row.day)) < MaxPerDay

RunOK(p) == NumberOK(p) /\ TrailOK(p) /\ MessageOK(p) /\ CapOK(p)

Distinct ==
    \A p, q \in Scanners : p # q /\ sc[p].run = sc[q].run => sc[p].run = 0

TablesInv ==
    /\ \A id \in DOMAIN signals : 0 < id /\ id <= runs
    /\ \A r \in audit : r.stage # "DELIVERY" => r.sid <= runs
    /\ \A id \in DOMAIN signals : signals[id].status \notin Refused =>
          Passed(audit, id, GatesNeeded)
    /\ \A m \in chat : /\ m[1] = m[2] /\ m[1] \in DOMAIN signals
                       /\ signals[m[1]].status \notin Refused
    /\ \A i \in Instruments, day \in Nat :
          Cardinality(OpenOn(signals, i, day)) <= MaxPerDay

ScanInv == (\A p \in Scanners : RunOK(p)) /\ Distinct /\ TablesInv

\* A gate row that let the candidate through is one more; the CANDIDATE row
\* starts the trail.
LEMMA GateAddsOne ==
    ASSUME NEW S, NEW id, NEW n \in Nat, Passed(S, id, n),
           NEW r, r \notin S, r.stage = "GATE", r.ok = TRUE, r.sid = id
    PROVE  Passed(S \cup {r}, id, n + 1)
<1> DEFINE G == GateRowsIn(S, id, TRUE)
<1>1. GateRowsIn(S \cup {r}, id, TRUE) = G \cup {r} /\ r \notin G
  BY DEF GateRowsIn
<1>2. IsFiniteSet(G) /\ Cardinality(G) = n
  BY DEF Passed
<1>3. IsFiniteSet(G \cup {r}) /\ Cardinality(G \cup {r}) = n + 1
  BY <1>1, <1>2, FS_AddElement
<1>4. GateRowsIn(S \cup {r}, id, FALSE) = {}
  BY DEF Passed, GateRowsIn
<1> QED BY <1>1, <1>3, <1>4 DEF Passed

LEMMA CandidateStarts ==
    ASSUME NEW S, NEW id, NoTrail(S, id),
           NEW r, r.stage = "CANDIDATE", r.ok = TRUE, r.sid = id
    PROVE  Passed(S \cup {r}, id, 0)
<1>1. /\ GateRowsIn(S \cup {r}, id, TRUE) = {}
      /\ GateRowsIn(S \cup {r}, id, FALSE) = {}
  BY DEF GateRowsIn, NoTrail
<1> QED BY <1>1, FS_EmptySet DEF Passed

\* Rows of other signals do not disturb a trail, and a new signal brings its
\* whole trail with it.
LEMMA TrailKept ==
    ASSUME NEW S, NEW T, NEW id, NEW n, Passed(S, id, n), NoTrail(T, id)
    PROVE  Passed(S \cup T, id, n)
<1>1. \A ok \in BOOLEAN : GateRowsIn(S \cup T, id, ok) = GateRowsIn(S, id, ok)
  BY DEF GateRowsIn, NoTrail
<1> QED BY <1>1 DEF Passed

\* Fewer published signals, fewer places taken.
LEMMA CountShrinks ==
    ASSUME NEW S, NEW T, IsFiniteSet(S), T \subseteq S
    PROVE  /\ Cardinality(T) \in Nat /\ Cardinality(S) \in Nat
           /\ Cardinality(T) <= Cardinality(S) /\ IsFiniteSet(T)
  BY FS_Subset, FS_CardinalityType

LEMMA PublishedFinite ==
    ASSUME TypeInv, NEW i, NEW day
    PROVE  /\ IsFiniteSet(PublishedOn(signals, i, day))
           /\ Cardinality(PublishedOn(signals, i, day)) \in Nat
<1>1. PublishedOn(signals, i, day) \subseteq DOMAIN signals
  BY DEF PublishedOn
<1> QED BY <1>1, CountShrinks DEF TypeInv, LoopOK

\* Only scanner p moves.
OthersStay(p) ==
    \A q \in Scanners \ {p} : pc'[q] = pc[q] /\ sc'[q] = sc[q] /\ txn'[q] = txn[q]

\* What the step of another scanner may do to what scanner q relies on.
LEMMA OthersRunOK ==
    ASSUME TypeInv, ScanInv, NEW p \in Scanners, NEW q \in Scanners, q # p,
           pc'[q] = pc[q], sc'[q] = sc[q], txn'[q] = txn[q],
           runs' \in Nat, runs <= runs',
           \A r \in audit' \ audit :
               r.stage # "DELIVERY" => r.sid \in {NoSignal, sc[p].run},
           DOMAIN signals \subseteq DOMAIN signals',
           DOMAIN signals' \subseteq DOMAIN signals \cup {sc[p].run},
           \A id \in DOMAIN signals :
               signals'[id].status \in Refused => signals[id].status \in Refused,
           \A i, day : \/ PublishedOn(signals', i, day) \subseteq PublishedOn(signals, i, day)
                       \/ pc[q] \notin Counted /\ txn[q].insert = {}
    PROVE  RunOK(q)'
<1>1. /\ RunOK(q) /\ sc[q].run \in Nat /\ sc[p].run \in Nat /\ runs \in Nat
      /\ sc[q].run = sc[p].run => sc[q].run = 0
  BY DEF ScanInv, Distinct, TypeInv, TypeOK, LocalsType
<1>2. NumberOK(q)'
  <2>1. pc[q] \in PreCommit => sc[q].run # 0
    BY <1>1 DEF RunOK, NumberOK, PreCommit
  <2>2. pc[q] \in PreCommit =>
            sc[q].run \notin DOMAIN signals' /\ NoTrail(audit', sc[q].run)
    BY <1>1, <2>1 DEF RunOK, NumberOK, NoTrail, NoSignal
  <2> QED BY <1>1, <2>2 DEF RunOK, NumberOK
<1>3. TrailOK(q)'
  BY <1>1 DEF RunOK, TrailOK
<1>4. MessageOK(q)'
  BY <1>1 DEF RunOK, MessageOK
<1>5. CapOK(q)'
  <2>1. CASE pc[q] \notin Counted /\ txn[q].insert = {}
    BY <2>1 DEF CapOK
  <2>2. CASE \A i, day : PublishedOn(signals', i, day) \subseteq PublishedOn(signals, i, day)
    <3>1. \A i, day : /\ Cardinality(PublishedOn(signals', i, day)) \in Nat
                      /\ Cardinality(PublishedOn(signals, i, day)) \in Nat
                      /\ Cardinality(PublishedOn(signals', i, day))
                           <= Cardinality(PublishedOn(signals, i, day))
      BY <2>2, PublishedFinite, CountShrinks
    <3>2. sc[q].today \in Nat /\ MaxPerDay \in Nat
      BY LimitsAssumption DEF TypeInv, TypeOK, LocalsType
    <3> QED BY <1>1, <3>1, <3>2 DEF RunOK, CapOK
  <2> QED BY <2>1, <2>2
<1> QED BY <1>2, <1>3, <1>4, <1>5 DEF RunOK

\* Most steps of a run change neither the tables nor the chat.
LEMMA QuietStepOK ==
    ASSUME TypeInv, ScanInv, NEW p \in Scanners, OthersStay(p),
           UNCHANGED <<runs, audit, signals, chat>>,
           sc'[p].run \in {sc[p].run, 0}, RunOK(p)'
    PROVE  ScanInv'
<1>1. ASSUME NEW q \in Scanners PROVE RunOK(q)'
  <2>1. CASE q = p
    BY <2>1
  <2>2. CASE q # p
    <3>1. runs \in Nat
      BY DEF TypeInv, TypeOK
    <3> QED BY <2>2, <3>1, OthersRunOK DEF OthersStay
  <2> QED BY <2>1, <2>2
<1>2. Distinct'
  BY DEF ScanInv, Distinct, OthersStay
<1>3. TablesInv'
  BY DEF ScanInv, TablesInv
<1> QED BY <1>1, <1>2, <1>3 DEF ScanInv

\* The row a step of AuditRepo.add writes is a new one.
LEMMA AuditAddRow ==
    ASSUME TypeInv, ChainInv, NEW p \in Scanners, NEW writes \in WritesType,
           writes.rows = txn[p].rows, NEW stage, NEW ok, NEW sid,
           AuditAdd(p, writes, stage, ok, sid)
    PROVE  /\ \A q \in Scanners \ {p} : txn'[q] = txn[q]
           /\ txn'[p].insert = writes.insert
           /\ \E r : /\ r \notin txn[p].rows /\ r.stage = stage /\ r.ok = ok /\ r.sid = sid
                     /\ txn'[p].rows = txn[p].rows \cup {r}
<1> DEFINE r == NextRow(p, stage, ok, sid)
<1>1. r.id = lastId + 1 /\ r.stage = stage /\ r.ok = ok /\ r.sid = sid
  BY DEF NextRow
<1>2. \A s \in txn[p].rows : s.id \in Nat /\ s.id <= lastId
  BY DEF ChainInv, WellChained, Visible
<1>3. r \notin txn[p].rows
  <2>1. lastId \in Nat
    BY DEF ChainInv
  <2> HIDE DEF r
  <2> QED BY <1>1, <1>2, <2>1
<1>4. txn' = [txn EXCEPT ![p] = [writes EXCEPT !.rows = @ \cup {r}]]
  BY DEF AuditAdd
<1> HIDE DEF r
<1>5. /\ txn'[p].rows = txn[p].rows \cup {r} /\ txn'[p].insert = writes.insert
      /\ \A q \in Scanners \ {p} : txn'[q] = txn[q]
  BY <1>4 DEF TypeInv, TypeOK, WritesType
<1> QED BY <1>1, <1>3, <1>5

\* A step before the COMMIT that writes nothing.
LEMMA LocalRunOK ==
    ASSUME TypeInv, ScanInv, NEW p \in Scanners, OthersStay(p),
           UNCHANGED <<runs, audit, signals, chat, txn>>,
           pc[p] \in PreCommit \ {"commit"}, pc'[p] \in PreCommit \ {"publish"},
           sc'[p].run = sc[p].run, sc'[p].message = sc[p].message,
           pc'[p] \in Clean => pc[p] \in Clean,
           pc'[p] \in BeforeCandidate => pc[p] \in BeforeCandidate,
           pc'[p] \in BeforeGate => pc[p] \in BeforeGate,
           pc'[p] \in BeforeSecondGate => pc[p] \in BeforeSecondGate,
           pc'[p] \in Counted =>
               Cardinality(PublishedOn(signals, sc'[p].inst, Day(sc'[p].now))) <= sc'[p].today,
           pc'[p] \in Counted \ {"gate"} => sc'[p].today < MaxPerDay
    PROVE  ScanInv'
<1>1. RunOK(p) /\ ~ sc[p].message /\ txn[p].insert = {}
  BY DEF ScanInv, RunOK, MessageOK, NumberOK
<1>2. NumberOK(p)'
  BY <1>1 DEF RunOK, NumberOK, PreCommit
<1>3. TrailOK(p)'
  BY <1>1 DEF RunOK, TrailOK
<1>4. MessageOK(p)'
  BY <1>1 DEF MessageOK, PreCommit
<1>5. CapOK(p)'
  BY <1>1 DEF CapOK
<1> QED BY <1>2, <1>3, <1>4, <1>5, QuietStepOK DEF RunOK

\* A step before the COMMIT that writes one audit row and goes on.
LEMMA AuditRunOK ==
    ASSUME TypeInv, ChainInv, ScanInv, NEW p \in Scanners,
           NEW stage \in {"REGIME_SHADOW", "CANDIDATE", "GATE"}, NEW ok \in BOOLEAN,
           NEW sid \in {NoSignal, sc[p].run}, AuditAdd(p, txn[p], stage, ok, sid),
           \A q \in Scanners \ {p} : pc'[q] = pc[q] /\ sc'[q] = sc[q],
           UNCHANGED <<runs, audit, signals, chat>>,
           pc[p] \in PreCommit \ {"commit"}, pc'[p] \in PreCommit \ (Clean \cup {"commit"}),
           sc'[p].run = sc[p].run, sc'[p].message = sc[p].message,
           \A r : /\ r \notin txn[p].rows /\ r.stage = stage /\ r.ok = ok /\ r.sid = sid
                  /\ txn'[p].rows = txn[p].rows \cup {r} /\ txn'[p].insert = {}
                  => TrailOK(p)',
           pc'[p] \in Counted => pc[p] \in Counted /\ sc'[p] = sc[p],
           pc'[p] \in Counted \ {"gate"} => sc'[p].today < MaxPerDay
    PROVE  ScanInv'
<1>1. /\ RunOK(p) /\ ~ sc[p].message /\ txn[p].insert = {}
      /\ txn[p] \in WritesType
  BY DEF ScanInv, RunOK, MessageOK, NumberOK, TypeInv, TypeOK
<1>2. /\ OthersStay(p) /\ txn'[p].insert = {}
      /\ \E r : /\ r \notin txn[p].rows /\ r.stage = stage /\ r.ok = ok /\ r.sid = sid
                /\ txn'[p].rows = txn[p].rows \cup {r}
  BY <1>1, AuditAddRow DEF OthersStay
<1>3. PICK r : /\ r \notin txn[p].rows /\ r.stage = stage /\ r.ok = ok /\ r.sid = sid
               /\ txn'[p].rows = txn[p].rows \cup {r}
  BY <1>2
<1>4. NumberOK(p)'
  <2>1. \A s \in txn'[p].rows : s.stage # "DELIVERY" => s.sid \in {NoSignal, sc[p].run}
    BY <1>1, <1>3 DEF RunOK, NumberOK
  <2>2. pc'[p] # "idle" /\ pc[p] # "idle" /\ pc'[p] \notin Clean
    BY DEF PreCommit, Clean
  <2> QED BY <1>1, <1>2, <2>1, <2>2 DEF RunOK, NumberOK
<1>5. TrailOK(p)'
  BY <1>2, <1>3
<1>6. MessageOK(p)'
  BY <1>1 DEF MessageOK, PreCommit
<1>7. CapOK(p)'
  BY <1>1, <1>2 DEF RunOK, CapOK
<1> QED BY <1>2, <1>4, <1>5, <1>6, <1>7, QuietStepOK DEF RunOK

\* The last step before the COMMIT of a run that checked for duplicates: it
\* inserts the signal, with or without a last audit row.
LEMMA InsertRunOK ==
    ASSUME TypeInv, ScanInv, NEW p \in Scanners,
           pc[p] \in Counted, pc'[p] = "commit", OthersStay(p),
           UNCHANGED <<runs, audit, signals, chat>>,
           sc'[p].run = sc[p].run, sc'[p].sid = sc[p].run,
           NEW status \in {"PUBLISHED"} \cup Refused,
           txn'[p].insert = {[id |-> sc[p].run, row |-> NewSignal(p, status)]},
           \A r \in txn'[p].rows \ txn[p].rows : r.sid = sc[p].run,
           status = "PUBLISHED" => pc[p] = "publish" /\ txn'[p].rows = txn[p].rows,
           sc'[p].message <=> status = "PUBLISHED"
    PROVE  ScanInv'
<1>1. RunOK(p) /\ ~ sc[p].message /\ sc[p] \in LocalsType
  BY DEF ScanInv, RunOK, MessageOK, NumberOK, TypeInv, TypeOK, PreCommit, Counted
<1> DEFINE new == [id |-> sc[p].run, row |-> NewSignal(p, status)]
<1>2. /\ new.id = sc[p].run /\ new.row.status = status /\ new.row.inst = sc[p].inst
      /\ new.row.day = Day(sc[p].now) /\ txn'[p].insert = {new}
  BY DEF NewSignal
<1> HIDE DEF new
<1>3. NumberOK(p)'
  BY <1>1, <1>2 DEF RunOK, NumberOK, PreCommit, Counted, Clean
<1>4. TrailOK(p)'
  BY <1>1, <1>2 DEF RunOK, TrailOK, BeforeCandidate, BeforeGate, BeforeSecondGate, Refused
<1>5. MessageOK(p)'
  BY <1>1, <1>2 DEF MessageOK
<1>6. CapOK(p)'
  <2>1. status = "PUBLISHED" =>
          /\ Cardinality(PublishedOn(signals, sc[p].inst, Day(sc[p].now))) <= sc[p].today
          /\ sc[p].today < MaxPerDay
    BY <1>1 DEF RunOK, CapOK, Counted
  <2>2. /\ sc[p].today \in Nat /\ MaxPerDay \in Nat
        /\ Cardinality(PublishedOn(signals, sc[p].inst, Day(sc[p].now))) \in Nat
    BY <1>1, LimitsAssumption, PublishedFinite DEF LocalsType
  <2> QED BY <1>2, <2>1, <2>2 DEF CapOK, Counted, Refused
<1> QED BY <1>3, <1>4, <1>5, <1>6, QuietStepOK DEF RunOK

\* T holds the rows of S, with their key, day and status.
RowsKept(S, T) ==
    \A id \in DOMAIN S :
        /\ id \in DOMAIN T /\ SameKey(T[id], S[id])
        /\ T[id].status = S[id].status /\ T[id].day = S[id].day

\* What COMMIT does to the signals: it adds the run's own, and moves the others
\* in nothing but the recorded delivery.
LEMMA ApplyShape ==
    ASSUME TypeInv, ScanInv, NEW p \in Scanners, Apply(p)
    PROVE  /\ NewIds(p) \subseteq {sc[p].run} /\ NewIds(p) \cap DOMAIN signals = {}
           /\ DOMAIN signals' = DOMAIN signals \cup NewIds(p)
           /\ RowsKept(signals, signals')
           /\ \A id \in NewIds(p) : \E new \in txn[p].insert :
                 new.id = id /\ signals'[id] = new.row
<1>1. NewIds(p) \subseteq {sc[p].run} /\ NewIds(p) \cap DOMAIN signals = {}
  BY DEF ScanInv, RunOK, NumberOK, NewIds, PreCommit
<1>2. /\ DOMAIN signals' = DOMAIN signals \cup NewIds(p)
      /\ \A id \in DOMAIN signals' : signals'[id] =
            IF id \in NewIds(p)
            THEN (CHOOSE new \in txn[p].insert : new.id = id).row
            ELSE IF \E d \in txn[p].deliver : d.id = id
                 THEN [signals[id] EXCEPT !.delivery =
                          (CHOOSE d \in txn[p].deliver : d.id = id).as]
                 ELSE signals[id]
  BY DEF Apply, SignalsAfter
<1>3. ASSUME NEW id \in DOMAIN signals
      PROVE  /\ SameKey(signals'[id], signals[id])
             /\ signals'[id].status = signals[id].status
             /\ signals'[id].day = signals[id].day
  <2>1. id \notin NewIds(p) /\ signals[id] \in SignalRow
    BY <1>1 DEF TypeInv, TypeOK
  <2> QED BY <1>2, <2>1 DEF SameKey, SignalRow
<1>b. RowsKept(signals, signals')
  BY <1>2, <1>3 DEF RowsKept
<1>4. ASSUME NEW id \in NewIds(p)
      PROVE  \E new \in txn[p].insert : new.id = id /\ signals'[id] = new.row
  <2>1. \E new \in txn[p].insert : new.id = id
    BY DEF NewIds
  <2> QED BY <1>2, <2>1
<1> QED BY <1>1, <1>2, <1>b, <1>4

\* The daily limit survives a COMMIT: a signal is added only to a day with room.
LEMMA ApplyKeepsCap ==
    ASSUME TypeInv, ScanInv, NEW p \in Scanners, Apply(p),
           NEW i \in Instruments, NEW day \in Nat
    PROVE  Cardinality(OpenOn(signals', i, day)) <= MaxPerDay
<1>1. /\ DOMAIN signals' = DOMAIN signals \cup NewIds(p)
      /\ NewIds(p) \subseteq {sc[p].run} /\ NewIds(p) \cap DOMAIN signals = {}
      /\ RowsKept(signals, signals')
      /\ \A id \in NewIds(p) : \E new \in txn[p].insert :
            new.id = id /\ signals'[id] = new.row
  BY ApplyShape
<1>2. OpenOn(signals', i, day) \cap DOMAIN signals = OpenOn(signals, i, day)
  BY <1>1 DEF OpenOn, PublishedOn, RowsKept, SameKey
<1>3. /\ Cardinality(OpenOn(signals, i, day)) <= MaxPerDay /\ MaxPerDay \in Nat
      /\ OpenOn(signals, i, day) \subseteq PublishedOn(signals, i, day)
  BY LimitsAssumption DEF ScanInv, TablesInv, OpenOn
<1>4. CASE OpenOn(signals', i, day) \subseteq DOMAIN signals
  BY <1>2, <1>3, <1>4
<1>5. CASE ~ (OpenOn(signals', i, day) \subseteq DOMAIN signals)
  <2>1. /\ sc[p].run \in NewIds(p)
        /\ OpenOn(signals', i, day) \subseteq OpenOn(signals, i, day) \cup {sc[p].run}
        /\ sc[p].run \in OpenOn(signals', i, day)
    BY <1>1, <1>2, <1>5 DEF OpenOn, PublishedOn
  <2>2. PICK new \in txn[p].insert : new.id = sc[p].run /\ signals'[sc[p].run] = new.row
    BY <1>1, <2>1
  <2>3. new.row.status = "PUBLISHED" /\ new.row.inst = i /\ new.row.day = day
    BY <2>1, <2>2 DEF OpenOn, PublishedOn
  <2>4. Cardinality(PublishedOn(signals, i, day)) < MaxPerDay
    BY <2>3 DEF ScanInv, RunOK, CapOK
  <2>5. /\ IsFiniteSet(OpenOn(signals, i, day))
        /\ Cardinality(OpenOn(signals, i, day)) \in Nat
        /\ Cardinality(PublishedOn(signals, i, day)) \in Nat
        /\ Cardinality(OpenOn(signals, i, day)) <= Cardinality(PublishedOn(signals, i, day))
    BY <1>3, PublishedFinite, CountShrinks
  <2>6. /\ IsFiniteSet(OpenOn(signals, i, day) \cup {sc[p].run})
        /\ sc[p].run \notin OpenOn(signals, i, day)
        /\ Cardinality(OpenOn(signals, i, day) \cup {sc[p].run})
             = Cardinality(OpenOn(signals, i, day)) + 1
    <3>1. sc[p].run \notin OpenOn(signals, i, day)
      BY <1>1, <2>1 DEF OpenOn, PublishedOn
    <3> QED BY <2>5, <3>1, FS_AddElement
  <2>7. /\ Cardinality(OpenOn(signals', i, day)) \in Nat
        /\ Cardinality(OpenOn(signals', i, day))
             <= Cardinality(OpenOn(signals, i, day) \cup {sc[p].run})
    BY <2>1, <2>6, CountShrinks
  <2> QED BY <1>3, <2>4, <2>5, <2>6, <2>7
<1> QED BY <1>4, <1>5

\* The audit trail survives a COMMIT: the signal comes with its own rows.
LEMMA ApplyKeepsTrails ==
    ASSUME TypeInv, ScanInv, NEW p \in Scanners, Apply(p),
           NEW id \in DOMAIN signals', signals'[id].status \notin Refused
    PROVE  Passed(audit', id, GatesNeeded)
<1>1. /\ DOMAIN signals' = DOMAIN signals \cup NewIds(p)
      /\ NewIds(p) \subseteq {sc[p].run} /\ NewIds(p) \cap DOMAIN signals = {}
      /\ \A k \in DOMAIN signals : signals'[k].status = signals[k].status
      /\ \A k \in NewIds(p) : \E new \in txn[p].insert :
            new.id = k /\ signals'[k] = new.row
  BY ApplyShape DEF RowsKept
<1>2. audit' = audit \cup txn[p].rows /\ RunOK(p)
  BY DEF Apply, ScanInv
<1>3. CASE id \in NewIds(p)
  <2>1. PICK new \in txn[p].insert : new.id = id /\ signals'[id] = new.row
    BY <1>1, <1>3
  <2>2. id = sc[p].run /\ pc[p] = "commit" /\ new.row.status = "PUBLISHED"
    BY <1>2, <2>1 DEF RunOK, NumberOK
  <2>3. Passed(txn[p].rows, id, GatesNeeded) /\ NoTrail(audit, id)
    BY <1>2, <2>2 DEF RunOK, NumberOK, TrailOK, PreCommit
  <2>4. Passed(txn[p].rows \cup audit, id, GatesNeeded)
    BY <2>3, TrailKept
  <2>5. txn[p].rows \cup audit = audit'
    BY <1>2
  <2> QED BY <2>4, <2>5
<1>4. CASE id \in DOMAIN signals
  <2>1. Passed(audit, id, GatesNeeded) /\ 0 < id
    BY <1>1, <1>4 DEF ScanInv, TablesInv
  <2>2. NoTrail(txn[p].rows, id)
    <3>1. id \in Nat
      BY <1>4 DEF TypeInv, TypeOK
    <3> QED BY <1>2, <1>4, <2>1, <3>1 DEF RunOK, NumberOK, NoTrail, NoSignal
  <2> QED BY <1>2, <2>1, <2>2, TrailKept
<1> QED BY <1>1, <1>3, <1>4

\* COMMIT keeps everything that is said of the tables.
LEMMA ApplyKeepsTables ==
    ASSUME TypeInv, ScanInv, NEW p \in Scanners, Apply(p), UNCHANGED <<runs, chat>>
    PROVE  TablesInv'
<1>1. /\ DOMAIN signals' = DOMAIN signals \cup NewIds(p)
      /\ NewIds(p) \subseteq {sc[p].run} /\ NewIds(p) \cap DOMAIN signals = {}
      /\ \A id \in DOMAIN signals : signals'[id].status = signals[id].status
  BY ApplyShape DEF RowsKept
<1>2. /\ RunOK(p) /\ TablesInv /\ sc[p].run \in Nat /\ runs \in Nat
      /\ audit' = audit \cup txn[p].rows
      /\ \A id \in NewIds(p) : pc[p] = "commit"
  BY DEF ScanInv, Apply, TypeInv, TypeOK, LocalsType, RunOK, NumberOK, NewIds
<1>3. \A id \in DOMAIN signals' : 0 < id /\ id <= runs'
  BY <1>1, <1>2 DEF RunOK, NumberOK, TablesInv
<1>4. \A r \in audit' : r.stage # "DELIVERY" => r.sid <= runs'
  BY <1>2 DEF RunOK, NumberOK, TablesInv, NoSignal
<1>5. \A m \in chat' : /\ m[1] = m[2] /\ m[1] \in DOMAIN signals'
                       /\ signals'[m[1]].status \notin Refused
  BY <1>1, <1>2 DEF TablesInv
<1> QED BY <1>3, <1>4, <1>5, ApplyKeepsTrails, ApplyKeepsCap DEF TablesInv

\* After COMMIT the run's own claims hold, and the others lose nothing: a run
\* that counted, or that has something to insert, holds the lock itself.
LEMMA ApplyRunOK ==
    ASSUME TypeInv, DedupInv, ScanInv, NEW p \in Scanners, Apply(p),
           UNCHANGED <<runs, chat>>, pc[p] \in {"commit", "markcommit"},
           \A q \in Scanners \ {p} : pc'[q] = pc[q] /\ sc'[q] = sc[q],
           sc'[p].run \in {sc[p].run, 0}, RunOK(p)'
    PROVE  ScanInv'
<1>1. /\ DOMAIN signals' = DOMAIN signals \cup NewIds(p)
      /\ NewIds(p) \subseteq {sc[p].run} /\ NewIds(p) \cap DOMAIN signals = {}
      /\ RowsKept(signals, signals')
  BY ApplyShape
<1>2. /\ \A q \in Scanners \ {p} : txn'[q] = txn[q]
      /\ audit' \ audit \subseteq txn[p].rows /\ runs \in Nat
      /\ \A r \in audit' \ audit : r.stage # "DELIVERY" => r.sid \in {NoSignal, sc[p].run}
  BY DEF Apply, EndTxn, TypeInv, TypeOK, ScanInv, RunOK, NumberOK
<1>3. ASSUME NEW q \in Scanners, q # p PROVE RunOK(q)'
  <2>1. \A i, day : \/ PublishedOn(signals', i, day) \subseteq PublishedOn(signals, i, day)
                    \/ pc[q] \notin Counted /\ txn[q].insert = {}
    <3>1. CASE NewIds(p) = {}
      <4>1. \A i, day : PublishedOn(signals', i, day) \cap DOMAIN signals
                          = PublishedOn(signals, i, day)
        BY <1>1 DEF PublishedOn, RowsKept, SameKey
      <4>2. \A i, day : PublishedOn(signals', i, day) \subseteq DOMAIN signals
        BY <1>1, <3>1 DEF PublishedOn
      <4> QED BY <4>1, <4>2
    <3>2. CASE NewIds(p) # {}
      <4>1. txn[p].insert # {}
        BY <3>2 DEF NewIds
      <4>2. lock # q
        BY <1>3, <4>1 DEF DedupInv, DedupOK
      <4> QED BY <4>2 DEF DedupInv, DedupOK, Exclusive, Counted
    <3> QED BY <3>1, <3>2
  <2>2. \A id \in DOMAIN signals :
            signals'[id].status \in Refused => signals[id].status \in Refused
    BY <1>1 DEF RowsKept
  <2> QED BY <1>1, <1>2, <1>3, <2>1, <2>2, OthersRunOK
<1>4. \A q \in Scanners : RunOK(q)'
  BY <1>3
<1>5. Distinct'
  BY DEF ScanInv, Distinct
<1> QED BY <1>4, <1>5, ApplyKeepsTables DEF ScanInv

\* A gate that fails inserts the rejected signal with its audit row.
LEMMA RejectRunOK ==
    ASSUME TypeInv, ChainInv, ScanInv, NEW p \in Scanners, NEW w \in WritesType,
           w.rows = txn[p].rows, w.insert = Insert(p, "REJECTED").insert,
           AuditAdd(p, w, "GATE", FALSE, sc[p].run),
           UNCHANGED <<runs, audit, signals, chat>>,
           \A q \in Scanners \ {p} : pc'[q] = pc[q] /\ sc'[q] = sc[q],
           pc[p] \in Counted, pc'[p] = "commit",
           sc'[p].run = sc[p].run, sc'[p].sid = sc[p].run, ~ sc'[p].message
    PROVE  ScanInv'
<1>1. /\ OthersStay(p) /\ txn'[p].insert = w.insert
      /\ \A r \in txn'[p].rows \ txn[p].rows : r.sid = sc[p].run
  <2>1. /\ \A q \in Scanners \ {p} : txn'[q] = txn[q]
        /\ txn'[p].insert = w.insert
        /\ \E r : /\ r \notin txn[p].rows /\ r.stage = "GATE" /\ r.ok = FALSE
                  /\ r.sid = sc[p].run /\ txn'[p].rows = txn[p].rows \cup {r}
    <3> DEFINE ok == FALSE
               sid == sc[p].run
    <3>1. AuditAdd(p, w, "GATE", ok, sid)
      OBVIOUS
    <3> HIDE DEF ok, sid
    <3>2. /\ \A q \in Scanners \ {p} : txn'[q] = txn[q]
          /\ txn'[p].insert = w.insert
          /\ \E r : /\ r \notin txn[p].rows /\ r.stage = "GATE" /\ r.ok = ok
                    /\ r.sid = sid /\ txn'[p].rows = txn[p].rows \cup {r}
      BY <3>1, AuditAddRow
    <3> QED BY <3>2 DEF ok, sid
  <2> QED BY <2>1 DEF OthersStay
<1>2. Insert(p, "REJECTED").insert = {[id |-> sc[p].run, row |-> NewSignal(p, "REJECTED")]}
  BY DEF Insert, TypeInv, TypeOK, WritesType
<1> QED BY <1>1, <1>2, InsertRunOK DEF Refused

\* The paper tracker only takes signals out of the daily count.
LEMMA ShrinkRunOK ==
    ASSUME TypeInv, NEW q \in Scanners, RunOK(q), UNCHANGED <<runs, pc, sc, txn, audit>>,
           DOMAIN signals' = DOMAIN signals,
           \A id \in DOMAIN signals :
               signals'[id].status \in Refused <=> signals[id].status \in Refused,
           \A i, day : PublishedOn(signals', i, day) \subseteq PublishedOn(signals, i, day)
    PROVE  RunOK(q)'
<1>1. NumberOK(q)' /\ TrailOK(q)' /\ MessageOK(q)'
  BY DEF RunOK, NumberOK, TrailOK, MessageOK
<1>2. \A i, day : /\ Cardinality(PublishedOn(signals', i, day)) \in Nat
                  /\ Cardinality(PublishedOn(signals, i, day)) \in Nat
                  /\ Cardinality(PublishedOn(signals', i, day))
                       <= Cardinality(PublishedOn(signals, i, day))
  BY PublishedFinite, CountShrinks
<1>3. sc[q].today \in Nat /\ MaxPerDay \in Nat
  BY LimitsAssumption DEF TypeInv, TypeOK, LocalsType
<1>4. CapOK(q)'
  BY <1>2, <1>3 DEF RunOK, CapOK
<1> QED BY <1>1, <1>4 DEF RunOK

LEMMA ScanInit == Init => ScanInv
<1> SUFFICES ASSUME Init PROVE ScanInv
  OBVIOUS
<1>1. /\ runs = 0 /\ audit = {} /\ chat = {} /\ DOMAIN signals = {}
      /\ \A p \in Scanners : /\ pc[p] = "idle" /\ txn[p].rows = {} /\ txn[p].insert = {}
                             /\ sc[p].run = 0 /\ ~ sc[p].message
  BY DEF Init, NoWrites, NoLocals, Locals
<1>2. \A p \in Scanners : RunOK(p)
  BY <1>1 DEF RunOK, NumberOK, TrailOK, MessageOK, CapOK, Clean, PreCommit,
              BeforeCandidate, BeforeGate, BeforeSecondGate, Counted
<1>3. \A i, day : Cardinality(OpenOn(signals, i, day)) = 0
  <2>1. \A i, day : OpenOn(signals, i, day) = {}
    BY <1>1 DEF OpenOn, PublishedOn
  <2> QED BY <2>1, FS_EmptySet
<1>4. TablesInv
  BY <1>1, <1>3, LimitsAssumption DEF TablesInv
<1>5. Distinct
  BY <1>1 DEF Distinct
<1> QED BY <1>2, <1>4, <1>5 DEF ScanInv

\* A step of the run, its locals gone: the number is given up.
LEMMA IdleRunOK ==
    ASSUME NEW p \in Scanners, RunOK(p), pc'[p] = "idle", sc'[p] = NoLocals,
           runs' \in Nat, txn'[p].rows = {}, txn'[p].insert = {}
    PROVE  RunOK(p)'
<1>1. sc'[p].run = 0 /\ ~ sc'[p].message
  BY DEF NoLocals, Locals
<1> QED BY <1>1 DEF RunOK, NumberOK, TrailOK, MessageOK, CapOK, Clean, PreCommit,
                    BeforeCandidate, BeforeGate, BeforeSecondGate, Counted

LEMMA ScanStep == TypeInv /\ ChainInv /\ DedupInv /\ ScanInv /\ [Next]_vars => ScanInv'
<1> SUFFICES ASSUME TypeInv, TypeInv', ChainInv, DedupInv, ScanInv, [Next]_vars PROVE ScanInv'
  BY TypeStep
<1>0. /\ pc \in [Scanners -> Label] /\ sc \in [Scanners -> LocalsType]
      /\ txn \in [Scanners -> WritesType] /\ runs \in Nat /\ runs' \in Nat
  BY DEF TypeInv, TypeOK
<1>a. \A p \in Scanners : RunOK(p)
  BY DEF ScanInv
<1>b. /\ \A p \in Scanners : pc[p] \in PreCommit \ {"commit"} =>
            ~ sc[p].message /\ txn[p].insert = {}
      /\ \A p \in Scanners : pc[p] \in Clean => txn[p].rows = {} /\ txn[p].insert = {}
      /\ \A p \in Scanners : pc[p] \in Counted =>
            Cardinality(PublishedOn(signals, sc[p].inst, Day(sc[p].now))) <= sc[p].today
      /\ \A p \in Scanners : pc[p] \in Counted \ {"gate"} => sc[p].today < MaxPerDay
  BY <1>a DEF RunOK, NumberOK, MessageOK, CapOK, Clean
<1> USE DEF Goto, dbVars, OthersStay
<1>1. ASSUME NEW p \in Scanners, NEW i \in Instruments, Begin(p, i) PROVE ScanInv'
  <2>1. /\ OthersStay(p) /\ txn' = txn /\ UNCHANGED <<audit, signals, chat>>
        /\ runs' = runs + 1 /\ sc'[p].run = runs + 1 /\ ~ sc'[p].message
        /\ pc[p] = "idle" /\ pc'[p] = "frame"
    BY <1>0, <1>1 DEF Begin, Locals
  <2>2. txn[p].rows = {} /\ txn[p].insert = {}
    BY <1>b, <2>1 DEF Clean
  <2>3. \A id \in DOMAIN signals : id \in Nat /\ id <= runs
    BY DEF ScanInv, TablesInv, TypeInv, TypeOK
  <2>4. \A r \in audit : r.stage # "DELIVERY" => r.sid \in Nat /\ r.sid <= runs
    BY DEF ScanInv, TablesInv, TypeInv, TypeOK, AuditRow
  <2>5. RunOK(p)'
    <3>1. NumberOK(p)'
      BY <1>0, <2>1, <2>2, <2>3, <2>4 DEF NumberOK, NoTrail
    <3> QED BY <2>1, <2>2, <3>1 DEF RunOK, TrailOK, MessageOK, CapOK, NoTrail,
                 BeforeGate, BeforeSecondGate, Counted
  <2>6. ASSUME NEW q \in Scanners, q # p PROVE RunOK(q)'
    BY <1>0, <2>1, <2>6, OthersRunOK
  <2>7. Distinct'
    <3>1. \A q \in Scanners : sc[q].run \in Nat /\ sc[q].run <= runs
      BY <1>0, <1>a DEF RunOK, NumberOK, LocalsType
    <3> QED BY <1>0, <2>1, <3>1 DEF ScanInv, Distinct
  <2>8. TablesInv'
    BY <1>0, <2>1, <2>3, <2>4 DEF ScanInv, TablesInv
  <2> QED BY <2>5, <2>6, <2>7, <2>8 DEF ScanInv
<1>2. ASSUME NEW p \in Scanners, EndWithoutSignal(p) PROVE ScanInv'
  <2>1. /\ OthersStay(p) /\ txn' = txn /\ UNCHANGED <<runs, audit, signals, chat>>
        /\ pc[p] = "frame" /\ pc'[p] = "idle" /\ sc'[p] = NoLocals /\ sc'[p].run = 0
    BY <1>0, <1>2 DEF EndWithoutSignal, Finish, NoLocals, Locals
  <2>2. RunOK(p)'
    BY <1>0, <1>a, <1>b, <2>1, IdleRunOK DEF Clean
  <2> QED BY <2>1, <2>2, QuietStepOK
<1>3. ASSUME NEW p \in Scanners, NEW bar \in 0 .. clock, LoadFrame(p, bar) PROVE ScanInv'
  <2>1. /\ OthersStay(p) /\ UNCHANGED <<runs, audit, signals, chat, txn>>
        /\ sc'[p].run = sc[p].run /\ sc'[p].message = sc[p].message
        /\ pc[p] = "frame" /\ pc'[p] \in {"shadow", "strategy"}
    BY <1>0, <1>3 DEF LoadFrame, LocalsType
  <2> QED BY <2>1, LocalRunOK DEF PreCommit, Clean, BeforeCandidate,
                 BeforeGate, BeforeSecondGate, Counted
<1>4. ASSUME NEW p \in Scanners, NEW b \in BOOLEAN, ShadowAudit(p, b) PROVE ScanInv'
  <2>1. /\ AuditAdd(p, txn[p], "REGIME_SHADOW", b, NoSignal)
        /\ UNCHANGED <<runs, audit, signals, chat>>
        /\ \A q \in Scanners \ {p} : pc'[q] = pc[q] /\ sc'[q] = sc[q]
        /\ pc[p] = "shadow" /\ pc'[p] = "strategy"
        /\ sc'[p].run = sc[p].run /\ sc'[p].message = sc[p].message
    BY <1>0, <1>4 DEF ShadowAudit, LocalsType
  <2>2. ASSUME NEW r, r \notin txn[p].rows, r.stage = "REGIME_SHADOW", r.ok = b,
               r.sid = NoSignal, txn'[p].rows = txn[p].rows \cup {r}, txn'[p].insert = {}
        PROVE  TrailOK(p)'
    <3>1. NoTrail(txn[p].rows, sc[p].run) /\ sc[p].run # 0
      BY <1>a, <2>1 DEF RunOK, NumberOK, TrailOK, BeforeCandidate
    <3>2. NoTrail(txn'[p].rows, sc'[p].run)
      BY <2>1, <2>2, <3>1 DEF NoTrail, NoSignal
    <3> QED BY <2>1, <2>2, <3>2 DEF TrailOK, BeforeGate, BeforeSecondGate
  <2> QED BY <1>b, <2>1, <2>2, AuditRunOK DEF PreCommit, Clean, BeforeCandidate,
                 BeforeGate, BeforeSecondGate, Counted
<1>5. ASSUME NEW p \in Scanners, SkipStrategy(p) PROVE ScanInv'
  <2>1. /\ OthersStay(p) /\ UNCHANGED <<runs, audit, signals, chat, txn>>
        /\ sc'[p].run = sc[p].run /\ sc'[p].message = sc[p].message
        /\ pc[p] = "strategy" /\ pc'[p] = "strategy"
    BY <1>0, <1>5 DEF SkipStrategy, LocalsType
  <2> QED BY <2>1, LocalRunOK DEF PreCommit, Clean, BeforeCandidate,
                 BeforeGate, BeforeSecondGate, Counted
<1>6. ASSUME NEW p \in Scanners, NEW b \in BOOLEAN, GenerateCandidate(p, b) PROVE ScanInv'
  <2>1. /\ OthersStay(p) /\ UNCHANGED <<runs, audit, signals, chat, txn>>
        /\ sc'[p].run = sc[p].run /\ sc'[p].message = sc[p].message
        /\ pc[p] = "strategy" /\ pc'[p] = "audit"
    BY <1>0, <1>6 DEF GenerateCandidate, LocalsType
  <2> QED BY <2>1, LocalRunOK DEF PreCommit, Clean, BeforeCandidate,
                 BeforeGate, BeforeSecondGate, Counted
<1>7. ASSUME NEW p \in Scanners, AuditMisaligned(p) PROVE ScanInv'
  <2>1. /\ AuditAdd(p, txn[p], "CANDIDATE", FALSE, NoSignal)
        /\ UNCHANGED <<runs, audit, signals, chat>>
        /\ \A q \in Scanners \ {p} : pc'[q] = pc[q] /\ sc'[q] = sc[q]
        /\ pc[p] = "audit" /\ pc'[p] = "strategy"
        /\ sc'[p].run = sc[p].run /\ sc'[p].message = sc[p].message
    BY <1>0, <1>7 DEF AuditMisaligned, LocalsType
  <2>2. ASSUME NEW r, r \notin txn[p].rows, r.stage = "CANDIDATE", r.ok = FALSE,
               r.sid = NoSignal, txn'[p].rows = txn[p].rows \cup {r}, txn'[p].insert = {}
        PROVE  TrailOK(p)'
    <3>1. NoTrail(txn[p].rows, sc[p].run) /\ sc[p].run # 0
      BY <1>a, <2>1 DEF RunOK, NumberOK, TrailOK, BeforeCandidate
    <3>2. NoTrail(txn'[p].rows, sc'[p].run)
      BY <2>1, <2>2, <3>1 DEF NoTrail, NoSignal
    <3> QED BY <2>1, <2>2, <3>2 DEF TrailOK, BeforeGate, BeforeSecondGate
  <2> QED BY <1>b, <2>1, <2>2, AuditRunOK DEF PreCommit, Clean, BeforeCandidate,
                 BeforeGate, BeforeSecondGate, Counted
<1>8. ASSUME NEW p \in Scanners, AuditCandidate(p) PROVE ScanInv'
  <2>1. /\ AuditAdd(p, txn[p], "CANDIDATE", TRUE, sc[p].run)
        /\ UNCHANGED <<runs, audit, signals, chat>>
        /\ \A q \in Scanners \ {p} : pc'[q] = pc[q] /\ sc'[q] = sc[q]
        /\ pc[p] = "audit" /\ pc'[p] = "dedup"
        /\ sc'[p].run = sc[p].run /\ sc'[p].message = sc[p].message
    BY <1>0, <1>8 DEF AuditCandidate, LocalsType
  <2>2. ASSUME NEW r, r \notin txn[p].rows, r.stage = "CANDIDATE", r.ok = TRUE,
               r.sid = sc[p].run, txn'[p].rows = txn[p].rows \cup {r}, txn'[p].insert = {}
        PROVE  TrailOK(p)'
    <3>1. NoTrail(txn[p].rows, sc[p].run)
      BY <1>a, <2>1 DEF RunOK, TrailOK, BeforeCandidate
    <3>2. Passed(txn[p].rows \cup {r}, sc[p].run, 0)
      BY <2>2, <3>1, CandidateStarts
    <3> QED BY <2>1, <2>2, <3>2 DEF TrailOK, BeforeCandidate, BeforeSecondGate
  <2> QED BY <1>b, <2>1, <2>2, AuditRunOK DEF PreCommit, Clean, BeforeCandidate,
                 BeforeGate, BeforeSecondGate, Counted
<1>9. ASSUME NEW p \in Scanners, NoCandidate(p) PROVE ScanInv'
  <2>1. /\ OthersStay(p) /\ UNCHANGED <<runs, audit, signals, chat, txn>>
        /\ sc'[p].run = sc[p].run /\ sc'[p].message = sc[p].message
        /\ pc[p] = "strategy" /\ pc'[p] = "commit"
    BY <1>0, <1>9 DEF NoCandidate, LocalsType
  <2> QED BY <2>1, LocalRunOK DEF PreCommit, Clean, BeforeCandidate,
                 BeforeGate, BeforeSecondGate, Counted
<1>10. ASSUME NEW p \in Scanners, Dedup(p) PROVE ScanInv'
  <2>1. /\ OthersStay(p) /\ UNCHANGED <<runs, audit, signals, chat, txn>>
        /\ sc'[p].run = sc[p].run /\ sc'[p].message = sc[p].message
        /\ pc[p] = "dedup" /\ pc'[p] \in {"count", "commit"}
    BY <1>0, <1>10 DEF Dedup, LocalsType
  <2> QED BY <2>1, LocalRunOK DEF PreCommit, Clean, BeforeCandidate,
                 BeforeGate, BeforeSecondGate, Counted
<1>11. ASSUME NEW p \in Scanners, CountSince(p) PROVE ScanInv'
  <2>1. /\ OthersStay(p) /\ UNCHANGED <<runs, audit, signals, chat, txn>>
        /\ sc'[p].run = sc[p].run /\ sc'[p].message = sc[p].message
        /\ pc[p] = "count" /\ pc'[p] = "gate"
    BY <1>0, <1>11 DEF CountSince, LocalsType
  <2>2. Cardinality(PublishedOn(signals, sc'[p].inst, Day(sc'[p].now))) <= sc'[p].today
    <3> DEFINE n == Cardinality(CountedToday(sc[p].inst, Day(sc[p].now)))
    <3>1. CountedToday(sc[p].inst, Day(sc[p].now))
            = PublishedOn(signals, sc[p].inst, Day(sc[p].now))
      BY DEF CountedToday, PublishedOn
    <3>2. n = Cardinality(PublishedOn(signals, sc[p].inst, Day(sc[p].now))) /\ n \in Nat
      BY <3>1, PublishedFinite
    <3>3. sc' = [sc EXCEPT ![p].today = n]
      BY <1>11 DEF CountSince
    <3> HIDE DEF n
    <3>4. sc'[p].inst = sc[p].inst /\ sc'[p].now = sc[p].now /\ sc'[p].today = n
      BY <1>0, <3>3 DEF LocalsType
    <3> QED BY <3>2, <3>4
  <2> QED BY <2>1, <2>2, LocalRunOK DEF PreCommit, Clean, BeforeCandidate,
                 BeforeGate, BeforeSecondGate, Counted
<1>12. ASSUME NEW p \in Scanners, GatePass(p) PROVE ScanInv'
  <2>1. /\ AuditAdd(p, txn[p], "GATE", TRUE, sc[p].run)
        /\ UNCHANGED <<runs, audit, signals, chat, sc>>
        /\ \A q \in Scanners \ {p} : pc'[q] = pc[q] /\ sc'[q] = sc[q]
        /\ pc[p] = "gate" /\ pc'[p] = IF LlmEnabled THEN "llm" ELSE "publish"
        /\ sc[p].today < MaxPerDay
    BY <1>0, <1>12 DEF GatePass, GatePasses
  <2>2. ASSUME NEW r, r \notin txn[p].rows, r.stage = "GATE", r.ok = TRUE,
               r.sid = sc[p].run, txn'[p].rows = txn[p].rows \cup {r},
               txn'[p].insert = {}
        PROVE  TrailOK(p)'
    <3>1. Passed(txn[p].rows, sc[p].run, 0)
      BY <1>a, <2>1 DEF RunOK, TrailOK, BeforeGate
    <3>2. Passed(txn[p].rows \cup {r}, sc[p].run, 0 + 1)
      BY <2>2, <3>1, GateAddsOne
    <3> QED BY <2>1, <2>2, <3>2 DEF TrailOK, BeforeCandidate, BeforeGate,
                 BeforeSecondGate, GatesNeeded
  <2> QED BY <1>b, <2>1, <2>2, AuditRunOK DEF PreCommit, Clean, BeforeCandidate,
                 BeforeGate, BeforeSecondGate, Counted
<1>13. ASSUME NEW p \in Scanners, NEW b \in BOOLEAN, GateFail(p, b) PROVE ScanInv'
  <2> DEFINE d == IF sc[p].guardOk THEN {} ELSE {Registry[sc[p].strat]}
             w == [Insert(p, "REJECTED") EXCEPT !.disable = d]
  <2>1. /\ AuditAdd(p, w, "GATE", FALSE, sc[p].run)
        /\ UNCHANGED <<runs, audit, signals, chat>>
        /\ \A q \in Scanners \ {p} : pc'[q] = pc[q] /\ sc'[q] = sc[q]
        /\ pc[p] = "gate" /\ pc'[p] = "commit"
        /\ sc'[p].run = sc[p].run /\ sc'[p].sid = sc[p].run
        /\ sc'[p].message = sc[p].message
    BY <1>0, <1>13 DEF GateFail, LocalsType
  <2>2. d \in SUBSET Strategies
    BY <1>13 DEF GateFail, TypeInv, LoopOK, InLoop, Strategies
  <2> HIDE DEF d
  <2>3. Insert(p, "REJECTED") \in WritesType /\ Insert(p, "REJECTED").rows = txn[p].rows
    BY InsertKeepsRows DEF Status, FinalStatus, TypeInv
  <2>4. /\ w \in WritesType /\ w.insert = Insert(p, "REJECTED").insert
        /\ w.rows = txn[p].rows
    BY <2>2, <2>3 DEF WritesType
  <2> HIDE DEF w
  <2> QED BY <1>b, <2>1, <2>4, RejectRunOK DEF Counted, PreCommit
<1>14. ASSUME NEW p \in Scanners, NEW d \in Decision, LlmAccepts(p, d) PROVE ScanInv'
  <2>1. /\ OthersStay(p) /\ UNCHANGED <<runs, audit, signals, chat, txn>>
        /\ sc'[p].run = sc[p].run /\ sc'[p].message = sc[p].message
        /\ pc[p] = "llm" /\ pc'[p] = "postgate"
        /\ sc'[p].today = sc[p].today /\ sc'[p].inst = sc[p].inst /\ sc'[p].now = sc[p].now
    BY <1>0, <1>14 DEF LlmAccepts, LocalsType
  <2> QED BY <1>b, <2>1, LocalRunOK DEF PreCommit, Clean, BeforeCandidate,
                 BeforeGate, BeforeSecondGate, Counted
<1>15. ASSUME NEW p \in Scanners, NEW d \in Decision, LlmRefuses(p, d) PROVE ScanInv'
  <2> DEFINE s == IF d = "REJECTED" THEN "REJECTED" ELSE "ABSTAINED"
  <2>1. s \in Refused /\ s \in Status
    BY DEF Refused, Status, FinalStatus
  <2>2. /\ txn' = [txn EXCEPT ![p] = Insert(p, s)] /\ OthersStay(p)
        /\ UNCHANGED <<runs, audit, signals, chat>>
        /\ pc[p] = "llm" /\ pc'[p] = "commit"
        /\ sc'[p].run = sc[p].run /\ sc'[p].sid = sc[p].run
        /\ sc'[p].message = sc[p].message
    BY <1>0, <1>15 DEF LlmRefuses, LocalsType
  <2> HIDE DEF s
  <2>3. /\ txn'[p].insert = {[id |-> sc[p].run, row |-> NewSignal(p, s)]}
        /\ txn'[p].rows = txn[p].rows
    BY <1>0, <2>2 DEF Insert, WritesType
  <2> QED BY <1>b, <2>1, <2>2, <2>3, InsertRunOK DEF Counted, PreCommit, Refused
<1>16. ASSUME NEW p \in Scanners, PostGatePass(p) PROVE ScanInv'
  <2>1. /\ AuditAdd(p, txn[p], "GATE", TRUE, sc[p].run)
        /\ UNCHANGED <<runs, audit, signals, chat, sc>>
        /\ \A q \in Scanners \ {p} : pc'[q] = pc[q] /\ sc'[q] = sc[q]
        /\ pc[p] = "postgate" /\ pc'[p] = "publish"
        /\ sc[p].today < MaxPerDay
    BY <1>0, <1>16 DEF PostGatePass, GatePasses
  <2>2. ASSUME NEW r, r \notin txn[p].rows, r.stage = "GATE", r.ok = TRUE,
               r.sid = sc[p].run, txn'[p].rows = txn[p].rows \cup {r},
               txn'[p].insert = {}
        PROVE  TrailOK(p)'
    <3>1. LlmEnabled /\ Passed(txn[p].rows, sc[p].run, 1)
      BY <1>a, <2>1 DEF RunOK, TrailOK, BeforeSecondGate
    <3>2. Passed(txn[p].rows \cup {r}, sc[p].run, 1 + 1)
      BY <2>2, <3>1, GateAddsOne
    <3> QED BY <2>1, <2>2, <3>1, <3>2 DEF TrailOK, BeforeCandidate, BeforeGate,
                 BeforeSecondGate, GatesNeeded
  <2> QED BY <1>b, <2>1, <2>2, AuditRunOK DEF PreCommit, Clean, BeforeCandidate,
                 BeforeGate, BeforeSecondGate, Counted
<1>17. ASSUME NEW p \in Scanners, NEW b \in BOOLEAN, PostGateFail(p, b) PROVE ScanInv'
  <2> DEFINE w == Insert(p, "REJECTED")
  <2>1. /\ AuditAdd(p, w, "GATE", FALSE, sc[p].run)
        /\ UNCHANGED <<runs, audit, signals, chat>>
        /\ \A q \in Scanners \ {p} : pc'[q] = pc[q] /\ sc'[q] = sc[q]
        /\ pc[p] = "postgate" /\ pc'[p] = "commit"
        /\ sc'[p].run = sc[p].run /\ sc'[p].sid = sc[p].run
        /\ sc'[p].message = sc[p].message
    BY <1>0, <1>17 DEF PostGateFail, LocalsType
  <2>2. /\ w \in WritesType /\ w.insert = Insert(p, "REJECTED").insert
        /\ w.rows = txn[p].rows
    BY InsertKeepsRows DEF Status, FinalStatus, TypeInv
  <2> HIDE DEF w
  <2> QED BY <1>b, <2>1, <2>2, RejectRunOK DEF Counted, PreCommit
<1>18. ASSUME NEW p \in Scanners, Publish(p) PROVE ScanInv'
  <2>1. /\ txn' = [txn EXCEPT ![p] = Insert(p, "PUBLISHED")] /\ OthersStay(p)
        /\ UNCHANGED <<runs, audit, signals, chat>>
        /\ pc[p] = "publish" /\ pc'[p] = "commit"
        /\ sc'[p].run = sc[p].run /\ sc'[p].sid = sc[p].run /\ sc'[p].message = TRUE
    BY <1>0, <1>18 DEF Publish, LocalsType
  <2>2. /\ txn'[p].insert = {[id |-> sc[p].run, row |-> NewSignal(p, "PUBLISHED")]}
        /\ txn'[p].rows = txn[p].rows
    BY <1>0, <2>1 DEF Insert, WritesType
  <2> QED BY <2>1, <2>2, InsertRunOK DEF Counted
<1>19. ASSUME NEW p \in Scanners, Commit(p) PROVE ScanInv'
  <2>1. /\ Apply(p) /\ UNCHANGED <<runs, chat>> /\ pc[p] = "commit"
        /\ \A q \in Scanners \ {p} : pc'[q] = pc[q] /\ sc'[q] = sc[q]
        /\ txn'[p].rows = {} /\ txn'[p].insert = {}
    BY <1>0, <1>19 DEF Commit, Apply, EndTxn, Finish, NoWrites
  <2>2. CASE sc[p].sid = NoSignal
    <3>1. pc'[p] = "idle" /\ sc'[p] = NoLocals /\ sc'[p].run = 0
      BY <1>0, <1>19, <2>2 DEF Commit, Finish, NoLocals, Locals
    <3>2. RunOK(p)'
      BY <1>0, <1>a, <2>1, <3>1, IdleRunOK
    <3> QED BY <2>1, <3>1, <3>2, ApplyRunOK
  <2>3. CASE sc[p].sid # NoSignal
    <3>1. sc' = sc /\ pc'[p] = IF sc[p].message THEN "deliver" ELSE "mark"
      BY <1>0, <1>19, <2>3 DEF Commit
    <3>2. NumberOK(p)'
      BY <1>a, <2>1, <3>1 DEF RunOK, NumberOK, Clean, PreCommit
    <3>3. TrailOK(p)' /\ CapOK(p)'
      BY <2>1, <3>1 DEF TrailOK, CapOK, BeforeCandidate, BeforeGate, BeforeSecondGate, Counted
    <3>4. MessageOK(p)'
      <4>1. CASE ~ sc[p].message
        BY <3>1, <4>1 DEF MessageOK, PreCommit
      <4>2. CASE sc[p].message
        <5>1. txn[p].insert # {} /\ \A n \in txn[p].insert : n.row.status = "PUBLISHED"
          BY <1>a, <2>1, <4>2 DEF RunOK, MessageOK
        <5>2. /\ DOMAIN signals' = DOMAIN signals \cup NewIds(p)
              /\ NewIds(p) \subseteq {sc[p].run}
              /\ \A id \in NewIds(p) : \E n \in txn[p].insert :
                    n.id = id /\ signals'[id] = n.row
          BY <2>1, ApplyShape
        <5>3. sc[p].run \in NewIds(p) /\ sc[p].sid = sc[p].run
          BY <1>a, <4>2, <5>1, <5>2 DEF RunOK, NumberOK, MessageOK, NewIds
        <5>4. signals'[sc[p].run].status \notin Refused
          BY <5>1, <5>2, <5>3 DEF Refused
        <5> QED BY <3>1, <4>2, <5>2, <5>3, <5>4 DEF MessageOK, PreCommit
      <4> QED BY <4>1, <4>2
    <3>5. RunOK(p)'
      BY <3>2, <3>3, <3>4 DEF RunOK
    <3> QED BY <2>1, <3>1, <3>5, ApplyRunOK
  <2> QED BY <2>2, <2>3
<1>20. ASSUME NEW p \in Scanners, NEW b \in BOOLEAN, Deliver(p, b) PROVE ScanInv'
  <2>1. /\ OthersStay(p) /\ UNCHANGED <<runs, audit, signals, txn>>
        /\ pc[p] = "deliver" /\ pc'[p] = "mark"
        /\ sc'[p].run = sc[p].run /\ sc'[p].message = sc[p].message
        /\ sc'[p].sid = sc[p].sid
        /\ chat' \subseteq chat \cup {<<sc[p].sid, sc[p].run>>}
    BY <1>0, <1>20 DEF Deliver, LocalsType
  <2>2. /\ sc[p].sid = sc[p].run /\ sc[p].sid \in DOMAIN signals
        /\ signals[sc[p].sid].status \notin Refused
    BY <1>a, <2>1 DEF RunOK, MessageOK
  <2>3. RunOK(p)'
    BY <1>a, <1>b, <2>1 DEF RunOK, NumberOK, TrailOK, MessageOK, CapOK, PreCommit, Clean, BeforeCandidate,
                 BeforeGate, BeforeSecondGate, Counted
  <2>4. \A q \in Scanners : RunOK(q)'
    BY <1>0, <2>1, <2>3, OthersRunOK
  <2>5. Distinct'
    BY <2>1 DEF ScanInv, Distinct
  <2>6. TablesInv'
    BY <2>1, <2>2 DEF ScanInv, TablesInv
  <2> QED BY <2>4, <2>5, <2>6 DEF ScanInv
<1>21. ASSUME NEW p \in Scanners, MarkDelivery(p) PROVE ScanInv'
  <2> DEFINE as == IF sc[p].sent THEN "sent" ELSE "failed"
             m == {[id |-> sc[p].sid, as |-> as]}
             w == [txn[p] EXCEPT !.deliver = m]
  <2>1. /\ AuditAdd(p, w, "DELIVERY", sc[p].sent, sc[p].sid)
        /\ UNCHANGED <<runs, audit, signals, chat, sc>>
        /\ \A q \in Scanners \ {p} : pc'[q] = pc[q]
        /\ pc[p] = "mark" /\ pc'[p] = "markcommit"
    BY <1>0, <1>21 DEF MarkDelivery
  <2>2. sc[p].sid \in Nat /\ txn[p] \in WritesType
    BY <1>0 DEF LocalsType
  <2>3. as \in {"sent", "failed"}
    OBVIOUS
  <2> HIDE DEF as
  <2>4. [id |-> sc[p].sid, as |-> as] \in [id : Nat, as : {"sent", "failed"}]
    BY <2>2, <2>3
  <2>5. m \in SUBSET [id : Nat, as : {"sent", "failed"}]
    BY <2>4
  <2> HIDE DEF m
  <2>6. w \in WritesType /\ w.insert = txn[p].insert /\ w.rows = txn[p].rows
    BY <2>2, <2>5 DEF WritesType
  <2> HIDE DEF w
  <2>7. /\ OthersStay(p) /\ txn'[p].insert = {}
        /\ \E r : r.stage = "DELIVERY" /\ txn'[p].rows = txn[p].rows \cup {r}
    BY <1>b, <2>1, <2>6, AuditAddRow DEF Clean
  <2>8. \A r \in txn'[p].rows : r.stage = "DELIVERY"
    BY <1>b, <2>1, <2>7 DEF Clean
  <2>9. RunOK(p)'
    BY <1>a, <2>1, <2>7, <2>8 DEF RunOK, NumberOK, TrailOK, MessageOK, CapOK, PreCommit, Clean, BeforeCandidate,
                 BeforeGate, BeforeSecondGate, Counted
  <2> QED BY <2>1, <2>7, <2>9, QuietStepOK
<1>22. ASSUME NEW p \in Scanners, MarkCommit(p) PROVE ScanInv'
  <2>1. /\ Apply(p) /\ UNCHANGED <<runs, chat>> /\ pc[p] = "markcommit"
        /\ \A q \in Scanners \ {p} : pc'[q] = pc[q] /\ sc'[q] = sc[q]
        /\ txn'[p].rows = {} /\ txn'[p].insert = {}
        /\ pc'[p] = "idle" /\ sc'[p] = NoLocals /\ sc'[p].run = 0
    BY <1>0, <1>22 DEF MarkCommit, Apply, EndTxn, Finish, NoWrites, NoLocals, Locals
  <2>2. RunOK(p)'
    BY <1>0, <1>a, <2>1, IdleRunOK
  <2> QED BY <2>1, <2>2, ApplyRunOK
<1>23. ASSUME NEW p \in Scanners, Abort(p) PROVE ScanInv'
  <2>1. /\ OthersStay(p) /\ UNCHANGED <<runs, audit, signals, chat>>
        /\ txn'[p].rows = {} /\ txn'[p].insert = {}
        /\ pc'[p] = "idle" /\ sc'[p] = NoLocals /\ sc'[p].run = 0
    BY <1>0, <1>23 DEF Abort, EndTxn, Finish, NoWrites, NoLocals, Locals
  <2>2. RunOK(p)'
    BY <1>0, <1>a, <2>1, IdleRunOK
  <2> QED BY <2>1, <2>2, QuietStepOK
<1>24. ASSUME NEW id \in DOMAIN signals, NEW status \in Status, Track(id, status)
       PROVE  ScanInv'
  <2>1. /\ signals' = [signals EXCEPT ![id].status = status]
        /\ UNCHANGED <<runs, pc, sc, txn, audit, chat>>
        /\ status \notin Refused /\ status # "PUBLISHED"
        /\ signals[id].status \notin Refused
    BY <1>24 DEF Track, NextStatus, OpenStatus, Refused
  <2>2. \A k \in DOMAIN signals : signals[k] \in SignalRow
    BY DEF TypeInv, TypeOK
  <2>3. /\ DOMAIN signals' = DOMAIN signals
        /\ \A k \in DOMAIN signals :
              /\ signals'[k].inst = signals[k].inst /\ signals'[k].bar = signals[k].bar
              /\ signals'[k].day = signals[k].day
              /\ signals'[k].status \in {signals[k].status, status}
              /\ signals'[k].status \in Refused <=> signals[k].status \in Refused
    BY <2>1, <2>2 DEF SignalRow
  <2>4. \A i, day : /\ PublishedOn(signals', i, day) \subseteq PublishedOn(signals, i, day)
                    /\ OpenOn(signals', i, day) \subseteq OpenOn(signals, i, day)
    BY <2>1, <2>3 DEF PublishedOn, OpenOn
  <2>5. \A q \in Scanners : RunOK(q)'
    BY <1>a, <2>1, <2>3, <2>4, ShrinkRunOK
  <2>6. \A i \in Instruments, day \in Nat :
            Cardinality(OpenOn(signals', i, day)) <= MaxPerDay
    <3> SUFFICES ASSUME NEW i \in Instruments, NEW day \in Nat
                 PROVE  Cardinality(OpenOn(signals', i, day)) <= MaxPerDay
      OBVIOUS
    <3>1. IsFiniteSet(OpenOn(signals, i, day))
      BY PublishedFinite, CountShrinks DEF OpenOn
    <3>2. /\ Cardinality(OpenOn(signals', i, day)) \in Nat
          /\ Cardinality(OpenOn(signals, i, day)) \in Nat
          /\ Cardinality(OpenOn(signals', i, day)) <= Cardinality(OpenOn(signals, i, day))
      <4>1. OpenOn(signals', i, day) \subseteq OpenOn(signals, i, day)
        BY <2>4
      <4> DEFINE S == OpenOn(signals, i, day)
                 T == OpenOn(signals', i, day)
      <4>2. IsFiniteSet(S) /\ T \subseteq S
        BY <3>1, <4>1
      <4> HIDE DEF S, T
      <4>3. /\ Cardinality(T) \in Nat /\ Cardinality(S) \in Nat
            /\ Cardinality(T) <= Cardinality(S)
        BY <4>2, CountShrinks
      <4> QED BY <4>3 DEF S, T
    <3> QED BY <3>2, LimitsAssumption DEF ScanInv, TablesInv
  <2>7. Distinct'
    BY <2>1 DEF ScanInv, Distinct
  <2>8. TablesInv'
    <3>1. \A k \in DOMAIN signals' : 0 < k /\ k <= runs'
      BY <2>1, <2>3 DEF ScanInv, TablesInv
    <3>2. \A r \in audit' : r.stage # "DELIVERY" => r.sid <= runs'
      BY <2>1 DEF ScanInv, TablesInv
    <3>3. \A k \in DOMAIN signals' : signals'[k].status \notin Refused =>
              Passed(audit', k, GatesNeeded)
      BY <2>1, <2>3 DEF ScanInv, TablesInv
    <3>4. \A m \in chat' : /\ m[1] = m[2] /\ m[1] \in DOMAIN signals'
                           /\ signals'[m[1]].status \notin Refused
      BY <2>1, <2>3 DEF ScanInv, TablesInv
    <3> QED BY <2>6, <3>1, <3>2, <3>3, <3>4 DEF TablesInv
  <2> QED BY <2>5, <2>7, <2>8 DEF ScanInv
<1>c. ASSUME UNCHANGED <<runs, pc, sc, txn, audit, signals, chat>> PROVE ScanInv'
  <2>1. \A q \in Scanners : RunOK(q)'
    BY <1>a, <1>c DEF RunOK, NumberOK, TrailOK, MessageOK, CapOK
  <2> QED BY <1>c, <2>1 DEF ScanInv, Distinct, TablesInv
<1>25. ASSUME NEW s \in Strategies, Toggle(s) PROVE ScanInv'
  BY <1>c, <1>25 DEF Toggle
<1>26. CASE Tick
  BY <1>c, <1>26 DEF Tick
<1>27. CASE UNCHANGED vars
  BY <1>c, <1>27 DEF vars
<1> QED
  BY <1>1, <1>2, <1>3, <1>4, <1>5, <1>6, <1>7, <1>8, <1>9, <1>10, <1>11, <1>12,
     <1>13, <1>14, <1>15, <1>16, <1>17, <1>18, <1>19, <1>20, <1>21, <1>22,
     <1>23, <1>24, <1>25, <1>26, <1>27 DEF Next, Step

-----------------------------------------------------------------------------
(***************************************************************************)
(* Theorems.                                                               *)
(***************************************************************************)

\* However the runs interleave and wherever they die, every transaction sees a chain that
\* is linked, and only the holder of the lock has rows of its own (AuditRepo.add).
THEOREM Invariance == Spec => [](TypeInv /\ ChainInv)
<1>1. Init => TypeInv /\ ChainInv
  BY TypeInit, ChainInit
<1>2. TypeInv /\ ChainInv /\ [Next]_vars => (TypeInv /\ ChainInv)'
  BY TypeStep, ChainStep
<1> QED BY <1>1, <1>2, PTL DEF Spec

\* Every reachable state is well typed.
THEOREM TypeCorrect == Spec => []TypeOK
<1>1. TypeInv => TypeOK
  BY DEF TypeInv
<1> QED BY <1>1, Invariance, PTL

\* Two rows of a linked set never continue the same predecessor.
LEMMA LinkedIsForkFree ==
    ASSUME NEW S, \A r \in S : r.id \in Nat /\ r.prev \in Nat, Chain!Linked(S)
    PROVE  Chain!ForkFree(S)
  BY DEF Chain!Linked, Chain!ForkFree

\* The audit chain never breaks and never forks, whatever the number of
\* concurrent runs and wherever they die.
THEOREM AuditChainIntact == Spec => []ChainLinked
<1>1. ChainInv => ChainLinked
  BY LinkedIsForkFree DEF ChainInv, WellChained, ChainLinked
<1> QED BY <1>1, Invariance, PTL

\* The audit table implements the append-only chained log of AuditLog.
THEOREM AuditTableRefinesLog == Spec => AuditRefinesLog
<1>1. Init => Chain!Init
  BY DEF Init, Chain!Init
<1>2. ChainInv /\ ChainInv' /\ TypeInv /\ [Next]_vars => [Chain!Append]_audit
  <2> SUFFICES ASSUME ChainInv, ChainInv', TypeInv, [Next]_vars
               PROVE  [Chain!Append]_audit
    OBVIOUS
  <2>1. Chain!Linked(audit')
    BY DEF ChainInv, WellChained
  <2>2. CASE Quiet
    BY <2>2 DEF Quiet
  <2>3. ASSUME NEW p \in Scanners, Commits(p) PROVE Chain!Append
    <3>1. audit \subseteq audit' /\ audit' \ audit \subseteq txn[p].rows
      BY <2>3 DEF Commits
    <3>2. \A old \in audit, new \in audit' \ audit : old.id < new.id
      BY <3>1 DEF ChainInv
    <3> QED BY <2>1, <3>1, <3>2 DEF Chain!Append
  <2>4. ASSUME NEW p \in Scanners, Appends(p) \/ Drops(p) PROVE UNCHANGED audit
    BY <2>4 DEF Appends, Drops
  <2> QED BY <2>2, <2>3, <2>4, StepKinds
<1> QED BY <1>1, <1>2, Invariance, PTL DEF Spec, AuditRefinesLog, Chain!Spec

\* No scan is ever stopped by the unique constraint on the dedup key: nobody can
\* insert the key between the look-up of get_by_dedup and the COMMIT.
THEOREM InsertsNeverConflict == Spec => []InsertNeverConflicts
<1>1. Init => DedupInv
  BY DedupInit
<1>2. TypeInv /\ DedupInv /\ [Next]_vars => DedupInv'
  BY DedupStep
<1>3. DedupInv => InsertNeverConflicts
  BY DEF DedupInv, DedupOK, InsertNeverConflicts, Conflicts
<1> QED BY <1>1, <1>2, <1>3, Invariance, PTL DEF Spec

\* Everything the proofs say of the runs and of the tables holds together.
THEOREM ScanInvariance == Spec => [](TypeInv /\ ChainInv /\ DedupInv /\ ScanInv)
<1>1. Init => DedupInv /\ ScanInv
  BY DedupInit, ScanInit
<1>2. TypeInv /\ ChainInv /\ DedupInv /\ ScanInv /\ [Next]_vars => (DedupInv /\ ScanInv)'
  BY DedupStep, ScanStep
<1> QED BY <1>1, <1>2, Invariance, PTL DEF Spec

\* A signal that was ever published has its candidate row and every gate run
\* that let it through in the committed audit trail, and no failed gate run.
THEOREM PublishedLeavesTrail == Spec => []PublishedIsAudited
<1>1. ScanInv => PublishedIsAudited
  <2> SUFFICES ASSUME ScanInv, NEW id \in DOMAIN signals,
                      signals[id].status \notin {"REJECTED", "ABSTAINED"}
               PROVE  /\ \E r \in audit : r.stage = "CANDIDATE" /\ r.ok /\ r.sid = id
                      /\ Cardinality(GateRows(id, TRUE)) = IF LlmEnabled THEN 2 ELSE 1
                      /\ GateRows(id, FALSE) = {}
    BY DEF PublishedIsAudited
  <2>1. Passed(audit, id, GatesNeeded)
    BY DEF ScanInv, TablesInv, Refused
  <2>2. /\ GateRows(id, TRUE) = GateRowsIn(audit, id, TRUE)
        /\ GateRows(id, FALSE) = GateRowsIn(audit, id, FALSE)
    BY DEF GateRows, GateRowsIn
  <2> QED BY <2>1, <2>2 DEF Passed, GatesNeeded
<1> QED BY <1>1, ScanInvariance, PTL

\* Telegram receives a signal at most once, and only one that was published.
THEOREM NoSignalSentTwice == Spec => []SentAtMostOnce
<1>1. TypeInv /\ ScanInv => SentAtMostOnce
  <2> SUFFICES ASSUME TypeInv, ScanInv, NEW m \in chat
               PROVE  /\ m[1] \in DOMAIN signals
                      /\ signals[m[1]].status \notin {"REJECTED", "ABSTAINED"}
                      /\ \A n \in chat : n[1] = m[1] => n = m
    BY DEF SentAtMostOnce
  <2>1. \A n \in chat : n \in Nat \X Nat /\ n[1] = n[2]
    BY DEF TypeInv, TypeOK, ScanInv, TablesInv
  <2>2. \A n \in chat : n[1] = m[1] => n = m
    BY <2>1
  <2> QED BY <2>2 DEF ScanInv, TablesInv, Refused
<1> QED BY <1>1, ScanInvariance, PTL

\* No two runs both see the last free place of the day, whatever the limit, the
\* number of runs and the instruments: GR-12 holds as count_since evaluates it.
THEOREM DailyCapHolds == Spec => []DailyCapOpen
<1>1. TypeInv /\ ScanInv => DailyCapOpen
  <2> SUFFICES ASSUME TypeInv, ScanInv, NEW i \in Instruments,
                      NEW day \in 0 .. Day(clock)
               PROVE  Cardinality(OpenToday(i, day)) <= MaxPerDay
    BY DEF DailyCapOpen
  <2>1. OpenToday(i, day) = OpenOn(signals, i, day)
    BY DEF OpenToday, CountedToday, OpenOn, PublishedOn
  <2> QED BY <2>1 DEF ScanInv, TablesInv
<1> QED BY <1>1, ScanInvariance, PTL

\* A committed signal keeps its key, and its status only moves forward: a run
\* never writes over the row of another one.
THEOREM SignalsOnlyMoveForward == Spec => SignalLifecycle
<1> DEFINE Forward(id) ==
      /\ id \in DOMAIN signals'
      /\ SameKey(signals'[id], signals[id])
      /\ \/ signals'[id].status = signals[id].status
         \/ /\ signals[id].status \in OpenStatus
            /\ signals'[id].status \in {"FILLED", "TP_HIT", "SL_HIT", "EXPIRED"}
            /\ signals[id].status = "FILLED" => signals'[id].status \in {"TP_HIT", "SL_HIT"}
<1>1. TypeInv /\ ChainInv /\ ScanInv /\ [Next]_vars =>
          [\A id \in DOMAIN signals : Forward(id)]_vars
  <2> SUFFICES ASSUME TypeInv, ScanInv, [Next]_vars, NEW id \in DOMAIN signals
               PROVE  Forward(id)
    OBVIOUS
  <2>1. CASE signals' = signals
    BY <2>1 DEF SameKey
  <2>2. ASSUME NEW p \in Scanners, Apply(p) PROVE Forward(id)
    <3>1. DOMAIN signals' = DOMAIN signals \cup NewIds(p) /\ RowsKept(signals, signals')
      BY <2>2, ApplyShape
    <3> QED BY <3>1 DEF RowsKept
  <2>3. ASSUME NEW k \in DOMAIN signals, NEW status \in Status, Track(k, status)
        PROVE  Forward(id)
    <3>1. signals[id] \in SignalRow
      BY DEF TypeInv, TypeOK
    <3>2. /\ signals' = [signals EXCEPT ![k].status = status]
          /\ signals[k].status \in OpenStatus
          /\ status \in {"FILLED", "TP_HIT", "SL_HIT", "EXPIRED"}
          /\ signals[k].status = "FILLED" => status \in {"TP_HIT", "SL_HIT"}
      BY <2>3 DEF Track, NextStatus
    <3>3. CASE id = k
      BY <3>1, <3>2, <3>3 DEF SameKey, SignalRow
    <3>4. CASE id # k
      BY <3>2, <3>4 DEF SameKey
    <3> QED BY <3>3, <3>4
  <2> HIDE DEF Forward
  <2>4. CASE Next
    BY <2>1, <2>2, <2>3, <2>4 DEF Next, Step, dbVars, Begin, EndWithoutSignal, LoadFrame,
       ShadowAudit, SkipStrategy, GenerateCandidate, AuditMisaligned, AuditCandidate,
       NoCandidate, Dedup, CountSince, GatePass, GateFail, LlmAccepts, LlmRefuses,
       PostGatePass, PostGateFail, Publish, Commit, Deliver, MarkDelivery, MarkCommit,
       Abort, Toggle, Tick
  <2>5. CASE UNCHANGED vars
    BY <2>1, <2>5 DEF vars
  <2> QED BY <2>4, <2>5
<1> HIDE DEF Forward
<1>2. [\A id \in DOMAIN signals : Forward(id)]_vars =>
        [\A id \in DOMAIN signals :
          /\ id \in DOMAIN signals'
          /\ SameKey(signals'[id], signals[id])
          /\ \/ signals'[id].status = signals[id].status
             \/ /\ signals[id].status \in OpenStatus
                /\ signals'[id].status \in {"FILLED", "TP_HIT", "SL_HIT", "EXPIRED"}
                /\ signals[id].status = "FILLED" =>
                      signals'[id].status \in {"TP_HIT", "SL_HIT"}]_vars
  BY DEF Forward
<1> QED BY <1>1, <1>2, ScanInvariance, PTL DEF Spec, SignalLifecycle
=============================================================================
