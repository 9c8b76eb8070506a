------------------------- MODULE SharedStateProofs -------------------------
(***************************************************************************)
(* The components in which several goroutines or processes meet in one     *)
(* piece of state, which none of them owns: the cost and the profile of    *)
(* the subagents and their parent, the sessions of the router and its      *)
(* clients, the lock file and the directories of the portals.              *)
(***************************************************************************)
EXTENDS Subagents, Router, Portal, FiniteSetTheorems, WellFoundedInduction, TLAPS

-----------------------------------------------------------------------------
(* Subagents.                                                              *)

AgentPlaces == {"idle", "begin", "profile", "switch", "run", "write", "load", "merge",
           "put", "restore", "remove", "done"}
Costs == [Actors -> Nat]
AgentStates == [pc : AgentPlaces, async : BOOLEAN, prev : Actors \cup {Kept},
                spent : Nat, held : Costs]

SubagentTypes ==
    /\ agent \in [Agents -> AgentStates]
    /\ parent \in [pc : {"turn", "tools", "write", "ended", "down"}, turns : Nat, saving : Costs]
    /\ profile \in Actors
    /\ memory \in Costs
    /\ file \in [state : {"none", "torn", "whole"}, by : Actors, cost : Costs]
    /\ trees \subseteq Agents /\ runs \in Nat
    /\ seen \in [due : Costs, crossed : BOOLEAN, tangled : BOOLEAN, left : SUBSET Agents]

\* A subagent that reads the file it wrote itself reads its own cost, and unless
\* something crossed it is this cost that it merges.
HandsOver ==
    \A a \in Agents :
        /\ AgentAt(a, "load") /\ file.state = "whole" /\ file.by = a
              => file.cost = Only(a, agent[a].spent)
        /\ AgentAt(a, "merge") /\ ~seen.crossed => agent[a].held = Only(a, agent[a].spent)

\* Nobody changes the memory between the reads and the writes of one merge.
Sums ==
    Up /\ ~seen.crossed =>
        /\ memory = seen.due
        /\ \A a \in Agents : AgentAt(a, "put") =>
              /\ agent[a].held = Plus(memory, Only(a, agent[a].spent))
              /\ \A b \in Agents : AgentAt(b, "put") => b = a

\* Between two processes the file has the total.
Persisted ==
    ~Up =>
        /\ \A a \in Agents : ~Active(a)
        /\ ~seen.crossed => file.state = "whole" /\ file.cost = seen.due

\* The profiles there is something to restore for, and the session's.
Live == {Default} \cup {b \in Agents : agent[b].prev # Kept}

\* The router uses one of them, and each restores one of them.
Restorable ==
    /\ \A a \in Agents :
          /\ agent[a].pc \in {"idle", "begin", "profile", "remove", "done"}
                => agent[a].prev = Kept
          /\ AgentAt(a, "switch") => agent[a].prev # Kept
    /\ ~seen.tangled =>
          profile \in Live /\ \A a \in Agents : agent[a].prev # Kept => agent[a].prev \in Live

TreesKnown ==
    \A a \in trees : a \in seen.left \/ agent[a].pc \notin {"idle", "begin", "done"}

SubagentInv ==
    SubagentTypes /\ HandsOver /\ Sums /\ Persisted /\ Restorable /\ TreesKnown

LEMMA CostsAdd ==
    /\ Nothing \in Costs
    /\ \A c, d \in Costs : Plus(c, d) \in Costs
    /\ \A a \in Actors, n \in Nat : Only(a, n) \in Costs
    /\ Agents \subseteq Actors /\ Parent \in Actors /\ Parent \notin Agents
    /\ Kept \notin Actors
BY SubagentsAssumption DEF Costs, Nothing, Plus, Only, Actors, Kept

LEMMA IdleStates ==
    /\ Idle \in AgentStates /\ AgentEnded \in AgentStates
    /\ Idle.pc = "idle" /\ Idle.prev = Kept
    /\ AgentEnded.pc = "done" /\ AgentEnded.prev = Kept
BY CostsAdd DEF Idle, AgentEnded, AgentStates, AgentPlaces

\* What a step of one subagent does to them all.
LEMMA OneBecomes ==
    ASSUME SubagentTypes, NEW a \in Agents, NEW r \in AgentStates, AgentBecomes(a, r)
    PROVE  /\ agent' \in [Agents -> AgentStates]
           /\ agent'[a] = r
           /\ \A b \in Agents \ {a} : agent'[b] = agent[b]
BY DEF SubagentTypes, AgentBecomes

LEMMA OneGoes ==
    ASSUME SubagentTypes, NEW a \in Agents, NEW place \in AgentPlaces, Goes(a, place)
    PROVE  /\ agent' \in [Agents -> AgentStates]
           /\ agent'[a].pc = place
           /\ agent'[a].prev = agent[a].prev
           /\ agent'[a].spent = agent[a].spent
           /\ agent'[a].held = agent[a].held
           /\ \A b \in Agents \ {a} : agent'[b] = agent[b]
<1> DEFINE r == [agent[a] EXCEPT !.pc = place]
<1>1. r \in AgentStates /\ r.pc = place /\ r.prev = agent[a].prev
      /\ r.spent = agent[a].spent /\ r.held = agent[a].held
    BY DEF SubagentTypes, AgentStates
<1> HIDE DEF r
<1> QED
    BY <1>1, OneBecomes DEF Goes, r

\* Where a step leaves the state s of a subagent: at p, with another profile to
\* restore, another cost that it has read, or without its requests.
To(s, p)          == [s EXCEPT !.pc = p]
Restoring(s, p, v) == [s EXCEPT !.pc = p, !.prev = v]
Holding(s, p, h)  == [s EXCEPT !.pc = p, !.held = h]
Dropping(s, p)    == [s EXCEPT !.pc = p, !.spent = 0]
Handed(s, p, h)   == [s EXCEPT !.pc = p, !.held = h, !.spent = 0]

LEMMA IsTo ==
    ASSUME NEW s \in AgentStates, NEW p \in AgentPlaces
    PROVE  /\ To(s, p) \in AgentStates /\ To(s, p).pc = p
           /\ To(s, p).prev = s.prev /\ To(s, p).spent = s.spent /\ To(s, p).held = s.held
BY DEF AgentStates, To

LEMMA IsRestoring ==
    ASSUME NEW s \in AgentStates, NEW p \in AgentPlaces, NEW v \in Actors \cup {Kept}
    PROVE  LET r == Restoring(s, p, v)
           IN  /\ r \in AgentStates /\ r.pc = p /\ r.prev = v
               /\ r.spent = s.spent /\ r.held = s.held
<1>1. Restoring(s, p, v) = [To(s, p) EXCEPT !.prev = v]
    BY DEF Restoring, To
<1> QED
    BY <1>1, IsTo DEF AgentStates

LEMMA IsHolding ==
    ASSUME NEW s \in AgentStates, NEW p \in AgentPlaces, NEW h \in Costs
    PROVE  LET r == Holding(s, p, h)
           IN  /\ r \in AgentStates /\ r.pc = p /\ r.held = h
               /\ r.prev = s.prev /\ r.spent = s.spent
<1>1. Holding(s, p, h) = [To(s, p) EXCEPT !.held = h]
    BY DEF Holding, To
<1> QED
    BY <1>1, IsTo DEF AgentStates

LEMMA IsDropping ==
    ASSUME NEW s \in AgentStates, NEW p \in AgentPlaces
    PROVE  LET r == Dropping(s, p)
           IN  r \in AgentStates /\ r.pc = p /\ r.prev = s.prev
<1>1. Dropping(s, p) = [To(s, p) EXCEPT !.spent = 0]
    BY DEF Dropping, To
<1> QED
    BY <1>1, IsTo DEF AgentStates

LEMMA IsHanded ==
    ASSUME NEW s \in AgentStates, NEW p \in AgentPlaces, NEW h \in Costs
    PROVE  LET r == Handed(s, p, h)
           IN  r \in AgentStates /\ r.pc = p /\ r.prev = s.prev
<1>1. Handed(s, p, h) = [Holding(s, p, h) EXCEPT !.spent = 0]
    BY DEF Handed, Holding
<1> QED
    BY <1>1, IsHolding DEF AgentStates

\* The steps of a subagent.
LEMMA CreateWorktreeKeeps ==
    ASSUME SubagentInv, NEW a \in Agents, CreateWorktree(a)
    PROVE  SubagentInv'
<1>1. PICK place \in {"profile", "run"} : Goes(a, place)
    BY DEF CreateWorktree
<1>2. /\ agent' \in [Agents -> AgentStates]
      /\ agent'[a].pc = place
      /\ agent'[a].prev = agent[a].prev
      /\ agent'[a].spent = agent[a].spent
      /\ agent'[a].held = agent[a].held
      /\ \A b \in Agents \ {a} : agent'[b] = agent[b]
    BY <1>1, OneGoes DEF SubagentInv, AgentPlaces
<1>3. /\ agent[a].pc = "begin" /\ trees' \in {trees, trees \cup {a}}
      /\ UNCHANGED <<parent, runs, profile, memory, file, seen>>
    BY DEF CreateWorktree, AgentAt, ParentStays
<1>4. SubagentTypes'
    BY <1>2, <1>3 DEF SubagentInv, SubagentTypes
<1>5. HandsOver'
    BY <1>1, <1>2, <1>3 DEF SubagentInv, HandsOver, AgentAt
<1>6. Sums' /\ Persisted'
    BY <1>1, <1>2, <1>3 DEF SubagentInv, Sums, Persisted, AgentAt, Up, Active
<1>7. Restorable'
    BY <1>1, <1>2, <1>3 DEF SubagentInv, Restorable, Live, AgentAt, Default
<1>8. TreesKnown'
    BY <1>1, <1>2, <1>3 DEF SubagentInv, TreesKnown, SubagentTypes
<1> QED
    BY <1>4, <1>5, <1>6, <1>7, <1>8 DEF SubagentInv

LEMMA RefusedKeeps ==
    ASSUME SubagentInv, NEW a \in Agents, Refused(a)
    PROVE  SubagentInv'
<1>2. /\ agent' \in [Agents -> AgentStates]
      /\ agent'[a] = AgentEnded
      /\ \A b \in Agents \ {a} : agent'[b] = agent[b]
    BY IdleStates, OneBecomes DEF SubagentInv, Refused
<1>3. /\ agent[a].pc = "begin"
      /\ UNCHANGED <<parent, runs, profile, memory, file, trees, seen>>
    BY DEF Refused, AgentAt, ParentStays
<1>4. SubagentTypes'
    BY <1>2, <1>3, IdleStates DEF SubagentInv, SubagentTypes
<1>5. HandsOver'
    BY <1>2, <1>3, IdleStates DEF SubagentInv, HandsOver, AgentAt
<1>6. Sums' /\ Persisted'
    BY <1>2, <1>3, IdleStates DEF SubagentInv, Sums, Persisted, AgentAt, Up, Active
<1>7. Restorable'
    BY <1>2, <1>3, IdleStates DEF SubagentInv, Restorable, Live, AgentAt, Default
<1>8. TreesKnown'
    BY <1>2, <1>3, IdleStates DEF SubagentInv, TreesKnown, SubagentTypes
<1> QED
    BY <1>4, <1>5, <1>6, <1>7, <1>8 DEF SubagentInv

LEMMA GetProfileKeeps ==
    ASSUME SubagentInv, NEW a \in Agents, GetProfile(a)
    PROVE  SubagentInv'
<1> DEFINE r == [agent[a] EXCEPT !.pc = "switch", !.prev = profile]
<1>1. r \in AgentStates /\ r.pc = "switch" /\ r.prev = profile
      /\ r.spent = agent[a].spent /\ r.held = agent[a].held
    <2>1. agent[a] \in AgentStates /\ "switch" \in AgentPlaces /\ profile \in Actors
        BY CostsAdd DEF SubagentInv, SubagentTypes, AgentStates, AgentPlaces
    <2>2. r = Restoring(agent[a], "switch", profile)
        BY DEF Restoring
    <2> HIDE DEF r
    <2> QED
        BY <2>1, <2>2, IsRestoring
<1>2. /\ agent' \in [Agents -> AgentStates]
      /\ agent'[a] = r
      /\ \A b \in Agents \ {a} : agent'[b] = agent[b]
    <2> HIDE DEF r
    <2>1. AgentBecomes(a, r)
        BY DEF GetProfile, r
    <2> QED
        BY <1>1, <2>1, OneBecomes DEF SubagentInv
<1>3. /\ agent[a].pc = "profile"
      /\ UNCHANGED <<parent, runs, profile, memory, file, trees, seen>>
    BY DEF GetProfile, AgentAt, ParentStays
<1> HIDE DEF r
<1>4. SubagentTypes'
    BY <1>1, <1>2, <1>3 DEF SubagentInv, SubagentTypes
<1>5. HandsOver'
    BY <1>1, <1>2, <1>3 DEF SubagentInv, HandsOver, AgentAt
<1>6. Sums' /\ Persisted'
    BY <1>1, <1>2, <1>3 DEF SubagentInv, Sums, Persisted, AgentAt, Up, Active
<1>7. Restorable'
    BY <1>1, <1>2, <1>3, CostsAdd DEF SubagentInv, Restorable, Live, AgentAt, Default, SubagentTypes
<1>8. TreesKnown'
    BY <1>1, <1>2, <1>3 DEF SubagentInv, TreesKnown, SubagentTypes
<1> QED
    BY <1>4, <1>5, <1>6, <1>7, <1>8 DEF SubagentInv

LEMMA AgentSetsProfileKeeps ==
    ASSUME SubagentInv, NEW a \in Agents, AgentSetsProfile(a)
    PROVE  SubagentInv'
<1>1. Goes(a, "run")
    BY DEF AgentSetsProfile
<1>2. /\ agent' \in [Agents -> AgentStates]
      /\ agent'[a].pc = "run"
      /\ agent'[a].prev = agent[a].prev
      /\ agent'[a].spent = agent[a].spent
      /\ agent'[a].held = agent[a].held
      /\ \A b \in Agents \ {a} : agent'[b] = agent[b]
    BY <1>1, OneGoes DEF SubagentInv, AgentPlaces
<1>3. /\ agent[a].pc = "switch" /\ profile' \in {a, profile}
      /\ UNCHANGED <<parent, runs, memory, file, trees, seen>>
    BY DEF AgentSetsProfile, AgentAt, ParentStays
<1>4. SubagentTypes'
    BY <1>2, <1>3, CostsAdd DEF SubagentInv, SubagentTypes
<1>5. HandsOver'
    BY <1>2, <1>3 DEF SubagentInv, HandsOver, AgentAt
<1>6. Sums' /\ Persisted'
    BY <1>2, <1>3 DEF SubagentInv, Sums, Persisted, AgentAt, Up, Active
<1>7. Restorable'
    BY <1>2, <1>3, CostsAdd DEF SubagentInv, Restorable, Live, AgentAt, Default
<1>8. TreesKnown'
    BY <1>2, <1>3 DEF SubagentInv, TreesKnown, SubagentTypes
<1> QED
    BY <1>4, <1>5, <1>6, <1>7, <1>8 DEF SubagentInv

LEMMA SpendKeeps ==
    ASSUME SubagentInv, NEW a \in Agents, Spend(a)
    PROVE  SubagentInv'
<1> DEFINE r == [agent[a] EXCEPT !.spent = @ + 1]
<1>1. r \in AgentStates /\ r.pc = agent[a].pc /\ r.prev = agent[a].prev
    BY DEF SubagentInv, SubagentTypes, AgentStates
<1>2. /\ agent' \in [Agents -> AgentStates]
      /\ agent'[a] = r
      /\ \A b \in Agents \ {a} : agent'[b] = agent[b]
    <2> HIDE DEF r
    <2>1. AgentBecomes(a, r)
        BY DEF Spend, r
    <2> QED
        BY <1>1, <2>1, OneBecomes DEF SubagentInv
<1>3. /\ agent[a].pc = "run"
      /\ UNCHANGED <<parent, runs, profile, memory, file, trees, seen>>
    BY DEF Spend, AgentAt, ParentStays
<1> HIDE DEF r
<1>4. SubagentTypes'
    BY <1>1, <1>2, <1>3 DEF SubagentInv, SubagentTypes
<1>5. HandsOver'
    BY <1>1, <1>2, <1>3 DEF SubagentInv, HandsOver, AgentAt
<1>6. Sums' /\ Persisted'
    BY <1>1, <1>2, <1>3 DEF SubagentInv, Sums, Persisted, AgentAt, Up, Active
<1>7. Restorable'
    BY <1>1, <1>2, <1>3 DEF SubagentInv, Restorable, Live, AgentAt, Default
<1>8. TreesKnown'
    BY <1>1, <1>2, <1>3 DEF SubagentInv, TreesKnown, SubagentTypes
<1> QED
    BY <1>4, <1>5, <1>6, <1>7, <1>8 DEF SubagentInv

LEMMA SubagentSavesKeeps ==
    ASSUME SubagentInv, NEW a \in Agents, SubagentSaves(a)
    PROVE  SubagentInv'
<1>1. Goes(a, "write")
    BY DEF SubagentSaves
<1>2. /\ agent' \in [Agents -> AgentStates]
      /\ agent'[a].pc = "write"
      /\ agent'[a].prev = agent[a].prev
      /\ agent'[a].spent = agent[a].spent
      /\ agent'[a].held = agent[a].held
      /\ \A b \in Agents \ {a} : agent'[b] = agent[b]
    BY <1>1, OneGoes DEF SubagentInv, AgentPlaces
<1>3. /\ agent[a].pc = "run" /\ file' = Torn(file)
      /\ UNCHANGED <<parent, runs, profile, memory, trees, seen>>
    BY DEF SubagentSaves, AgentAt, ParentStays
<1>4. SubagentTypes'
    BY <1>2, <1>3 DEF SubagentInv, SubagentTypes, Torn
<1>5. HandsOver'
    BY <1>2, <1>3 DEF SubagentInv, HandsOver, AgentAt, Torn, SubagentTypes
<1>6. Sums' /\ Persisted'
    BY <1>2, <1>3 DEF SubagentInv, Sums, Persisted, AgentAt, Up, Active, Torn
<1>7. Restorable'
    BY <1>2, <1>3 DEF SubagentInv, Restorable, Live, AgentAt, Default
<1>8. TreesKnown'
    BY <1>2, <1>3 DEF SubagentInv, TreesKnown, SubagentTypes
<1> QED
    BY <1>4, <1>5, <1>6, <1>7, <1>8 DEF SubagentInv

LEMMA SubagentWritesKeeps ==
    ASSUME SubagentInv, NEW a \in Agents, SubagentWrites(a)
    PROVE  SubagentInv'
<1> DEFINE cost == Only(a, agent[a].spent)
           end == [agent[a] EXCEPT !.pc = "restore", !.spent = 0]
<1>1. agent[a] \in AgentStates /\ agent[a].spent \in Nat /\ cost \in Costs
    BY CostsAdd DEF SubagentInv, SubagentTypes, AgentStates
<1>2. /\ agent[a].pc = "write"
      /\ file' \in {Saved(a, cost), Torn(Saved(a, cost))}
      /\ Goes(a, "load") \/ AgentBecomes(a, end)
      /\ UNCHANGED <<parent, runs, profile, memory, trees, seen>>
    BY DEF SubagentWrites, AgentAt, ParentStays, Written
<1>3. /\ agent' \in [Agents -> AgentStates]
      /\ agent'[a].pc \in {"load", "restore"} /\ agent'[a].prev = agent[a].prev
      /\ agent'[a].pc = "load" => agent'[a].spent = agent[a].spent
      /\ \A b \in Agents \ {a} : agent'[b] = agent[b]
    <2>1. CASE Goes(a, "load")
        BY <2>1, OneGoes DEF SubagentInv, AgentPlaces
    <2>2. CASE AgentBecomes(a, end)
        <3>1. end \in AgentStates /\ end.pc = "restore" /\ end.prev = agent[a].prev
            <4>1. "restore" \in AgentPlaces /\ end = Dropping(agent[a], "restore")
                BY DEF AgentPlaces, Dropping
            <4> HIDE DEF end
            <4> QED
                BY <1>1, <4>1, IsDropping
        <3> HIDE DEF end
        <3> QED
            BY <2>2, <3>1, OneBecomes DEF SubagentInv
    <2> QED
        BY <1>2, <2>1, <2>2
<1> HIDE DEF end
<1>9. /\ file' \in [state : {"none", "torn", "whole"}, by : Actors, cost : Costs]
      /\ file'.by = a /\ file'.cost = cost
    <2> HIDE DEF cost
    <2> QED
        BY <1>1, <1>2, CostsAdd DEF Saved, Torn
<1>4. SubagentTypes'
    BY <1>2, <1>3, <1>9 DEF SubagentInv, SubagentTypes
<1>5. HandsOver'
    BY <1>2, <1>3, <1>9 DEF SubagentInv, HandsOver, AgentAt
<1>6. Sums' /\ Persisted'
    BY <1>2, <1>3, <1>9 DEF SubagentInv, Sums, Persisted, AgentAt, Up, Active
<1>7. Restorable'
    BY <1>2, <1>3, <1>9 DEF SubagentInv, Restorable, Live, AgentAt, Default
<1>8. TreesKnown'
    BY <1>2, <1>3, <1>9 DEF SubagentInv, TreesKnown, SubagentTypes
<1> QED
    BY <1>4, <1>5, <1>6, <1>7, <1>8 DEF SubagentInv

LEMMA LoadCostKeeps ==
    ASSUME SubagentInv, NEW a \in Agents, LoadCost(a)
    PROVE  SubagentInv'
<1> DEFINE end == [agent[a] EXCEPT !.pc = "restore", !.spent = 0]
           got == [agent[a] EXCEPT !.pc = "merge", !.held = file.cost]
           mine == file.state = "whole" /\ file.by = a
<1>1. agent[a] \in AgentStates /\ file.cost \in Costs
    BY DEF SubagentInv, SubagentTypes
<1>2. /\ agent[a].pc = "load"
      /\ IF file.state = "whole" THEN AgentBecomes(a, got) ELSE AgentBecomes(a, end)
      /\ seen' = [seen EXCEPT !.crossed = @ \/ ~mine]
      /\ UNCHANGED <<parent, runs, profile, memory, file, trees>>
    BY DEF LoadCost, AgentAt, ParentStays
<1>3. /\ agent' \in [Agents -> AgentStates]
      /\ agent'[a].pc \in {"merge", "restore"} /\ agent'[a].prev = agent[a].prev
      /\ mine => agent'[a].spent = agent[a].spent /\ agent'[a].held = file.cost
      /\ \A b \in Agents \ {a} : agent'[b] = agent[b]
    <2>1. CASE file.state = "whole"
        <3>1. /\ got \in AgentStates /\ got.pc = "merge" /\ got.prev = agent[a].prev
              /\ got.spent = agent[a].spent /\ got.held = file.cost
            <4>1. "merge" \in AgentPlaces /\ got = Holding(agent[a], "merge", file.cost)
                BY DEF AgentPlaces, Holding
            <4> HIDE DEF got
            <4> QED
                BY <1>1, <4>1, IsHolding
        <3> HIDE DEF got
        <3> QED
            BY <1>2, <2>1, <3>1, OneBecomes DEF SubagentInv
    <2>2. CASE file.state # "whole"
        <3>1. end \in AgentStates /\ end.pc = "restore" /\ end.prev = agent[a].prev
            <4>1. "restore" \in AgentPlaces /\ end = Dropping(agent[a], "restore")
                BY DEF AgentPlaces, Dropping
            <4> HIDE DEF end
            <4> QED
                BY <1>1, <4>1, IsDropping
        <3> HIDE DEF end
        <3> QED
            BY <1>2, <2>2, <3>1, OneBecomes DEF SubagentInv
    <2> QED
        BY <2>1, <2>2
<1> HIDE DEF end, got
<1>9. /\ seen' \in [due : Costs, crossed : BOOLEAN, tangled : BOOLEAN, left : SUBSET Agents]
      /\ seen'.due = seen.due /\ seen'.tangled = seen.tangled /\ seen'.left = seen.left
      /\ ~seen'.crossed => ~seen.crossed /\ mine
    BY <1>2 DEF SubagentInv, SubagentTypes
<1>4. SubagentTypes'
    BY <1>2, <1>3, <1>9 DEF SubagentInv, SubagentTypes
<1>5. HandsOver'
    BY <1>2, <1>3, <1>9 DEF SubagentInv, HandsOver, AgentAt
<1>6. Sums' /\ Persisted'
    BY <1>2, <1>3, <1>9 DEF SubagentInv, Sums, Persisted, AgentAt, Up, Active
<1>7. Restorable'
    BY <1>2, <1>3, <1>9 DEF SubagentInv, Restorable, Live, AgentAt, Default
<1>8. TreesKnown'
    BY <1>2, <1>3, <1>9 DEF SubagentInv, TreesKnown, SubagentTypes
<1> QED
    BY <1>4, <1>5, <1>6, <1>7, <1>8 DEF SubagentInv

LEMMA MergeReadsKeeps ==
    ASSUME SubagentInv, NEW a \in Agents, MergeReads(a)
    PROVE  SubagentInv'
<1> DEFINE r == [agent[a] EXCEPT !.pc = "put", !.held = Plus(memory, @)]
<1>1. r \in AgentStates /\ r.pc = "put" /\ r.prev = agent[a].prev
      /\ r.spent = agent[a].spent /\ r.held = Plus(memory, agent[a].held)
    <2>1. agent[a] \in AgentStates /\ "put" \in AgentPlaces /\ Plus(memory, agent[a].held) \in Costs
        BY CostsAdd DEF SubagentInv, SubagentTypes, AgentStates, AgentPlaces
    <2>2. r = Holding(agent[a], "put", Plus(memory, agent[a].held))
        BY DEF Holding
    <2> HIDE DEF r
    <2> QED
        BY <2>1, <2>2, IsHolding
<1>2. /\ agent' \in [Agents -> AgentStates]
      /\ agent'[a] = r
      /\ \A b \in Agents \ {a} : agent'[b] = agent[b]
    <2> HIDE DEF r
    <2>1. AgentBecomes(a, r)
        BY DEF MergeReads, r
    <2> QED
        BY <1>1, <2>1, OneBecomes DEF SubagentInv
<1>3. /\ agent[a].pc = "merge"
      /\ seen' = [seen EXCEPT !.crossed = @ \/ Updating]
      /\ UNCHANGED <<parent, runs, profile, memory, file, trees>>
    BY DEF MergeReads, AgentAt, ParentStays
<1> HIDE DEF r
<1>4. SubagentTypes'
    BY <1>1, <1>2, <1>3 DEF SubagentInv, SubagentTypes
<1>5. HandsOver'
    BY <1>1, <1>2, <1>3 DEF SubagentInv, HandsOver, AgentAt, SubagentTypes
<1>6. Sums' /\ Persisted'
    <2>1. /\ seen'.due = seen.due
          /\ ~seen'.crossed => ~seen.crossed /\ \A b \in Agents : agent[b].pc # "put"
        BY <1>3 DEF SubagentInv, SubagentTypes, Updating, AgentAt
    <2>2. ~seen.crossed => agent[a].held = Only(a, agent[a].spent)
        BY <1>3 DEF SubagentInv, HandsOver, AgentAt
    <2>3. ASSUME NEW b \in Agents, agent'[b].pc = "put", ~seen'.crossed
          PROVE  /\ b = a
                 /\ agent'[b].held = Plus(memory', Only(b, agent'[b].spent))
        BY <1>1, <1>2, <1>3, <2>1, <2>2, <2>3
    <2>4. Sums'
        BY <1>3, <2>1, <2>3 DEF SubagentInv, Sums, AgentAt, Up
    <2>5. Persisted'
        BY <1>1, <1>2, <1>3, <2>1 DEF SubagentInv, Persisted, Up, Active
    <2> QED
        BY <2>4, <2>5
<1>7. Restorable'
    BY <1>1, <1>2, <1>3 DEF SubagentInv, Restorable, Live, AgentAt, Default, SubagentTypes
<1>8. TreesKnown'
    BY <1>1, <1>2, <1>3 DEF SubagentInv, TreesKnown, SubagentTypes
<1> QED
    BY <1>4, <1>5, <1>6, <1>7, <1>8 DEF SubagentInv

LEMMA MergeStoresKeeps ==
    ASSUME SubagentInv, NEW a \in Agents, MergeStores(a)
    PROVE  SubagentInv'
<1> DEFINE r == [agent[a] EXCEPT !.pc = "restore", !.held = Nothing, !.spent = 0]
<1>1. r \in AgentStates /\ r.pc = "restore" /\ r.prev = agent[a].prev
    <2>1. agent[a] \in AgentStates /\ "restore" \in AgentPlaces /\ Nothing \in Costs
        BY CostsAdd DEF SubagentInv, SubagentTypes, AgentStates, AgentPlaces
    <2>2. r = Handed(agent[a], "restore", Nothing)
        BY DEF Handed
    <2> HIDE DEF r
    <2> QED
        BY <2>1, <2>2, IsHanded
<1>2. /\ agent' \in [Agents -> AgentStates]
      /\ agent'[a] = r
      /\ \A b \in Agents \ {a} : agent'[b] = agent[b]
    <2> HIDE DEF r
    <2>1. AgentBecomes(a, r)
        BY DEF MergeStores, r
    <2> QED
        BY <1>1, <2>1, OneBecomes DEF SubagentInv
<1>3. /\ agent[a].pc = "put" /\ memory' = agent[a].held
      /\ seen' = [seen EXCEPT !.due = Plus(@, Only(a, agent[a].spent))]
      /\ UNCHANGED <<parent, runs, profile, file, trees>>
    BY DEF MergeStores, AgentAt, ParentStays
<1> HIDE DEF r
<1>4. SubagentTypes'
    BY <1>1, <1>2, <1>3, CostsAdd DEF SubagentInv, SubagentTypes, AgentStates
<1>5. HandsOver'
    BY <1>1, <1>2, <1>3 DEF SubagentInv, HandsOver, AgentAt, SubagentTypes
<1>6. Sums' /\ Persisted'
    BY <1>1, <1>2, <1>3 DEF SubagentInv, Sums, Persisted, AgentAt, Up, Active, SubagentTypes
<1>7. Restorable'
    BY <1>1, <1>2, <1>3 DEF SubagentInv, Restorable, Live, AgentAt, Default, SubagentTypes
<1>8. TreesKnown'
    BY <1>1, <1>2, <1>3 DEF SubagentInv, TreesKnown, SubagentTypes
<1> QED
    BY <1>4, <1>5, <1>6, <1>7, <1>8 DEF SubagentInv

LEMMA RestoreProfileKeeps ==
    ASSUME SubagentInv, NEW a \in Agents, RestoreProfile(a)
    PROVE  SubagentInv'
<1> DEFINE r == [agent[a] EXCEPT !.pc = "remove", !.prev = Kept]
<1>1. r \in AgentStates /\ r.pc = "remove" /\ r.prev = Kept
      /\ r.spent = agent[a].spent /\ r.held = agent[a].held
    <2>1. agent[a] \in AgentStates /\ "remove" \in AgentPlaces
        BY CostsAdd DEF SubagentInv, SubagentTypes, AgentStates, AgentPlaces
    <2>2. r = Restoring(agent[a], "remove", Kept)
        BY DEF Restoring
    <2> HIDE DEF r
    <2> QED
        BY <2>1, <2>2, IsRestoring
<1>2. /\ agent' \in [Agents -> AgentStates]
      /\ agent'[a] = r
      /\ \A b \in Agents \ {a} : agent'[b] = agent[b]
    <2> HIDE DEF r
    <2>1. AgentBecomes(a, r)
        BY DEF RestoreProfile, r
    <2> QED
        BY <1>1, <2>1, OneBecomes DEF SubagentInv
<1>3. /\ agent[a].pc = "restore"
      /\ profile' = (IF agent[a].prev = Kept THEN profile ELSE agent[a].prev)
      /\ seen' = [seen EXCEPT !.tangled = @ \/
                    (agent[a].prev # Kept /\ \E b \in Agents : agent[b].prev = a)]
      /\ UNCHANGED <<parent, runs, memory, file, trees>>
    BY DEF RestoreProfile, AgentAt, ParentStays
<1> HIDE DEF r
<1>4. SubagentTypes'
    BY <1>1, <1>2, <1>3 DEF SubagentInv, SubagentTypes, AgentStates
<1>5. HandsOver'
    BY <1>1, <1>2, <1>3 DEF SubagentInv, HandsOver, AgentAt, SubagentTypes
<1>6. Sums' /\ Persisted'
    BY <1>1, <1>2, <1>3 DEF SubagentInv, Sums, Persisted, AgentAt, Up, Active, SubagentTypes
<1>7. Restorable'
    <2>1. seen'.tangled <=> seen.tangled \/
                (agent[a].prev # Kept /\ \E b \in Agents : agent[b].prev = a)
        BY <1>3 DEF SubagentInv, SubagentTypes
    <2>2. \A b \in Agents \ {a} : b \in Live => b \in Live'
        BY <1>2 DEF Live
    <2>3. Default \in Live' /\ Live \subseteq Agents \cup {Default}
        BY DEF Live, Default
    <2>4. ASSUME ~seen'.tangled, NEW b \in Agents, agent[b].prev # Kept, b # a
          PROVE  agent[b].prev \in Live'
        <3>1. agent[b].prev \in Live
            BY <2>1, <2>4 DEF SubagentInv, Restorable
        <3>2. CASE agent[a].prev = Kept
            <4>1. Live' = Live
                BY <1>1, <1>2, <3>2 DEF Live, Default
            <4> QED
                BY <3>1, <4>1
        <3>3. CASE agent[a].prev # Kept
            BY <2>1, <2>2, <2>3, <2>4, <3>1, <3>3
        <3> QED
            BY <3>2, <3>3
    <2>5. ASSUME ~seen'.tangled PROVE profile' \in Live'
        <3>1. profile \in Live /\ ~seen.tangled
            BY <2>1, <2>5 DEF SubagentInv, Restorable
        <3>2. CASE agent[a].prev = Kept
            <4>1. Live' = Live
                BY <1>1, <1>2, <3>2 DEF Live, Default
            <4> QED
                BY <1>3, <3>1, <3>2, <4>1
        <3>3. CASE agent[a].prev # Kept
            <4>1. agent[a].prev \in Live /\ agent[a].prev # a
                BY <2>1, <2>5, <3>1, <3>3 DEF SubagentInv, Restorable
            <4> QED
                BY <1>3, <2>2, <2>3, <3>3, <4>1
        <3> QED
            BY <3>2, <3>3
    <2>6. \A b \in Agents :
             /\ agent'[b].pc \in {"idle", "begin", "profile", "remove", "done"}
                   => agent'[b].prev = Kept
             /\ agent'[b].pc = "switch" => agent'[b].prev # Kept
        BY <1>1, <1>2 DEF SubagentInv, Restorable, AgentAt
    <2>7. ~seen'.tangled => \A b \in Agents : agent'[b].prev # Kept => agent'[b].prev \in Live'
        BY <1>1, <1>2, <2>4
    <2> QED
        BY <2>5, <2>6, <2>7 DEF Restorable, AgentAt
<1>8. TreesKnown'
    BY <1>1, <1>2, <1>3 DEF SubagentInv, TreesKnown, SubagentTypes
<1> QED
    BY <1>4, <1>5, <1>6, <1>7, <1>8 DEF SubagentInv

LEMMA RemoveWorktreeKeeps ==
    ASSUME SubagentInv, NEW a \in Agents, RemoveWorktree(a)
    PROVE  SubagentInv'
<1>2. /\ agent' \in [Agents -> AgentStates]
      /\ agent'[a] = AgentEnded
      /\ \A b \in Agents \ {a} : agent'[b] = agent[b]
    BY IdleStates, OneBecomes DEF SubagentInv, RemoveWorktree
<1>3. /\ agent[a].pc = "remove"
      /\ UNCHANGED <<parent, runs, profile, memory, file>>
      /\ \/ trees' = trees \ {a} /\ seen' = seen
         \/ trees' = trees /\ seen' = [seen EXCEPT !.left = @ \cup {a}]
    BY DEF RemoveWorktree, AgentAt, ParentStays
<1>9. /\ seen' \in [due : Costs, crossed : BOOLEAN, tangled : BOOLEAN, left : SUBSET Agents]
      /\ seen'.due = seen.due /\ seen'.tangled = seen.tangled /\ seen'.crossed = seen.crossed
      /\ \/ trees' = trees \ {a} /\ seen'.left = seen.left
         \/ trees' = trees /\ seen'.left = seen.left \cup {a}
    BY <1>3 DEF SubagentInv, SubagentTypes
<1>4. SubagentTypes'
    BY <1>2, <1>3, <1>9, IdleStates DEF SubagentInv, SubagentTypes
<1>5. HandsOver'
    BY <1>2, <1>3, <1>9, IdleStates DEF SubagentInv, HandsOver, AgentAt
<1>6. Sums' /\ Persisted'
    BY <1>2, <1>3, <1>9, IdleStates DEF SubagentInv, Sums, Persisted, AgentAt, Up, Active
<1>7. Restorable'
    BY <1>2, <1>3, <1>9, IdleStates DEF SubagentInv, Restorable, Live, AgentAt, Default
<1>8. TreesKnown'
    BY <1>2, <1>3, <1>9, IdleStates DEF SubagentInv, TreesKnown, SubagentTypes
<1> QED
    BY <1>4, <1>5, <1>6, <1>7, <1>8 DEF SubagentInv

\* The steps of the parent.
LEMMA TurnKeeps ==
    ASSUME SubagentInv, NEW calls \in SUBSET Agents,
           NEW async \in SUBSET calls, Turn(calls, async)
    PROVE  SubagentInv'
<1>1. /\ parent.pc = "turn" /\ \A a \in calls : agent[a].pc = "idle"
      /\ memory' = Plus(memory, Only(Parent, 1))
      /\ seen' = [seen EXCEPT !.due = Plus(@, Only(Parent, 1)),
                              !.crossed = @ \/ Updating]
      /\ parent' = [parent EXCEPT !.turns = @ + 1, !.pc = "tools"]
      /\ UNCHANGED <<profile, file, trees, runs>>
    BY DEF Turn, AgentAt
<1>2. /\ agent' \in [Agents -> AgentStates]
      /\ \A a \in calls : agent'[a].pc = "begin" /\ agent'[a].prev = Kept
      /\ \A a \in Agents \ calls : agent'[a] = agent[a]
    <2> DEFINE r(a) == [Idle EXCEPT !.pc = "begin", !.async = a \in async]
    <2>1. ASSUME NEW a \in Agents
          PROVE  r(a) \in AgentStates /\ r(a).pc = "begin" /\ r(a).prev = Kept
        <3>1. PICK asked \in BOOLEAN : asked = (a \in async)
            <4>1. (a \in async) \in BOOLEAN
                OBVIOUS
            <4> QED
                BY <4>1, Zenon
        <3>2. r(a) = [To(Idle, "begin") EXCEPT !.async = asked]
            BY <3>1 DEF To
        <3>3. /\ To(Idle, "begin") \in AgentStates /\ To(Idle, "begin").pc = "begin"
              /\ To(Idle, "begin").prev = Kept
            BY IdleStates, IsTo DEF AgentPlaces
        <3> QED
            BY <3>2, <3>3 DEF AgentStates
    <2>2. agent' = [a \in Agents |-> IF a \in calls THEN r(a) ELSE agent[a]]
        BY DEF Turn
    <2> HIDE DEF r
    <2> QED
        BY <2>1, <2>2 DEF SubagentInv, SubagentTypes
<1>3. /\ parent' \in [pc : {"turn", "tools", "write", "ended", "down"}, turns : Nat, saving : Costs]
      /\ parent'.pc = "tools"
    <2>1. PICK q : q = [parent EXCEPT !.turns = @ + 1]
        OBVIOUS
    <2>2. parent' = [q EXCEPT !.pc = "tools"]
        BY <1>1, <2>1
    <2>3. q \in [pc : {"turn", "tools", "write", "ended", "down"}, turns : Nat, saving : Costs]
        BY <2>1 DEF SubagentInv, SubagentTypes
    <2> QED
        BY <2>2, <2>3
<1>4. /\ seen' \in [due : Costs, crossed : BOOLEAN, tangled : BOOLEAN, left : SUBSET Agents]
      /\ seen'.due = Plus(seen.due, Only(Parent, 1))
      /\ seen'.tangled = seen.tangled /\ seen'.left = seen.left
      /\ ~seen'.crossed => ~seen.crossed /\ \A a \in Agents : agent[a].pc # "put"
    <2>1. PICK q : q = [seen EXCEPT !.due = Plus(@, Only(Parent, 1))]
        OBVIOUS
    <2>2. seen' = [q EXCEPT !.crossed = @ \/ Updating]
        BY <1>1, <2>1
    <2>3. Plus(seen.due, Only(Parent, 1)) \in Costs
        BY CostsAdd DEF SubagentInv, SubagentTypes
    <2>4. /\ q \in [due : Costs, crossed : BOOLEAN, tangled : BOOLEAN, left : SUBSET Agents]
          /\ q.due = Plus(seen.due, Only(Parent, 1)) /\ q.crossed = seen.crossed
          /\ q.tangled = seen.tangled /\ q.left = seen.left
        BY <2>1, <2>3 DEF SubagentInv, SubagentTypes
    <2> QED
        BY <2>2, <2>4 DEF Updating, AgentAt
<1>5. SubagentTypes'
    BY <1>1, <1>2, <1>3, <1>4, CostsAdd DEF SubagentInv, SubagentTypes
<1>6. HandsOver'
    BY <1>1, <1>2, <1>4 DEF SubagentInv, HandsOver, AgentAt
<1>7. Sums' /\ Persisted'
    BY <1>1, <1>2, <1>3, <1>4 DEF SubagentInv, Sums, Persisted, AgentAt, Up
<1>8. Restorable'
    <2>1. \A a \in calls : agent[a].prev = Kept
        BY <1>1 DEF SubagentInv, Restorable
    <2>2. Live' = Live
        BY <1>2, <2>1 DEF Live, Default
    <2> QED
        BY <1>1, <1>2, <1>4, <2>2 DEF SubagentInv, Restorable, AgentAt
<1>9. TreesKnown'
    BY <1>1, <1>2, <1>4 DEF SubagentInv, TreesKnown, SubagentTypes
<1> QED
    BY <1>5, <1>6, <1>7, <1>8, <1>9 DEF SubagentInv

LEMMA ParentStepKeeps ==
    ASSUME SubagentInv,
           ResponseAnswered \/ ParentSaves \/ ParentWrites
    PROVE  SubagentInv'
<1>1. UNCHANGED <<agent, profile, memory, trees, runs, seen>> /\ Up
    BY DEF ResponseAnswered, ParentSaves, ParentWrites, Up
<1>2. /\ parent' \in [pc : {"turn", "tools", "write", "ended", "down"}, turns : Nat, saving : Costs]
      /\ parent'.pc # "down"
    <2>1. CASE ResponseAnswered
        BY <2>1 DEF SubagentInv, SubagentTypes, ResponseAnswered
    <2>2. CASE ParentSaves
        <3>1. PICK q : q = [parent EXCEPT !.pc = "write"]
            OBVIOUS
        <3>2. parent' = [q EXCEPT !.saving = memory]
            BY <2>2, <3>1 DEF ParentSaves
        <3> QED
            BY <3>1, <3>2 DEF SubagentInv, SubagentTypes
    <2>3. CASE ParentWrites
        <3>1. PICK q : q = [parent EXCEPT !.pc = "ended"]
            OBVIOUS
        <3>2. parent' = [q EXCEPT !.saving = Nothing]
            BY <2>3, <3>1 DEF ParentWrites
        <3> QED
            BY <3>1, <3>2, CostsAdd DEF SubagentInv, SubagentTypes
    <2> QED
        BY <2>1, <2>2, <2>3
<1>3. /\ file' \in [state : {"none", "torn", "whole"}, by : Actors, cost : Costs]
      /\ file' = file \/ file'.state # "whole" \/ file'.by = Parent
    <2>1. CASE ResponseAnswered
        BY <2>1 DEF SubagentInv, SubagentTypes, ResponseAnswered
    <2>2. CASE ParentSaves
        BY <2>2 DEF SubagentInv, SubagentTypes, ParentSaves, Torn
    <2>3. CASE ParentWrites
        <3> DEFINE f == Saved(Parent, parent.saving)
        <3>1. file' \in {f, Torn(f)}
            BY <2>3 DEF ParentWrites, Written
        <3>2. f \in [state : {"none", "torn", "whole"}, by : Actors, cost : Costs] /\ f.by = Parent
            BY CostsAdd DEF Saved, SubagentInv, SubagentTypes
        <3> HIDE DEF f
        <3> QED
            BY <3>1, <3>2 DEF Torn
    <2> QED
        BY <2>1, <2>2, <2>3
<1>4. SubagentTypes'
    BY <1>1, <1>2, <1>3 DEF SubagentInv, SubagentTypes
<1>5. HandsOver'
    BY <1>1, <1>3, CostsAdd DEF SubagentInv, HandsOver, AgentAt
<1>6. Sums' /\ Persisted'
    BY <1>1, <1>2 DEF SubagentInv, Sums, Persisted, AgentAt, Up
<1>7. Restorable' /\ TreesKnown'
    BY <1>1 DEF SubagentInv, Restorable, Live, Default, AgentAt, TreesKnown
<1> QED
    BY <1>4, <1>5, <1>6, <1>7 DEF SubagentInv

LEMMA ProcessExitsKeeps ==
    ASSUME SubagentInv, ProcessExits
    PROVE  SubagentInv'
<1> DEFINE done == /\ parent.pc = "ended" /\ file.state = "whole" /\ file.by = Parent
                   /\ file.cost = memory
<1>1. /\ Up /\ profile' = Default /\ memory' = Nothing
      /\ parent' = [Loop EXCEPT !.pc = "down", !.turns = parent.turns]
      /\ seen' = [seen EXCEPT !.left = @ \cup trees, !.tangled = FALSE, !.crossed = @ \/ ~done]
      /\ UNCHANGED <<file, trees, runs>>
    BY DEF ProcessExits
<1> HIDE DEF done
<1>2. /\ agent' \in [Agents -> AgentStates]
      /\ \A a \in Agents : agent'[a].pc \in {"idle", "done"} /\ agent'[a].prev = Kept
    BY IdleStates DEF ProcessExits
<1>3. /\ parent' \in [pc : {"turn", "tools", "write", "ended", "down"}, turns : Nat, saving : Costs]
      /\ parent'.pc = "down"
    BY <1>1, CostsAdd DEF SubagentInv, SubagentTypes, Loop
<1>4. /\ seen' \in [due : Costs, crossed : BOOLEAN, tangled : BOOLEAN, left : SUBSET Agents]
      /\ seen'.due = seen.due /\ seen'.left = seen.left \cup trees
      /\ ~seen'.crossed => ~seen.crossed /\ done
    <2>1. PICK q : q = [seen EXCEPT !.left = @ \cup trees]
        OBVIOUS
    <2>2. PICK t : t = [q EXCEPT !.tangled = FALSE]
        OBVIOUS
    <2>3. seen' = [t EXCEPT !.crossed = @ \/ ~done]
        BY <1>1, <2>1, <2>2
    <2>4. /\ q \in [due : Costs, crossed : BOOLEAN, tangled : BOOLEAN, left : SUBSET Agents]
          /\ q.due = seen.due /\ q.crossed = seen.crossed /\ q.left = seen.left \cup trees
        BY <2>1 DEF SubagentInv, SubagentTypes
    <2>5. /\ t \in [due : Costs, crossed : BOOLEAN, tangled : BOOLEAN, left : SUBSET Agents]
          /\ t.due = seen.due /\ t.crossed = seen.crossed /\ t.left = seen.left \cup trees
        BY <2>2, <2>4
    <2> QED
        BY <2>3, <2>5
<1>5. SubagentTypes'
    BY <1>1, <1>2, <1>3, <1>4, CostsAdd DEF SubagentInv, SubagentTypes, Default
<1>6. HandsOver'
    BY <1>2 DEF HandsOver, AgentAt
<1>7. Sums'
    BY <1>3 DEF Sums, Up
<1>8. Persisted'
    BY <1>1, <1>2, <1>4 DEF SubagentInv, Sums, Persisted, Active, done
<1>9. Restorable' /\ TreesKnown'
    BY <1>1, <1>2, <1>4 DEF Restorable, Live, AgentAt, TreesKnown
<1> QED
    BY <1>5, <1>6, <1>7, <1>8, <1>9 DEF SubagentInv

LEMMA StartKeeps ==
    ASSUME SubagentInv, NEW resume \in BOOLEAN, Start(resume)
    PROVE  SubagentInv'
<1>1. /\ ~Up /\ parent' = [parent EXCEPT !.pc = "turn"] /\ runs' = runs + 1
      /\ memory' = (IF resume /\ file.state = "whole" THEN file.cost ELSE Nothing)
      /\ UNCHANGED <<agent, profile, file, trees>>
    BY DEF Start
<1>2. \A a \in Agents : agent[a].pc \in {"idle", "done"}
    BY <1>1 DEF SubagentInv, Persisted, Active
<1>3. /\ seen' \in [due : Costs, crossed : BOOLEAN, tangled : BOOLEAN, left : SUBSET Agents]
      /\ seen'.tangled = seen.tangled /\ seen'.left = seen.left
      /\ resume => seen' = seen
      /\ ~resume => seen'.due = Nothing
    <2>1. CASE resume
        BY <2>1 DEF Start, SubagentInv, SubagentTypes
    <2>2. CASE ~resume
        <3>1. PICK q : q = [seen EXCEPT !.due = Nothing]
            OBVIOUS
        <3>2. seen' = [q EXCEPT !.crossed = FALSE]
            BY <2>2, <3>1 DEF Start
        <3>3. /\ q \in [due : Costs, crossed : BOOLEAN, tangled : BOOLEAN, left : SUBSET Agents]
              /\ q.due = Nothing /\ q.tangled = seen.tangled /\ q.left = seen.left
            BY <3>1, CostsAdd DEF SubagentInv, SubagentTypes
        <3> QED
            BY <2>2, <3>2, <3>3
    <2> QED
        BY <2>1, <2>2
<1>4. parent' \in [pc : {"turn", "tools", "write", "ended", "down"}, turns : Nat, saving : Costs]
      /\ parent'.pc = "turn"
    BY <1>1 DEF SubagentInv, SubagentTypes
<1>5. SubagentTypes'
    BY <1>1, <1>3, <1>4, CostsAdd DEF SubagentInv, SubagentTypes
<1>6. HandsOver'
    BY <1>1, <1>2 DEF HandsOver, AgentAt
<1>7. Sums' /\ Persisted'
    BY <1>1, <1>2, <1>3, <1>4 DEF SubagentInv, Sums, Persisted, AgentAt, Up
<1>8. Restorable' /\ TreesKnown'
    BY <1>1, <1>3 DEF SubagentInv, Restorable, Live, Default, AgentAt, TreesKnown
<1> QED
    BY <1>5, <1>6, <1>7, <1>8 DEF SubagentInv

LEMMA SubagentInvInit ==
    ASSUME SubagentsInit
    PROVE  SubagentInv
<1>1. /\ agent \in [Agents -> AgentStates]
      /\ \A a \in Agents : agent[a].pc = "idle" /\ agent[a].prev = Kept
    BY IdleStates DEF SubagentsInit
<1>2. SubagentTypes
    BY <1>1, CostsAdd DEF SubagentsInit, Loop, NoFile, Seen, Default, SubagentTypes
<1>3. HandsOver /\ Sums /\ Persisted
    BY <1>1 DEF SubagentsInit, Loop, NoFile, Seen, HandsOver, Sums, Persisted, AgentAt, Up
<1>4. Restorable /\ TreesKnown
    BY <1>1 DEF SubagentsInit, Seen, Restorable, Live, TreesKnown, AgentAt, Default
<1> QED
    BY <1>2, <1>3, <1>4 DEF SubagentInv

LEMMA SubagentInvNext ==
    ASSUME SubagentInv, [SubagentsNext]_subagentsVars
    PROVE  SubagentInv'
<1>1. CASE \E a \in Agents : Subagent(a)
    <2>1. PICK a \in Agents : Subagent(a)
        BY <1>1
    <2>2. CASE Refused(a) \/ CreateWorktree(a) \/ GetProfile(a)
        BY <2>2, RefusedKeeps, CreateWorktreeKeeps, GetProfileKeeps
    <2>3. CASE AgentSetsProfile(a) \/ Spend(a) \/ SubagentSaves(a)
        BY <2>3, AgentSetsProfileKeeps, SpendKeeps, SubagentSavesKeeps
    <2>4. CASE SubagentWrites(a) \/ LoadCost(a) \/ MergeReads(a)
        BY <2>4, SubagentWritesKeeps, LoadCostKeeps, MergeReadsKeeps
    <2>5. CASE MergeStores(a) \/ RestoreProfile(a) \/ RemoveWorktree(a)
        BY <2>5, MergeStoresKeeps, RestoreProfileKeeps, RemoveWorktreeKeeps
    <2> QED
        BY <2>1, <2>2, <2>3, <2>4, <2>5 DEF Subagent
<1>2. CASE \E calls \in SUBSET Agents : \E async \in SUBSET calls : Turn(calls, async)
    BY <1>2, TurnKeeps
<1>3. CASE ResponseAnswered \/ ParentSaves \/ ParentWrites
    BY <1>3, ParentStepKeeps
<1>4. CASE ProcessExits
    BY <1>4, ProcessExitsKeeps
<1>5. CASE \E resume \in BOOLEAN : Start(resume)
    BY <1>5, StartKeeps
<1>6. CASE UNCHANGED subagentsVars
    BY <1>6
       DEF subagentsVars, SubagentInv, SubagentTypes, HandsOver, Sums, Persisted, Restorable,
           Live, TreesKnown, AgentAt, Up, Active, Default
<1> QED
    BY <1>1, <1>2, <1>3, <1>4, <1>5, <1>6 DEF SubagentsNext

\* The engine of the parent has counted every request once, its own and those
\* of the subagents it merged, over a resume too, as long as no saves, loads or
\* updates crossed (RunSubagent, cost.go): for every number of subagents.
THEOREM CostsAreCounted == SubagentsSpec => []Counted
<1>1. SubagentsInit => SubagentInv
    BY SubagentInvInit
<1>2. SubagentInv /\ [SubagentsNext]_subagentsVars => SubagentInv'
    BY SubagentInvNext
<1>3. SubagentInv => Counted
    BY DEF SubagentInv, Sums, Counted
<1> QED
    BY <1>1, <1>2, <1>3, PTL DEF SubagentsSpec

\* When no subagent is left the router has the session's profile again and no
\* worktree is left behind, but for what the history excepts (RunSubagent).
THEOREM SubagentsLeaveNoTrace == SubagentsSpec => []LeavesNoTrace
<1>1. SubagentsInit => SubagentInv
    BY SubagentInvInit
<1>2. SubagentInv /\ [SubagentsNext]_subagentsVars => SubagentInv'
    BY SubagentInvNext
<1>3. SubagentInv => LeavesNoTrace
    BY DEF SubagentInv, SubagentTypes, Restorable, Live, TreesKnown, LeavesNoTrace, Active
<1> QED
    BY <1>1, <1>2, <1>3, PTL DEF SubagentsSpec

-----------------------------------------------------------------------------
(* The provider router.                                                    *)

ClientStates == [pc : {"idle", "send", "key", "target"}, endpoint : Slots \cup {None},
                 built : BOOLEAN, attempt : Nat, calls : Nat]
SessionStates == [endpoint : Slots \cup {None}, under : DOMAIN Profiles \cup {DefaultProfile},
                  target : Nat, key : Nat, moved : BOOLEAN, behind : BOOLEAN]

RouterTypes ==
    /\ profileName \in DOMAIN Profiles \cup {DefaultProfile}
    /\ session \in [Sessions -> SessionStates]
    /\ serves \in [Clients -> Sessions]
    /\ client \in [Clients -> ClientStates]

\* A client that is in a call has an endpoint.
Calling == \A c \in Clients : client[c].pc # "idle" => client[c].endpoint # None

\* A session that nobody moved is bound under the profile in force, at one of
\* its targets, and so is each client of it.
Offered(e) == Chain = << >> \/ \E k \in DOMAIN Chain : Model(e) \in Chain[k]
Placed ==
    /\ \A s \in Sessions :
          /\ Bound(s) => Known
          /\ ~Bound(s) => session[s].target = 0
          /\ ~session[s].moved =>
                /\ session[s].target = 0 \/ session[s].target < Len(Chain)
                /\ Bound(s) => session[s].under = profileName /\ Offered(session[s].endpoint)
    /\ \A c \in Clients :
          (client[c].endpoint # None /\ ~session[serves[c]].moved)
              => Offered(client[c].endpoint)

\* What a session of one client and its client use is named by a target up to
\* TargetIndex, unless one was skipped.
UpTo(e, n) == \E k \in DOMAIN Chain : k <= n + 1 /\ Model(e) \in Chain[k]
Reached ==
    \A c \in Clients :
        LET s == session[serves[c]] IN
        (Alone(c) /\ s.endpoint # None /\ ~s.moved /\ ~s.behind /\ Chain # << >>) =>
            /\ UpTo(s.endpoint, s.target)
            /\ client[c].endpoint # None => UpTo(client[c].endpoint, s.target)

RouterInv == RouterTypes /\ Calling /\ Placed /\ Reached /\ Agreement

\* What a step of client c may leave in its session and in itself.
Fits(c, v, r) ==
    /\ v \in SessionStates /\ r \in ClientStates
    /\ r.pc # "idle" => r.endpoint # None
    /\ v.moved = session[serves[c]].moved
    /\ IF v.endpoint = None THEN v.target = 0 ELSE Known
    /\ ~v.moved =>
          /\ v.target = 0 \/ v.target < Len(Chain)
          /\ v.endpoint # None => v.under = profileName /\ Offered(v.endpoint)
          /\ r.endpoint # None => Offered(r.endpoint)
    /\ (Alone(c) /\ v.endpoint # None /\ ~v.moved /\ ~v.behind /\ Chain # << >>) =>
          /\ UpTo(v.endpoint, v.target)
          /\ r.endpoint # None => UpTo(r.endpoint, v.target)
    /\ (Alone(c) /\ r.endpoint # None /\ v.endpoint # None /\ r.endpoint # v.endpoint) =>
          Model(r.endpoint) # Model(v.endpoint)

\* A set of naturals has a least element, which Least finds.
LEMMA LeastIs ==
    ASSUME NEW S \in SUBSET Nat, S # {}
    PROVE  Least(S) \in S /\ \A k \in S : Least(S) <= k
<1>1. OpToRel(<, Nat) = {p \in Nat \X Nat : p[1] < p[2]}
    BY DEF OpToRel
<1>2. PICK n \in S : \A k \in S : ~ (<<k, n>> \in OpToRel(<, Nat))
    BY NatLessThanWellFounded, WFMin, Zenon
<1>3. \A k \in S : n <= k
    <2>1. TAKE k \in S
    <2>2. ~ (<<k, n>> \in {p \in Nat \X Nat : p[1] < p[2]})
        BY <1>1, <1>2, Zenon
    <2> QED
        BY <2>2
<1> QED
    BY <1>3 DEF Least

\* The providers are records with sequences, so a slot has four naturals.
LEMMA ProvidersAre ==
    \A i \in DOMAIN Providers : /\ i \in Nat
                                /\ Providers[i].models \in Seq(STRING)
                                /\ Providers[i].accounts \in Seq(Seq(STRING))
<1> DEFINE Names == STRING \cup {"anthropic", "openai", "genai"}
           P == [name : Names, models : Seq(STRING), accounts : Seq(Seq(STRING))]
<1>1. \A n \in {"anthropic", "openai", "genai"} : Added(n) \in Seq(P)
    <2>1. TAKE n \in {"anthropic", "openai", "genai"}
    <2>2. Env[n].model \in STRING /\ Env[n].keys \in Seq(STRING)
        BY RouterAssumption
    <2>3. <<Env[n].model>> \in Seq(STRING) /\ <<Env[n].keys>> \in Seq(Seq(STRING))
        BY <2>2
    <2>4. n \in Names
        BY <2>1
    <2>5. FromEnv(n) \in P
        BY <2>3, <2>4 DEF FromEnv
    <2> HIDE DEF P
    <2>6. <<FromEnv(n)>> \in Seq(P) /\ << >> \in Seq(P)
        BY <2>5
    <2> QED
        BY <2>6 DEF Added
<1>2. FileProviders \in Seq(P)
    <2> DEFINE Q == [name : STRING, models : Seq(STRING), accounts : Seq(Seq(STRING))]
    <2>1. FileProviders \in Seq(Q)
        BY RouterAssumption
    <2>2. \A q \in Q : q \in P
        OBVIOUS
    <2> HIDE DEF P, Q
    <2>3. FileProviders \in [1..Len(FileProviders) -> Q] /\ Len(FileProviders) \in Nat
        BY <2>1
    <2>4. FileProviders \in [1..Len(FileProviders) -> P]
        BY <2>2, <2>3
    <2> QED
        BY <2>3, <2>4
<1>3. \A q \in P : q.models \in Seq(STRING) /\ q.accounts \in Seq(Seq(STRING))
    OBVIOUS
<1> HIDE DEF P
<1>4. Providers \in Seq(P)
    BY <1>1, <1>2 DEF Providers
<1>5. \A i \in DOMAIN Providers : i \in Nat /\ Providers[i] \in P
    BY <1>4
<1> QED
    BY <1>3, <1>5

LEMMA SlotsAre ==
    ASSUME NEW e \in Slots
    PROVE  /\ \A n \in 1..4 : e[n] \in Nat
           /\ e = <<e[1], e[2], e[3], e[4]>>
           /\ e # None
<1>1. PICK i \in DOMAIN Providers : e \in Walk(i)
    BY DEF Slots
<1> DEFINE p == Providers[i]
           keys == UNION {DOMAIN p.accounts[b] : b \in DOMAIN p.accounts}
<1>2. /\ i \in Nat /\ DOMAIN p.models \subseteq Nat /\ DOMAIN p.accounts \subseteq Nat
      /\ keys \subseteq Nat
    <2>1. i \in Nat /\ p.models \in Seq(STRING) /\ p.accounts \in Seq(Seq(STRING))
        BY ProvidersAre
    <2> HIDE DEF p
    <2>2. \A b \in DOMAIN p.accounts : p.accounts[b] \in Seq(STRING)
        BY <2>1
    <2>3. \A b \in DOMAIN p.accounts : DOMAIN p.accounts[b] \subseteq Nat
        BY <2>2
    <2> QED
        BY <2>1, <2>3
<1>3. PICK m \in DOMAIN p.models, a \in DOMAIN p.accounts, k \in keys : e = <<i, m, a, k>>
    BY <1>1 DEF Walk
<1> HIDE DEF p, keys
<1> QED
    BY <1>2, <1>3 DEF None

\* First finds one: the coordinates are minimized one after the other.
LEMMA FirstIs ==
    ASSUME NEW S \in SUBSET Slots, S # {}
    PROVE  First(S) \in S
<1> DEFINE Least1(n, T) == Least({f[n] : f \in T})
           Those(n, T) == {f \in T : f[n] = Least1(n, T)}
<1>1. ASSUME NEW T \in SUBSET Slots, T # {}, NEW n \in 1..4
      PROVE  /\ Those(n, T) \in SUBSET T /\ Those(n, T) # {}
             /\ Least1(n, T) \in Nat
             /\ \A f \in T : Least1(n, T) <= f[n]
    <2>1. {f[n] : f \in T} \in SUBSET Nat /\ {f[n] : f \in T} # {}
        BY <1>1, SlotsAre
    <2>2. /\ Least1(n, T) \in {f[n] : f \in T}
          /\ \A k \in {f[n] : f \in T} : Least1(n, T) <= k
        BY <2>1, LeastIs
    <2> HIDE DEF Least1
    <2> QED
        BY <2>1, <2>2
<1>2. PICK A : A = Those(1, S)
    OBVIOUS
<1>3. PICK B : B = Those(2, A)
    OBVIOUS
<1>4. PICK C : C = Those(3, B)
    OBVIOUS
<1>5. PICK D : D = Those(4, C)
    OBVIOUS
<1> HIDE DEF Least1
<1>6. A \in SUBSET S /\ A # {} /\ A = {f \in S : f[1] = Least1(1, S)}
      /\ Least1(1, S) \in Nat /\ \A f \in S : Least1(1, S) <= f[1]
    BY <1>1, <1>2
<1>7. B \in SUBSET A /\ B # {} /\ B = {f \in A : f[2] = Least1(2, A)}
      /\ Least1(2, A) \in Nat /\ \A f \in A : Least1(2, A) <= f[2]
    BY <1>1, <1>3, <1>6
<1>8. A \in SUBSET Slots /\ B \in SUBSET Slots
    BY <1>6, <1>7
<1>9. C \in SUBSET B /\ C # {} /\ C = {f \in B : f[3] = Least1(3, B)}
      /\ Least1(3, B) \in Nat /\ \A f \in B : Least1(3, B) <= f[3]
    BY <1>1, <1>4, <1>7, <1>8
<1>10. D \in SUBSET C /\ D # {} /\ D = {f \in C : f[4] = Least1(4, C)}
      /\ Least1(4, C) \in Nat /\ \A f \in C : Least1(4, C) <= f[4]
    BY <1>1, <1>5, <1>8, <1>9
<1>11. PICK e : e \in D
    BY <1>10
<1>12. ASSUME NEW f \in S \ {e} PROVE Before(e, f)
    <2>1. e \in Slots /\ f \in Slots /\ e # f
        BY <1>6, <1>7, <1>9, <1>10, <1>11, <1>12
    <2>2. \A n \in 1..4 : e[n] \in Nat /\ f[n] \in Nat
        BY <2>1, SlotsAre
    <2>3. e = <<e[1], e[2], e[3], e[4]>> /\ f = <<f[1], f[2], f[3], f[4]>>
        BY <2>1, SlotsAre
    <2>4. e[1] < f[1] \/ (e[1] = f[1] /\ f \in A)
        BY <1>6, <1>7, <1>9, <1>10, <1>11, <1>12, <2>2
    <2>5. CASE e[1] < f[1]
        BY <2>2, <2>5 DEF Before
    <2>6. CASE e[1] = f[1] /\ f \in A
        <3>1. e[2] < f[2] \/ (e[2] = f[2] /\ f \in B)
            BY <1>7, <1>9, <1>10, <1>11, <2>2, <2>6
        <3>2. CASE e[2] < f[2]
            BY <2>2, <2>6, <3>2 DEF Before
        <3>3. CASE e[2] = f[2] /\ f \in B
            <4>1. e[3] < f[3] \/ (e[3] = f[3] /\ f \in C)
                BY <1>9, <1>10, <1>11, <2>2, <3>3
            <4>2. CASE e[3] < f[3]
                BY <2>2, <2>6, <3>3, <4>2 DEF Before
            <4>3. CASE e[3] = f[3] /\ f \in C
                <5>1. e[4] <= f[4]
                    BY <1>10, <1>11, <2>2, <4>3
                <5>2. e[4] # f[4]
                    BY <2>1, <2>3, <2>6, <3>3, <4>3
                <5>3. e[4] < f[4]
                    BY <2>2, <5>1, <5>2
                <5> QED
                    BY <2>2, <2>6, <3>3, <4>3, <5>3 DEF Before
            <4> QED
                BY <4>1, <4>2, <4>3
        <3> QED
            BY <3>1, <3>2, <3>3
    <2> QED
        BY <2>4, <2>5, <2>6
<1>13. e \in S
    BY <1>6, <1>7, <1>9, <1>10, <1>11
<1>14. \E x \in S : \A f \in S \ {x} : Before(x, f)
    BY <1>12, <1>13, Zenon
<1> QED
    BY <1>14, Zenon DEF First

LEMMA RouterInvInit == RouterInit => RouterInv
<1> SUFFICES ASSUME RouterInit PROVE RouterInv
    OBVIOUS
<1> USE DEF RouterInit
<1>1. Unbound \in SessionStates /\ Fresh \in ClientStates
    BY DEF Unbound, Fresh, SessionStates, ClientStates
<1>2. RouterTypes
    BY <1>1 DEF RouterTypes
<1>3. /\ \A s \in Sessions : session[s].endpoint = None /\ session[s].target = 0
      /\ \A c \in Clients : client[c].endpoint = None /\ client[c].pc = "idle"
    BY DEF Unbound, Fresh
<1>4. \A c \in Clients : serves[c] \in Sessions
    OBVIOUS
<1> QED
    BY <1>2, <1>3, <1>4 DEF RouterInv, Calling, Placed, Reached, Agreement, Bound

\* The sessions and clients that a step of client c does not touch keep what
\* the invariant says of them.
LEMMA FitsKeeps ==
    ASSUME RouterInv, NEW c \in Clients, NEW v, NEW r, Fits(c, v, r),
           session' = [session EXCEPT ![serves[c]] = v],
           client' = [client EXCEPT ![c] = r],
           UNCHANGED <<profileName, serves>>
    PROVE  RouterInv'
<1> USE DEF RouterInv, RouterTypes
<1> DEFINE s == serves[c]
<1>1. s \in Sessions /\ \A d \in Clients : serves[d] \in Sessions
    OBVIOUS
<1>2. /\ session'[s] = v /\ \A t \in Sessions \ {s} : session'[t] = session[t]
      /\ client'[c] = r /\ \A d \in Clients \ {c} : client'[d] = client[d]
    BY <1>1
<1>3. v \in SessionStates /\ r \in ClientStates
    BY DEF Fits
<1>4. RouterTypes'
    BY <1>1, <1>3
<1>5. Calling'
    BY <1>2 DEF Fits, Calling
<1>6. /\ Chain' = Chain /\ Known' = Known
      /\ \A d : Alone(d)' = Alone(d)
      /\ \A e : Offered(e)' = Offered(e)
      /\ \A e, n : UpTo(e, n)' = UpTo(e, n)
    BY DEF Chain, Known, Alone, Offered, UpTo
<1>7. Placed'
    <2>1. ASSUME NEW t \in Sessions
          PROVE  /\ session'[t].endpoint # None => Known
                 /\ ~(session'[t].endpoint # None) => session'[t].target = 0
                 /\ ~session'[t].moved =>
                       /\ session'[t].target = 0 \/ session'[t].target < Len(Chain)
                       /\ session'[t].endpoint # None =>
                             /\ session'[t].under = profileName
                             /\ Offered(session'[t].endpoint)
        <3>1. CASE t = s
            BY <1>2, <3>1 DEF Fits
        <3>2. CASE t # s
            BY <1>2, <3>2 DEF Placed, Bound
        <3> QED
            BY <3>1, <3>2
    <2>2. ASSUME NEW d \in Clients, client'[d].endpoint # None, ~session'[serves[d]].moved
          PROVE  Offered(client'[d].endpoint)
        <3>1. ~session[serves[d]].moved
            BY <1>1, <1>2, <2>2 DEF Fits
        <3>2. CASE d = c
            BY <1>2, <2>2, <3>2 DEF Fits
        <3>3. CASE d # c
            BY <1>2, <2>2, <3>1, <3>3 DEF Placed
        <3> QED
            BY <3>2, <3>3
    <2> QED
        BY <1>6, <2>1, <2>2 DEF Placed, Bound
<1>8. ASSUME NEW d \in Clients, d # c, Alone(d) PROVE serves[d] # s
    BY <1>8 DEF Alone
<1>9. Reached'
    <2>1. ASSUME NEW d \in Clients, Alone(d), session'[serves[d]].endpoint # None,
                 ~session'[serves[d]].moved, ~session'[serves[d]].behind, Chain # << >>
          PROVE  /\ UpTo(session'[serves[d]].endpoint, session'[serves[d]].target)
                 /\ client'[d].endpoint # None =>
                       UpTo(client'[d].endpoint, session'[serves[d]].target)
        <3>1. CASE d = c
            BY <1>2, <2>1, <3>1 DEF Fits
        <3>2. CASE d # c
            BY <1>1, <1>2, <1>8, <2>1, <3>2 DEF Reached
        <3> QED
            BY <3>1, <3>2
    <2> QED
        BY <1>6, <2>1 DEF Reached
<1>10. Agreement'
    <2>1. ASSUME NEW d \in Clients, Alone(d), client'[d].endpoint # None,
                 session'[serves[d]].endpoint # None,
                 client'[d].endpoint # session'[serves[d]].endpoint
          PROVE  Model(client'[d].endpoint) # Model(session'[serves[d]].endpoint)
        <3>1. CASE d = c
            BY <1>2, <2>1, <3>1 DEF Fits
        <3>2. CASE d # c
            BY <1>1, <1>2, <1>8, <2>1, <3>2 DEF Agreement
        <3> QED
            BY <3>1, <3>2
    <2> QED
        BY <1>6, <2>1 DEF Agreement
<1> QED
    BY <1>4, <1>5, <1>7, <1>9, <1>10

\* Most steps of a client leave its endpoint and its session alone.
LEMMA CallKeeps ==
    ASSUME RouterInv, NEW c \in Clients, NEW r \in ClientStates,
           r.endpoint = client[c].endpoint, r.pc # "idle" => r.endpoint # None,
           client' = [client EXCEPT ![c] = r],
           UNCHANGED <<profileName, session, serves>>
    PROVE  RouterInv'
<1> DEFINE v == session[serves[c]]
<1>1. session \in [Sessions -> SessionStates] /\ serves[c] \in Sessions
    BY DEF RouterInv, RouterTypes
<1>2. session' = [session EXCEPT ![serves[c]] = v]
    BY <1>1
<1>3. Fits(c, v, r)
    BY <1>1 DEF Fits, RouterInv, Placed, Reached, Agreement, Bound
<1> QED
    BY <1>2, <1>3, FitsKeeps

\* Again moves the client to endpoint e.
LEMMA AgainIs ==
    ASSUME RouterInv, NEW c \in Clients, NEW e \in Slots, Again(c, e)
    PROVE  \E r \in ClientStates : r.endpoint = e /\ client' = [client EXCEPT ![c] = r]
<1>1. client[c] \in ClientStates /\ MaxRetries \in Nat
    BY RouterAssumption DEF RouterInv, RouterTypes
<1> DEFINE x == [client[c] EXCEPT !.endpoint = e, !.built = @ /\ e = client[c].endpoint]
           next == [x EXCEPT !.pc = "send", !.attempt = @ + 1]
           last == [x EXCEPT !.pc = "idle", !.attempt = 0]
<1>2. x \in ClientStates /\ x.endpoint = e
    BY <1>1 DEF ClientStates
<1> HIDE DEF x
<1>3. next \in ClientStates /\ last \in ClientStates /\ next.endpoint = e /\ last.endpoint = e
    <2>1. PICK u : u = [x EXCEPT !.pc = "send"]
        OBVIOUS
    <2>2. PICK w : w = [x EXCEPT !.pc = "idle"]
        OBVIOUS
    <2>3. u \in ClientStates /\ u.endpoint = e /\ w \in ClientStates /\ w.endpoint = e
        BY <1>2, <2>1, <2>2 DEF ClientStates
    <2>4. next = [u EXCEPT !.attempt = @ + 1] /\ last = [w EXCEPT !.attempt = 0]
        BY <1>2, <2>1, <2>2 DEF ClientStates
    <2> HIDE DEF next, last
    <2> QED
        BY <2>3, <2>4 DEF ClientStates
<1>4. client' = [client EXCEPT ![c] = next] \/ client' = [client EXCEPT ![c] = last]
    BY DEF Again, ClientBecomes, x
<1> QED
    BY <1>3, <1>4

LEMMA ReturnKeeps ==
    ASSUME RouterInv, NEW c \in Clients, Return(c), UNCHANGED <<profileName, session, serves>>
    PROVE  RouterInv'
<1>1. client[c] \in ClientStates
    BY DEF RouterInv, RouterTypes
<1> DEFINE r == [client[c] EXCEPT !.pc = "idle", !.attempt = 0]
<1>2. r \in ClientStates /\ r.endpoint = client[c].endpoint /\ r.pc = "idle"
    BY <1>1 DEF ClientStates
<1>3. client' = [client EXCEPT ![c] = r]
    BY DEF Return, ClientBecomes
<1> HIDE DEF r
<1> QED
    BY <1>2, <1>3, CallKeeps

\* The calls, but for the selection of an endpoint.
LEMMA SendKeeps ==
    ASSUME RouterInv, NEW c \in Clients,
           NoClient(c) \/ Succeed(c) \/ FailFast(c) \/ Transient(c) \/ Unknown(c)
             \/ Quota(c) \/ ModelNotFound(c)
    PROVE  RouterInv'
<1>1. client[c] \in ClientStates /\ MaxRetries \in Nat
    BY RouterAssumption DEF RouterInv, RouterTypes
<1>2. client[c].pc = "send" /\ client[c].endpoint # None
    BY DEF NoClient, Succeed, FailFast, Transient, Unknown, Quota, ModelNotFound, ClientAt,
           RouterInv, Calling
<1>3. UNCHANGED <<profileName, session, serves>>
    BY DEF NoClient, Succeed, FailFast, Transient, Unknown, Quota, ModelNotFound, RouterStays
<1>4. CASE NoClient(c)
    BY <1>3, <1>4, ReturnKeeps DEF NoClient
<1>5. CASE ~NoClient(c)
    <2> DEFINE b == Built(c)
               over == [b EXCEPT !.pc = "idle", !.attempt = 0]
               more == [b EXCEPT !.attempt = @ + 1]
               key == [b EXCEPT !.pc = "key"]
               target == [b EXCEPT !.pc = "target"]
    <2>1. b \in ClientStates /\ b.endpoint = client[c].endpoint /\ b.pc = "send"
        BY <1>1, <1>2 DEF Built, ClientStates
    <2> HIDE DEF b
    <2>2. \A r \in {over, more, key, target} :
             r \in ClientStates /\ r.endpoint = client[c].endpoint
        <3>1. /\ more \in ClientStates /\ more.endpoint = client[c].endpoint
              /\ key \in ClientStates /\ key.endpoint = client[c].endpoint
              /\ target \in ClientStates /\ target.endpoint = client[c].endpoint
            BY <2>1 DEF ClientStates
        <3>2. PICK w : w = [b EXCEPT !.pc = "idle"]
            OBVIOUS
        <3>3. w \in ClientStates /\ w.endpoint = client[c].endpoint
            BY <2>1, <3>2 DEF ClientStates
        <3>4. over = [w EXCEPT !.attempt = 0]
            BY <2>1, <3>2 DEF ClientStates
        <3>5. over \in ClientStates /\ over.endpoint = client[c].endpoint
            BY <3>3, <3>4 DEF ClientStates
        <3> HIDE DEF over, more, key, target
        <3> QED
            BY <3>1, <3>5
    <2>3. \E r \in {over, more, key, target} : client' = [client EXCEPT ![c] = r]
        BY <1>5 DEF Succeed, FailFast, Transient, Unknown, Quota, ModelNotFound,
                    ClientBecomes, b
    <2> HIDE DEF over, more, key, target
    <2> QED
        BY <1>2, <1>3, <2>2, <2>3, CallKeeps
<1> QED
    BY <1>4, <1>5

\* An endpoint that was selected is at the session's target.
LEMMA BeginKeeps ==
    ASSUME RouterInv, NEW c \in Clients, NEW r0 \in ClientStates,
           r0.endpoint = client[c].endpoint, r0.pc \in {"idle", "send"}, Begins(c, r0)
    PROVE  RouterInv'
<1> DEFINE s == serves[c]
<1>1. /\ client[c] \in ClientStates /\ s \in Sessions /\ session[s] \in SessionStates
      /\ session \in [Sessions -> SessionStates]
    BY DEF RouterInv, RouterTypes
<1>2. UNCHANGED <<profileName, serves>>
    BY DEF Begins
<1>3. CASE client[c].endpoint # None /\ ClientBecomes(c, [r0 EXCEPT !.calls = @ + 1])
             /\ UNCHANGED session
    <2> DEFINE r == [r0 EXCEPT !.calls = @ + 1]
    <2>1. r \in ClientStates /\ r.endpoint = client[c].endpoint
        BY DEF ClientStates
    <2>2. client' = [client EXCEPT ![c] = r]
        BY <1>3 DEF ClientBecomes
    <2> HIDE DEF r
    <2> QED
        BY <1>2, <1>3, <2>1, <2>2, CallKeeps
<1>4. ASSUME client[c].endpoint = None, NEW e \in Slots, Select(s, e),
             ClientBecomes(c, [r0 EXCEPT !.calls = @ + 1, !.endpoint = e])
      PROVE  RouterInv'
    <2> DEFINE r == [r0 EXCEPT !.calls = @ + 1, !.endpoint = e]
    <2>1. r \in ClientStates /\ r.endpoint = e
        <3>1. PICK u : u = [r0 EXCEPT !.calls = @ + 1]
            OBVIOUS
        <3>2. u \in ClientStates
            BY <3>1 DEF ClientStates
        <3>3. r = [u EXCEPT !.endpoint = e]
            BY <3>1 DEF ClientStates
        <3> HIDE DEF r
        <3> QED
            BY <3>2, <3>3 DEF ClientStates
    <2>2. client' = [client EXCEPT ![c] = r]
        BY <1>4 DEF ClientBecomes
    <2>3. e # None /\ Known
        BY <1>4, SlotsAre DEF Select
    <2> HIDE DEF r
    <2>4. CASE Sticks(s)
        <3> DEFINE v == session[s]
        <3>1. session' = [session EXCEPT ![s] = v] /\ v.endpoint = e
            BY <1>1, <1>4, <2>4 DEF Select, Selectable
        <3>2. Fits(c, v, r)
            BY <1>1, <2>1, <2>3, <3>1 DEF Fits, RouterInv, Placed, Reached, Bound
        <3> QED
            BY <1>2, <2>2, <3>1, <3>2, FitsKeeps
    <2>5. CASE ~Sticks(s)
        <3> DEFINE u == [session[s] EXCEPT !.endpoint = e]
                   v == [u EXCEPT !.under = profileName]
        <3>1. session' = [session EXCEPT ![s] = v] /\ e \in Candidates(session[s].target)
            BY <1>1, <1>4, <2>5 DEF Select, Selectable
        <3>2. /\ v \in SessionStates /\ v.endpoint = e /\ v.under = profileName
              /\ v.target = session[s].target /\ v.moved = session[s].moved
              /\ v.behind = session[s].behind
            BY <1>1, <2>3 DEF SessionStates, Known
        <3>3. Chain \in Seq(SUBSET STRING) /\ v.target \in Nat
            BY <3>2, <2>3, RouterAssumption DEF Chain, Known, Profiles, Defaulted, SessionStates
        <3>4. v.target >= Len(Chain) \/ Model(e) \in Chain[v.target + 1]
            BY <3>1, <3>2 DEF Candidates, Matches
        <3>5. ~v.moved => v.target = 0 \/ v.target < Len(Chain)
            BY <1>1, <3>2 DEF RouterInv, Placed
        <3> HIDE DEF u, v
        <3>6. ~v.moved => Chain = << >> \/ UpTo(e, v.target)
            BY <3>3, <3>4, <3>5 DEF UpTo
        <3>7. ~v.moved => Offered(e)
            BY <3>6 DEF UpTo, Offered
        <3>8. Fits(c, v, r)
            BY <2>1, <2>3, <3>2, <3>5, <3>6, <3>7 DEF Fits
        <3> QED
            BY <1>2, <2>2, <3>1, <3>8, FitsKeeps
    <2> QED
        BY <2>4, <2>5
<1> QED
    BY <1>3, <1>4 DEF Begins

\* A fallback goes to a target further on, by one unless it goes past some.
LEMMA FallBackIs ==
    ASSUME RouterInv, NEW s \in Sessions, Bound(s), CanFallBack(s)
    PROVE  LET v == FallBack(s) IN
           /\ v \in SessionStates /\ v.endpoint \in Slots /\ v.under = profileName
           /\ v.moved = session[s].moved /\ v.target = session[s].target + 1
           /\ v.target < Len(Chain) /\ Known
           /\ session[s].behind => v.behind
           /\ \E k \in DOMAIN Chain :
                 /\ k > session[s].target + 1 /\ Model(v.endpoint) \in Chain[k]
                 /\ ~v.behind => k = v.target + 1
<1> DEFINE st == session[s]
           k == Least(Further(st))
           e == First(Candidates(k))
           v1 == [st EXCEPT !.endpoint = e]
           v2 == [v1 EXCEPT !.under = profileName]
           v3 == [v2 EXCEPT !.target = @ + 1]
           v4 == [v3 EXCEPT !.key = 0]
           v5 == [v4 EXCEPT !.behind = @ \/ k > st.target + 1]
<1>1. Known /\ st \in SessionStates
    BY DEF RouterInv, RouterTypes, Placed
<1>2. Chain \in Seq(SUBSET STRING)
    BY <1>1, RouterAssumption DEF Chain, Known, Profiles, Defaulted
<1>3. st.target \in Nat
    BY <1>1 DEF SessionStates
<1>4. Further(st) \in SUBSET Nat /\ Further(st) # {}
    BY <1>2, <1>3 DEF Further, CanFallBack
<1>5. k \in Further(st)
    BY <1>4, LeastIs
<1> HIDE DEF k
<1>6. Len(Chain) \in Nat /\ DOMAIN Chain = 1..Len(Chain)
    BY <1>2
<1>7. k \in (st.target + 1)..(Len(Chain) - 1) /\ Candidates(k) # {}
    BY <1>5 DEF Further
<1> HIDE DEF st
<1>8. k \in Nat /\ k > st.target /\ k < Len(Chain) /\ k + 1 \in DOMAIN Chain
    BY <1>3, <1>6, <1>7
<1>9. e \in Candidates(k)
    <2>1. Candidates(k) \in SUBSET Slots
        BY DEF Candidates
    <2> QED
        BY <1>7, <2>1, FirstIs
<1>10. e \in Slots /\ Model(e) \in Chain[k + 1]
    BY <1>6, <1>8, <1>9 DEF Candidates, Matches
<1> HIDE DEF e
<1>11. FallBack(s) = v5
    BY <1>1 DEF FallBack, st, k, e, SessionStates
<1>12. v1 \in SessionStates /\ v1.endpoint = e /\ v1.moved = st.moved
       /\ v1.target = st.target /\ v1.behind = st.behind
    BY <1>1, <1>10 DEF SessionStates
<1> HIDE DEF v1
<1>13. v2 \in SessionStates /\ v2.endpoint = e /\ v2.moved = st.moved
       /\ v2.target = st.target /\ v2.behind = st.behind /\ v2.under = profileName
    BY <1>1, <1>12 DEF SessionStates, Known
<1> HIDE DEF v2
<1>14. v3 \in SessionStates /\ v3.endpoint = e /\ v3.moved = st.moved
       /\ v3.target = st.target + 1 /\ v3.behind = st.behind /\ v3.under = profileName
    BY <1>3, <1>13 DEF SessionStates
<1> HIDE DEF v3
<1>15. v4 \in SessionStates /\ v4.endpoint = e /\ v4.moved = st.moved
       /\ v4.target = st.target + 1 /\ v4.behind = st.behind /\ v4.under = profileName
    BY <1>14 DEF SessionStates
<1> HIDE DEF v4
<1>16. v5 \in SessionStates /\ v5.endpoint = e /\ v5.moved = st.moved
       /\ v5.target = st.target + 1 /\ v5.under = profileName
       /\ v5.behind = (st.behind \/ k > st.target + 1)
    BY <1>15 DEF SessionStates
<1> HIDE DEF v5
<1>17. k + 1 \in DOMAIN Chain /\ k + 1 > st.target + 1 /\ v5.target < Len(Chain)
    BY <1>3, <1>6, <1>8, <1>16
<1>18. (~v5.behind => ~(k > st.target + 1)) /\ (st.behind => v5.behind)
    BY <1>16, Zenon
<1>19. ~v5.behind => k + 1 = v5.target + 1
    BY <1>3, <1>8, <1>16, <1>18
<1> QED
    BY <1>1, <1>10, <1>11, <1>16, <1>17, <1>18, <1>19 DEF st

\* What a fallback may leave, in the session and in a client that follows it
\* or does not.
LEMMA FallBackFits ==
    ASSUME RouterInv, NEW c \in Clients, Bound(serves[c]), CanFallBack(serves[c]),
           client[c].endpoint # None, NEW r \in ClientStates,
           \/ r.endpoint = FallBack(serves[c]).endpoint
           \/ /\ r.endpoint = client[c].endpoint
              /\ Model(r.endpoint) # Model(FallBack(serves[c]).endpoint)
    PROVE  Fits(c, FallBack(serves[c]), r)
<1> DEFINE s == serves[c]
           v == FallBack(s)
<1>1. s \in Sessions /\ session[s] \in SessionStates
    BY DEF RouterInv, RouterTypes
<1>2. /\ v \in SessionStates /\ v.endpoint \in Slots /\ v.under = profileName
      /\ v.moved = session[s].moved /\ v.target = session[s].target + 1
      /\ v.target < Len(Chain) /\ Known
      /\ session[s].behind => v.behind
    BY <1>1, FallBackIs
<1>3. PICK k \in DOMAIN Chain :
         /\ k > session[s].target + 1 /\ Model(v.endpoint) \in Chain[k]
         /\ ~v.behind => k = v.target + 1
    BY <1>1, FallBackIs
<1> HIDE DEF v
<1>4. v.endpoint # None /\ r.endpoint # None
    BY <1>2, SlotsAre DEF v
<1>5. ~v.moved => Offered(v.endpoint) /\ Offered(r.endpoint)
    BY <1>1, <1>2, <1>3 DEF Offered, RouterInv, Placed, v
<1>6. session[s].target \in Nat /\ \A j \in DOMAIN Chain : j \in Nat
    <2>1. Chain \in Seq(SUBSET STRING)
        BY <1>2, RouterAssumption DEF Chain, Known, Profiles, Defaulted
    <2> QED
        BY <1>1, <2>1 DEF SessionStates
<1>7. ~v.behind => UpTo(v.endpoint, v.target)
    BY <1>2, <1>3, <1>6 DEF UpTo
<1>8. (Alone(c) /\ ~v.moved /\ ~v.behind /\ Chain # << >>) => UpTo(r.endpoint, v.target)
    <2>1. SUFFICES ASSUME Alone(c), ~v.moved, ~v.behind, Chain # << >>
                   PROVE  UpTo(r.endpoint, v.target)
        OBVIOUS
    <2>2. CASE r.endpoint = v.endpoint
        BY <1>7, <2>1, <2>2
    <2>3. CASE r.endpoint = client[c].endpoint
        <3>1. UpTo(client[c].endpoint, session[s].target)
            BY <1>2, <2>1 DEF RouterInv, Reached, Bound
        <3> QED
            BY <1>2, <1>6, <2>3, <3>1 DEF UpTo
    <2> QED
        BY <2>2, <2>3 DEF v
<1>9. r.endpoint # v.endpoint => Model(r.endpoint) # Model(v.endpoint)
    BY DEF v
<1> QED
    BY <1>2, <1>4, <1>5, <1>7, <1>8, <1>9 DEF Fits, v

\* NextEndpoint with another key: the model stays, for the session and for the
\* client that follows it.
LEMMA KeyKeeps ==
    ASSUME RouterInv, NEW c \in Clients, Bound(serves[c]), client[c].endpoint # None,
           NEW e \in NextKeys(session[serves[c]], client[c].endpoint),
           session' = [session EXCEPT ![serves[c]].endpoint = e,
                                      ![serves[c]].under = profileName,
                                      ![serves[c]].key = @ + 1],
           Again(c, e), UNCHANGED <<profileName, serves>>
    PROVE  RouterInv'
<1> DEFINE s == serves[c]
           v1 == [session[s] EXCEPT !.endpoint = e]
           v2 == [v1 EXCEPT !.under = profileName]
           v == [v2 EXCEPT !.key = @ + 1]
<1>1. /\ s \in Sessions /\ session[s] \in SessionStates
      /\ session \in [Sessions -> SessionStates]
    BY DEF RouterInv, RouterTypes
<1>2. e \in Slots /\ e # None /\ Model(e) = Model(client[c].endpoint)
    BY SlotsAre DEF NextKeys
<1>3. Known
    BY <1>1 DEF RouterInv, Placed
<1>4. session' = [session EXCEPT ![s] = v]
    BY <1>1
<1>5. v1 \in SessionStates /\ v1.endpoint = e /\ v1.target = session[s].target
      /\ v1.moved = session[s].moved /\ v1.behind = session[s].behind
    BY <1>1, <1>2 DEF SessionStates
<1> HIDE DEF v1
<1>6. v2 \in SessionStates /\ v2.endpoint = e /\ v2.target = session[s].target
      /\ v2.moved = session[s].moved /\ v2.behind = session[s].behind
      /\ v2.under = profileName
    BY <1>3, <1>5 DEF SessionStates, Known
<1> HIDE DEF v2
<1>7. v \in SessionStates /\ v.endpoint = e /\ v.target = session[s].target
      /\ v.moved = session[s].moved /\ v.behind = session[s].behind
      /\ v.under = profileName
    BY <1>6 DEF SessionStates
<1> HIDE DEF v
<1>8. PICK r \in ClientStates : r.endpoint = e /\ client' = [client EXCEPT ![c] = r]
    BY <1>2, AgainIs
<1>9. ~v.moved => Offered(e)
    BY <1>1, <1>2, <1>7 DEF RouterInv, Placed, Offered
<1>10. (Alone(c) /\ ~v.moved /\ ~v.behind /\ Chain # << >>) => UpTo(e, v.target)
    BY <1>1, <1>2, <1>7 DEF RouterInv, Reached, UpTo, Bound
<1>11. Fits(c, v, r)
    BY <1>1, <1>2, <1>3, <1>7, <1>8, <1>9, <1>10 DEF Fits, RouterInv, Placed
<1> QED
    BY <1>4, <1>8, <1>11, FitsKeeps

\* A fallback that the client follows.
LEMMA FollowKeeps ==
    ASSUME RouterInv, NEW c \in Clients, Bound(serves[c]), CanFallBack(serves[c]),
           client[c].endpoint # None,
           session' = [session EXCEPT ![serves[c]] = FallBack(serves[c])],
           Again(c, FallBack(serves[c]).endpoint), UNCHANGED <<profileName, serves>>
    PROVE  RouterInv'
<1>1. serves[c] \in Sessions
    BY DEF RouterInv, RouterTypes
<1>2. FallBack(serves[c]).endpoint \in Slots
    BY <1>1, FallBackIs
<1>3. PICK r \in ClientStates : /\ r.endpoint = FallBack(serves[c]).endpoint
                                /\ client' = [client EXCEPT ![c] = r]
    BY <1>2, AgainIs
<1>4. Fits(c, FallBack(serves[c]), r)
    BY <1>3, FallBackFits
<1> QED
    BY <1>3, <1>4, FitsKeeps

LEMMA NextEndpointKeeps ==
    ASSUME RouterInv, NEW c \in Clients, NextEndpoint(c)
    PROVE  RouterInv'
<1> DEFINE s == serves[c]
           e == client[c].endpoint
           keys == NextKeys(session[s], e)
<1>1. client[c].pc = "key" /\ e # None /\ UNCHANGED <<profileName, serves>>
    BY DEF NextEndpoint, ClientAt, RouterInv, Calling
<1>2. client[c] \in ClientStates
    BY DEF RouterInv, RouterTypes
<1>3. CASE /\ Bound(s) /\ keys # {}
           /\ session' = [session EXCEPT ![s].endpoint = First(keys),
                                         ![s].under = profileName, ![s].key = @ + 1]
           /\ Again(c, First(keys))
    <2>1. keys \in SUBSET Slots
        BY DEF NextKeys
    <2>2. First(keys) \in keys
        BY <1>3, <2>1, FirstIs
    <2> QED
        BY <1>1, <1>3, <2>2, KeyKeeps
<1>4. CASE /\ Bound(s) /\ CanFallBack(s)
           /\ session' = [session EXCEPT ![s] = FallBack(s)]
           /\ IF Model(FallBack(s).endpoint) = Model(e)
              THEN Again(c, FallBack(s).endpoint) ELSE Return(c)
    <2>1. CASE Model(FallBack(s).endpoint) = Model(e)
        BY <1>1, <1>4, <2>1, FollowKeeps
    <2>2. CASE Model(FallBack(s).endpoint) # Model(e)
        <3> DEFINE u == [client[c] EXCEPT !.pc = "idle"]
                   r == [u EXCEPT !.attempt = 0]
        <3>1. u \in ClientStates /\ u.endpoint = e
            BY <1>2 DEF ClientStates
        <3> HIDE DEF u
        <3>2. r \in ClientStates /\ r.endpoint = e
            BY <3>1 DEF ClientStates
        <3>3. client' = [client EXCEPT ![c] = r]
            BY <1>2, <1>4, <2>2 DEF Return, ClientBecomes, u, ClientStates
        <3> HIDE DEF r
        <3>4. Fits(c, FallBack(s), r)
            BY <1>1, <1>4, <2>2, <3>2, FallBackFits
        <3> QED
            BY <1>1, <1>4, <3>3, <3>4, FitsKeeps
    <2> QED
        BY <2>1, <2>2
<1>5. CASE Return(c) /\ UNCHANGED session
    BY <1>1, <1>5, ReturnKeeps
<1> QED
    BY <1>3, <1>4, <1>5 DEF NextEndpoint

LEMMA TryNextTargetKeeps ==
    ASSUME RouterInv, NEW c \in Clients, TryNextTarget(c)
    PROVE  RouterInv'
<1>1. client[c].endpoint # None /\ UNCHANGED <<profileName, serves>>
    BY DEF TryNextTarget, ClientAt, RouterInv, Calling
<1>2. CASE /\ Bound(serves[c]) /\ CanFallBack(serves[c])
           /\ session' = [session EXCEPT ![serves[c]] = FallBack(serves[c])]
           /\ Again(c, FallBack(serves[c]).endpoint)
    BY <1>1, <1>2, FollowKeeps
<1>3. CASE Return(c) /\ UNCHANGED session
    BY <1>1, <1>3, ReturnKeeps
<1> QED
    BY <1>2, <1>3 DEF TryNextTarget

\* A session in use is marked when the profile is switched; another one has
\* neither an endpoint nor a client with one.
LEMMA SetProfileKeeps ==
    ASSUME RouterInv, NEW p \in DOMAIN Profiles, SetProfile(p)
    PROVE  RouterInv'
<1> DEFINE marked(s) == [session[s] EXCEPT !.moved = @ \/ InUse(s)]
<1>1. /\ profileName' = p /\ UNCHANGED <<serves, client>>
      /\ session' = [s \in Sessions |-> marked(s)]
    BY DEF SetProfile
<1>2. ASSUME NEW s \in Sessions
      PROVE  /\ marked(s) \in SessionStates /\ marked(s).endpoint = session[s].endpoint
             /\ marked(s).target = session[s].target
             /\ InUse(s) => marked(s).moved
    <2>1. session[s] \in SessionStates
        BY <1>2 DEF RouterInv, RouterTypes
    <2>2. PICK b \in BOOLEAN : b = (session[s].moved \/ InUse(s))
        <3>1. (session[s].moved \/ InUse(s)) \in BOOLEAN
            OBVIOUS
        <3> QED
            BY <3>1, Zenon
    <2>3. marked(s) = [session[s] EXCEPT !.moved = b]
        BY <2>1, <2>2 DEF SessionStates
    <2>4. InUse(s) => b
        BY <2>2
    <2> HIDE DEF marked
    <2> QED
        BY <2>1, <2>3, <2>4 DEF SessionStates
<1> HIDE DEF marked
<1>3. \A s \in Sessions :
         /\ session'[s] \in SessionStates /\ session'[s].endpoint = session[s].endpoint
         /\ session'[s].target = session[s].target
         /\ ~session'[s].moved =>
               /\ session[s].endpoint = None
               /\ \A c \in Clients : serves[c] = s => client[c].endpoint = None
    BY <1>1, <1>2 DEF InUse, Bound
<1>4. Known'
    BY <1>1 DEF Known, Profiles
<1>5. RouterTypes' /\ Calling' /\ Agreement'
    BY <1>1, <1>3, <1>4 DEF RouterInv, RouterTypes, Calling, Agreement, Alone, Known
<1>6. \A s \in Sessions : session[s].endpoint = None => session[s].target = 0
    BY DEF RouterInv, Placed, Bound
<1>7. \A c \in Clients : serves[c] \in Sessions
    BY DEF RouterInv, RouterTypes
<1>8. Placed'
    BY <1>1, <1>3, <1>4, <1>6, <1>7 DEF Placed, Bound
<1>9. Reached'
    BY <1>1, <1>3, <1>7 DEF Reached
<1> QED
    BY <1>5, <1>8, <1>9 DEF RouterInv

LEMMA ClearStickyKeeps ==
    ASSUME RouterInv, NEW s \in Sessions, ClearSticky(s)
    PROVE  RouterInv'
<1> DEFINE v == [Unbound EXCEPT !.moved = session[s].moved]
<1>1. /\ session' = [session EXCEPT ![s] = v] /\ UNCHANGED <<profileName, serves, client>>
      /\ session \in [Sessions -> SessionStates] /\ session[s] \in SessionStates
    BY DEF ClearSticky, RouterInv, RouterTypes
<1>2. v \in SessionStates /\ v.endpoint = None /\ v.target = 0 /\ v.moved = session[s].moved
    BY <1>1 DEF SessionStates, Unbound
<1> HIDE DEF v
<1>3. /\ session'[s] = v /\ \A t \in Sessions \ {s} : session'[t] = session[t]
      /\ \A c \in Clients : serves[c] \in Sessions
    BY <1>1 DEF RouterInv, RouterTypes
<1>4. RouterTypes' /\ Calling'
    BY <1>1, <1>2 DEF RouterInv, RouterTypes, Calling
<1>5. /\ Chain' = Chain /\ Known' = Known
      /\ \A d : Alone(d)' = Alone(d)
      /\ \A e : Offered(e)' = Offered(e)
      /\ \A e, n : UpTo(e, n)' = UpTo(e, n)
    BY <1>1 DEF Chain, Known, Alone, Offered, UpTo
<1>6. Placed'
    <2>1. \A t \in Sessions : session'[t].moved = session[t].moved
        BY <1>2, <1>3
    <2> QED
        BY <1>1, <1>2, <1>3, <1>5, <2>1 DEF Placed, RouterInv, Bound
<1>7. Reached'
    BY <1>1, <1>2, <1>3, <1>5 DEF Reached, RouterInv
<1>8. Agreement'
    BY <1>1, <1>2, <1>3, <1>5 DEF Agreement, RouterInv
<1> QED
    BY <1>4, <1>6, <1>7, <1>8 DEF RouterInv

LEMMA RouterInvNext == RouterInv /\ [RouterNext]_routerVars => RouterInv'
<1> SUFFICES ASSUME RouterInv, [RouterNext]_routerVars PROVE RouterInv'
    OBVIOUS
<1>1. ASSUME NEW c \in Clients, Call(c) PROVE RouterInv'
    <2>1. client[c] \in ClientStates
        BY <1>1 DEF RouterInv, RouterTypes
    <2>2. CASE SendMessage(c)
        <3> DEFINE r == [client[c] EXCEPT !.pc = "send"]
        <3>1. r \in ClientStates /\ r.endpoint = client[c].endpoint /\ r.pc = "send"
            BY <2>1 DEF ClientStates
        <3>2. Begins(c, r)
            BY <2>2 DEF SendMessage
        <3> HIDE DEF r
        <3> QED
            BY <3>1, <3>2, BeginKeeps
    <2>3. CASE SendMessageStream(c)
        <3> DEFINE r == [client[c] EXCEPT !.built = TRUE]
        <3>1. client[c].pc = "idle"
            BY <2>3 DEF SendMessageStream, Begins, ClientAt
        <3>2. r \in ClientStates /\ r.endpoint = client[c].endpoint /\ r.pc = "idle"
            BY <2>1, <3>1 DEF ClientStates
        <3>3. Begins(c, r)
            BY <2>3 DEF SendMessageStream
        <3> HIDE DEF r
        <3> QED
            BY <3>2, <3>3, BeginKeeps
    <2> QED
        BY <1>1, <2>2, <2>3, SendKeeps DEF Call
<1>2. ASSUME NEW c \in Clients, Failover(c) PROVE RouterInv'
    BY <1>2, SendKeeps, NextEndpointKeeps, TryNextTargetKeeps DEF Failover
<1>3. CASE (\E i \in Slots : CooldownOver(i)) \/ UNCHANGED routerVars
    <2>1. UNCHANGED <<profileName, session, serves, client>>
        BY <1>3 DEF CooldownOver, routerVars
    <2> QED
        BY <2>1 DEF RouterInv, RouterTypes, Calling, Placed, Reached, Agreement, Bound, Known,
                    Chain, Offered, UpTo, Alone
<1>4. ASSUME NEW p \in DOMAIN Profiles, SetProfile(p) PROVE RouterInv'
    BY <1>4, SetProfileKeeps
<1>5. ASSUME NEW s \in Sessions, ClearSticky(s) PROVE RouterInv'
    BY <1>5, ClearStickyKeeps
<1> QED
    BY <1>1, <1>2, <1>3, <1>4, <1>5 DEF RouterNext

\* The client at "target" that goes on to send has followed a fallback.
LEMMA FallbackMovesOn ==
    ASSUME RouterInv, RouterNext, NEW c \in Clients, ClientAt(c, "target"),
           client'[c].pc = "send", Alone(c), ~session[serves[c]].moved,
           ~session[serves[c]].behind, Disjoint(Chain)
    PROVE  Model(client'[c].endpoint) # Model(client[c].endpoint)
<1> DEFINE s == serves[c]
           e == client[c].endpoint
<1>1. /\ s \in Sessions /\ client[c] \in ClientStates /\ session[s] \in SessionStates
      /\ client \in [Clients -> ClientStates] /\ e # None /\ client[c].pc = "target"
    BY DEF RouterInv, RouterTypes, Calling, ClientAt
<1>2. ASSUME NEW d \in Clients, d # c, \E r : client' = [client EXCEPT ![d] = r]
      PROVE  FALSE
    BY <1>1, <1>2
<1>3. ASSUME NEW d \in Clients, Call(d) \/ Failover(d) PROVE TryNextTarget(c)
    <2>1. CASE d # c
        <3>1. \E r : client' = [client EXCEPT ![d] = r]
            BY <1>3 DEF Call, Failover, SendMessage, SendMessageStream, Begins, NoClient,
                        Succeed, FailFast, Transient, Unknown, Quota, ModelNotFound,
                        NextEndpoint, TryNextTarget, Return, Again, ClientBecomes
        <3> QED
            BY <1>2, <2>1, <3>1
    <2>2. CASE d = c
        BY <1>1, <1>3, <2>2
           DEF Call, Failover, SendMessage, SendMessageStream, Begins, NoClient, Succeed,
               FailFast, Transient, Unknown, Quota, ModelNotFound, NextEndpoint, ClientAt
    <2> QED
        BY <2>1, <2>2
<1>4. TryNextTarget(c)
    <2>1. client' # client
        BY <1>1
    <2>2. \E d \in Clients : Call(d) \/ Failover(d)
        BY <2>1 DEF RouterNext, CooldownOver, SetProfile, ClearSticky
    <2> QED
        BY <1>3, <2>2
<1>5. Bound(s) /\ CanFallBack(s) /\ Again(c, FallBack(s).endpoint)
    <2>1. CASE Return(c)
        <3>1. client'[c].pc = "idle"
            BY <1>1, <2>1 DEF Return, ClientBecomes, ClientStates
        <3> QED
            BY <3>1
    <2> QED
        BY <1>4, <2>1 DEF TryNextTarget
<1>6. FallBack(s).endpoint \in Slots
    BY <1>1, <1>5, FallBackIs
<1>7. client'[c].endpoint = FallBack(s).endpoint
    BY <1>1, <1>5, <1>6, AgainIs
<1>8. PICK k \in DOMAIN Chain :
         k > session[s].target + 1 /\ Model(FallBack(s).endpoint) \in Chain[k]
    BY <1>1, <1>5, FallBackIs
<1>9. PICK j \in DOMAIN Chain : j <= session[s].target + 1 /\ Model(e) \in Chain[j]
    BY <1>1, <1>5, <1>8 DEF RouterInv, Reached, Bound, UpTo
<1>10. j # k
    <2>1. session[s].target \in Nat
        BY <1>1 DEF SessionStates
    <2>2. Chain \in Seq(SUBSET STRING)
        BY <1>1, <1>5, RouterAssumption
           DEF RouterInv, Placed, Chain, Known, Profiles, Defaulted
    <2> QED
        BY <1>8, <1>9, <2>1, <2>2
<1>11. Chain[j] \cap Chain[k] = {}
    BY <1>8, <1>9, <1>10 DEF Disjoint
<1> QED
    BY <1>7, <1>8, <1>9, <1>11

\* A client that has its session to itself and the router agree on its endpoint,
\* unless the router moved the session to a model the client dropped (sticky.go,
\* tryNextKey): for every configuration and number of clients.
THEOREM ClientsAgree == RouterSpec => []Agreement
<1>1. RouterInv => Agreement
    BY DEF RouterInv
<1> QED
    BY RouterInvInit, RouterInvNext, <1>1, PTL DEF RouterSpec

\* A session that nobody moved is on a model of its profile (SelectEndpoint,
\* NextEndpoint): for every configuration.
THEOREM SessionsAreOfProfile == RouterSpec => []OfProfile
<1>1. RouterInv => OfProfile
    BY DEF RouterInv, Placed, OfProfile, Offered, Chain
<1> QED
    BY RouterInvInit, RouterInvNext, <1>1, PTL DEF RouterSpec

\* The fallback never sends a client back to the model that just failed, while
\* no target was skipped (nextTargetLocked): for every chain of targets.
THEOREM FallbacksMove == RouterSpec => FallbackMoves
<1> DEFINE Moves == \A c \in Clients :
               LET s == session[serves[c]] IN
               (/\ ClientAt(c, "target") /\ client'[c].pc = "send" /\ Alone(c)
                /\ ~s.moved /\ ~s.behind /\ Disjoint(Chain))
                 => Model(client'[c].endpoint) # Model(client[c].endpoint)
<1>1. RouterInv /\ [RouterNext]_routerVars => [Moves]_routerVars
    <2>1. RouterInv /\ RouterNext => Moves
        BY FallbackMovesOn
    <2> QED
        BY <2>1
<1>2. RouterSpec => [][Moves]_routerVars
    BY RouterInvInit, RouterInvNext, <1>1, PTL DEF RouterSpec
<1> QED
    BY <1>2 DEF FallbackMoves

-----------------------------------------------------------------------------
(* The portal.                                                             *)

\* The state of a process, of a portal, of the directory of a session and of a
\* request.
ProcessStates == [is : {"none", "jenny", "other", "portal"}, live : BOOLEAN, by : Nat,
                  on : Nat, for : Nat, begun : BOOLEAN]
PortalStates == [at : {"off", "open", "lock", "check", "write", "serving", "draining",
                       "failed", "gone"},
                 pid : Pids \cup {NoPid}, file : Nat]
Endings == [Enders -> {"no", "close", "remove", "removed"}]
LockFiles == [lock : Nat, pid : Pids \cup {NoPid}]
Directories == [is : BOOLEAN, pid : Pids \cup {NoPid}, by : Nat, lines : Seq(Nat)]
RequestPlaces == {"none", "in", "spawn", "record", "signal", "removeAll", "wait", "read",
                  "download", "extract", "done"}
RequestStates == [at : RequestPlaces, kind : Kinds \cup {"none"}, by : Nat, s : Nat,
                  pid : Pids \cup {NoPid}, rec : Nat, last : Nat, size : Nat, from : Nat,
                  sent : SUBSET Nat, torn : BOOLEAN]

PortalTypes ==
    /\ proc \in [Pids -> ProcessStates]
    /\ portal \in [Portals -> PortalStates]
    /\ ending \in [Portals -> Endings]
    /\ path \in Nat /\ files \in Seq(LockFiles)
    /\ dir \in [SessionIds -> Directories]
    /\ born \in Nat /\ written \in Nat
    /\ req \in [Requests -> RequestStates]

\* A portal behind its lock has locked what it has open, and only one that
\* serves comes to an end of its own.
Locked(x) ==
    LET i == portal[x].file IN
    /\ i \in 0..Len(files)
    /\ portal[x].at \in {"check", "write", "serving"} /\ i # 0 => files[i].lock = x
    /\ portal[x].at \in {"lock", "check", "write"} => i # 0
    /\ portal[x].at \in {"off", "open", "failed", "gone", "draining"} => i = 0
    /\ \A k \in Enders :
          /\ ending[x][k] # "no" => portal[x].at \in {"serving", "draining"}
          /\ ending[x][k] \in {"remove", "removed"} => i = 0

\* What is open is what the path names, until somebody removed that.
Named ==
    /\ path \in 0..Len(files)
    /\ ~stolen => \A x \in Portals : portal[x].file \in {0, path}

\* A portal that runs is a process, each another one, and nobody's child.
Processes ==
    \A x \in Running :
        LET p == portal[x].pid IN
        /\ p \in Pids /\ proc[p].is = "portal" /\ proc[p].by = 0
        /\ \A y \in Running : portal[y].pid = p => y = x

\* The process p was started by the portal x for the session s.
Child(p, x, s) ==
    p \in Pids /\ proc[p].is = "jenny" /\ proc[p].by = x /\ proc[p].for = s

\* A pid file names a child of the portal that wrote it, as long as it lives.
Recorded(s) ==
    /\ dir[s].by \in Portals => portal[dir[s].by].at # "off"
    /\ dir[s].pid # NoPid /\ dir[s].by \in Running => Child(dir[s].pid, dir[s].by, s)

\* The lines of a transcript were written one after the other.
Increasing(s) ==
    LET ls == dir[s].lines IN
    \A i \in 1..Len(ls) : ls[i] <= written /\ \A j \in 1..(i - 1) : ls[j] < ls[i]

\* A request is of a portal that answers; what it has read of a pid file was of
\* one that was started.
Owned(q) ==
    /\ q.at \notin {"none", "done"} =>
          q.by \in Portals /\ q.s \in SessionIds /\ portal[q.by].at \in {"serving", "draining"}
    /\ q.at = "removeAll" => q.kind = "delete"
    /\ q.rec \in Portals => portal[q.rec].at # "off"

\* A stream is no further than the file, and has sent what is new up to there.
Streams(q) == q.kind = "stream" /\ q.at \in {"wait", "read"} /\ ~q.torn
Followed(q) ==
    Streams(q) =>
        LET ls == dir[q.s].lines IN
        /\ q.last <= Len(ls) /\ (q.at = "read" => q.size <= Len(ls))
        /\ \A i \in 1..q.last : ls[i] > q.from => ls[i] \in q.sent

\* The pid of a request is that of a child of the portal that started it.
Aimed(q) ==
    /\ q.at = "record" => Child(q.pid, q.by, q.s)
    /\ q.kind = "kill" /\ q.at = "signal" =>
          q.pid \in Pids /\ (q.rec \in Running => Child(q.pid, q.rec, q.s))

Sound(q) == Owned(q) /\ Followed(q) /\ Aimed(q)

PortalInv ==
    /\ PortalTypes
    /\ \A x \in Portals : Locked(x)
    /\ Named /\ Processes
    /\ \A s \in SessionIds : Recorded(s) /\ Increasing(s)
    /\ \A r \in Requests : Sound(req[r])

\* What a step of one request makes of its record.
Moved(q, place) == [q EXCEPT !.at = place]

LEMMA IsMoved ==
    ASSUME NEW q \in RequestStates, NEW place \in RequestPlaces
    PROVE  LET v == Moved(q, place) IN
           /\ v \in RequestStates /\ v.at = place
           /\ v.kind = q.kind /\ v.by = q.by /\ v.s = q.s /\ v.pid = q.pid /\ v.rec = q.rec
           /\ v.last = q.last /\ v.size = q.size /\ v.from = q.from /\ v.sent = q.sent
           /\ v.torn = q.torn
BY DEF RequestStates, RequestPlaces, Moved

LEMMA IsAnswered ==
    Answered \in RequestStates /\ Answered.at = "done" /\ Answered.kind = "none" /\ Answered.rec = 0
BY DEF Answered, NoReq, RequestStates, RequestPlaces

LEMMA AnsweredIsSound == Sound(Answered)
BY IsAnswered DEF Sound, Owned, Followed, Streams, Aimed, Portals

\* The states of a portal that is gone, and of a process that is.
LEMMA IsFree == Free \in ProcessStates /\ Free.is = "none" /\ Free.by = 0
BY DEF Free, ProcessStates

\* The portals keep their pids, none is started and none is gone.
SamePortals ==
    /\ portal' \in [Portals -> PortalStates]
    /\ \A x \in Portals :
          /\ portal'[x].pid = portal[x].pid
          /\ portal'[x].at = "off" <=> portal[x].at = "off"
          /\ portal'[x].at = "gone" <=> portal[x].at = "gone"
          /\ portal[x].at \in {"serving", "draining"} => portal'[x].at \in {"serving", "draining"}

\* The portals and their children keep their pids.
Lasting ==
    /\ proc' \in [Pids -> ProcessStates]
    /\ SamePortals
    /\ \A p \in Pids :
          /\ proc[p].is = "jenny" /\ proc[p].by # 0 =>
                proc'[p].is = "jenny" /\ proc'[p].by = proc[p].by /\ proc'[p].for = proc[p].for
          /\ proc[p].is = "portal" /\ proc[p].by = 0 =>
                proc'[p].is = "portal" /\ proc'[p].by = 0

\* A transcript has the lines that it had.
Growing(s) ==
    /\ dir' \in [SessionIds -> Directories]
    /\ Len(dir[s].lines) <= Len(dir'[s].lines)
    /\ \A i \in 1..Len(dir[s].lines) : dir'[s].lines[i] = dir[s].lines[i]

LEMMA RunningStays ==
    ASSUME SamePortals
    PROVE  Running' = Running /\ \A x \in Running : x \in Portals /\ x # 0
BY DEF SamePortals, Running, Portals

LEMMA ChildStays ==
    ASSUME PortalInv, Lasting, NEW p, NEW x \in Portals, NEW s, Child(p, x, s)
    PROVE  Child(p, x, s)'
BY DEF Lasting, Child, Portals

LEMMA ProcessesStay ==
    ASSUME PortalInv, Lasting
    PROVE  Processes'
<1>1. Running' = Running /\ \A x \in Running : x \in Portals
    BY RunningStays DEF Lasting
<1>2. \A x \in Running : portal'[x].pid = portal[x].pid
    BY <1>1 DEF Lasting, SamePortals
<1> QED
    BY <1>1, <1>2 DEF PortalInv, Processes, Lasting

LEMMA RecordedStays ==
    ASSUME PortalInv, Lasting, NEW s \in SessionIds,
           dir'[s].pid = dir[s].pid, dir'[s].by = dir[s].by
    PROVE  Recorded(s)'
<1>1. Running' = Running /\ \A x \in Running : x \in Portals
    BY RunningStays DEF Lasting
<1>2. dir'[s].by \in Portals => portal'[dir'[s].by].at # "off"
    BY DEF PortalInv, Recorded, Lasting, SamePortals
<1>3. PICK p, x : p = dir[s].pid /\ x = dir[s].by
    OBVIOUS
<1>4. ASSUME p # NoPid, x \in Running
      PROVE  Child(p, x, s)'
    BY <1>1, <1>3, <1>4, ChildStays DEF PortalInv, Recorded
<1> QED
    BY <1>1, <1>2, <1>3, <1>4 DEF Recorded, Child

LEMMA SoundStays ==
    ASSUME PortalInv, Lasting, NEW q \in RequestStates, Sound(q),
           Streams(q) => Growing(q.s)
    PROVE  Sound(q)'
<1>1. Running' = Running /\ \A x \in Running : x \in Portals
    BY RunningStays DEF Lasting
<1>2. Owned(q)'
    BY DEF Sound, Owned, Lasting, SamePortals
<1>3. Followed(q)'
    <2>1. SUFFICES ASSUME Streams(q)
                   PROVE  LET ls == dir'[q.s].lines IN
                          /\ q.last <= Len(ls) /\ (q.at = "read" => q.size <= Len(ls))
                          /\ \A i \in 1..q.last : ls[i] > q.from => ls[i] \in q.sent
        BY DEF Followed, Streams
    <2>2. q.s \in SessionIds /\ Growing(q.s)
        BY <2>1 DEF Sound, Owned, Streams
    <2>3. Len(dir[q.s].lines) \in Nat /\ q.last \in Nat /\ q.size \in Nat
        BY <2>2 DEF PortalInv, PortalTypes, Directories, RequestStates
    <2> DEFINE old == dir[q.s].lines
               new == dir'[q.s].lines
    <2>4. /\ Len(old) <= Len(new) /\ \A i \in 1..Len(old) : new[i] = old[i]
          /\ q.last <= Len(old) /\ (q.at = "read" => q.size <= Len(old))
          /\ \A i \in 1..q.last : old[i] > q.from => old[i] \in q.sent
        BY <2>1, <2>2 DEF Growing, Sound, Followed
    <2>5. Len(new) \in Nat
        BY <2>2 DEF Growing, Directories
    <2> HIDE DEF old, new
    <2>6. \A i \in 1..q.last : i \in 1..Len(old)
        BY <2>3, <2>4 DEF old
    <2>7. \A i \in 1..q.last : new[i] = old[i]
        BY <2>4, <2>6
    <2> QED
        BY <2>3, <2>4, <2>5, <2>7 DEF old, new
<1>4. Aimed(q)'
    <2>1. ASSUME q.at = "record" PROVE Child(q.pid, q.by, q.s)'
        BY <2>1, ChildStays DEF Sound, Owned, Aimed
    <2>2. ASSUME q.kind = "kill", q.at = "signal"
          PROVE  q.pid \in Pids /\ (q.rec \in Running' => Child(q.pid, q.rec, q.s)')
        BY <1>1, <2>2, ChildStays DEF Sound, Aimed
    <2> QED
        BY <2>1, <2>2 DEF Aimed
<1> QED
    BY <1>2, <1>3, <1>4 DEF Sound

LEMMA LastingIfStill ==
    ASSUME PortalInv, UNCHANGED <<proc, portal>>
    PROVE  Lasting
BY DEF PortalInv, PortalTypes, Lasting, SamePortals

LEMMA LocksStay ==
    ASSUME PortalInv, UNCHANGED <<portal, locks>>
    PROVE  /\ (\A x \in Portals : Locked(x))' /\ Named'
           /\ UNCHANGED <<portal, ending, path, files, stolen>>
<1>1. UNCHANGED <<portal, ending, path, files, stolen>>
    BY DEF locks
<1> QED
    BY <1>1 DEF PortalInv, Locked, Named

LEMMA FilesStay ==
    ASSUME PortalInv, Lasting, UNCHANGED <<dir, written>>
    PROVE  \A s \in SessionIds : Recorded(s)' /\ Increasing(s)' /\ Growing(s)
<1> TAKE s \in SessionIds
<1>1. Recorded(s)'
    BY RecordedStays
<1>2. Increasing(s)'
    BY DEF PortalInv, Increasing
<1>3. dir[s].lines \in Seq(Nat)
    BY DEF PortalInv, PortalTypes, Directories
<1>4. Growing(s)
    BY <1>3 DEF PortalInv, PortalTypes, Growing
<1> QED
    BY <1>1, <1>2, <1>4

\* What a handler has to see to: the directories, and its own request.
LEMMA HandlerKeeps ==
    ASSUME PortalInv, Lasting, UNCHANGED <<portal, locks>>,
           born' \in Nat, written' \in Nat, dir' \in [SessionIds -> Directories],
           \A s \in SessionIds : Recorded(s)' /\ Increasing(s)' /\ Growing(s),
           NEW r \in Requests, NEW v \in RequestStates, Sound(v)', req' = [req EXCEPT ![r] = v]
    PROVE  PortalInv'
<1>1. PortalTypes'
    BY LocksStay DEF PortalInv, PortalTypes, Lasting
<1>2. ASSUME NEW q \in Requests
      PROVE  Sound(req[q])'
    <2>1. PICK w : w = req'[q]
        OBVIOUS
    <2>2. Sound(w)'
        <3>1. CASE q = r
            BY <2>1, <3>1 DEF PortalInv, PortalTypes
        <3>2. CASE q # r
            <4>1. w = req[q] /\ w \in RequestStates /\ Sound(w)
                BY <2>1, <3>2 DEF PortalInv, PortalTypes
            <4>2. Streams(w) => Growing(w.s)
                BY <4>1 DEF Sound, Owned, Streams
            <4> QED
                BY <4>1, <4>2, SoundStays
        <3> QED
            BY <3>1, <3>2
    <2> QED
        BY <2>1, <2>2 DEF Sound, Owned, Followed, Streams, Aimed
<1> QED
    BY <1>1, <1>2, LocksStay, ProcessesStay DEF PortalInv

\* A handler that only looks.
LEMMA LookKeeps ==
    ASSUME PortalInv, UNCHANGED <<proc, portal, locks, homes>>,
           NEW r \in Requests, NEW v \in RequestStates, Sound(v), req' = [req EXCEPT ![r] = v]
    PROVE  PortalInv'
<1>1. UNCHANGED <<dir, born, written>>
    BY DEF homes
<1>2. Lasting
    BY LastingIfStill
<1>3. \A s \in SessionIds : Recorded(s)' /\ Increasing(s)' /\ Growing(s)
    BY <1>1, <1>2, FilesStay
<1>4. Streams(v) => Growing(v.s)
    BY <1>3 DEF Sound, Owned, Streams
<1>5. Sound(v)'
    BY <1>2, <1>4, SoundStays
<1>6. born' \in Nat /\ written' \in Nat /\ dir' \in [SessionIds -> Directories]
    BY <1>1 DEF PortalInv, PortalTypes
<1> QED
    BY <1>2, <1>3, <1>5, <1>6, HandlerKeeps

LEMMA AnswerKeeps ==
    ASSUME PortalInv, UNCHANGED <<proc, portal, locks, homes>>, NEW r \in Requests, Answer(r)
    PROVE  PortalInv'
BY LookKeeps, IsAnswered, AnsweredIsSound DEF Answer

\* A step of a request to a place where less is asked of it.
LEMMA StepKeeps ==
    ASSUME PortalInv, UNCHANGED <<proc, portal, locks, homes>>, NEW r \in Requests,
           NEW place \in {"spawn", "removeAll", "download", "extract"}, Step(r, place),
           req[r].at \notin {"none", "done"},
           place = "removeAll" => req[r].kind = "delete"
    PROVE  PortalInv'
<1> DEFINE v == Moved(req[r], place)
<1>1. req[r] \in RequestStates /\ Sound(req[r]) /\ place \in RequestPlaces
    BY DEF PortalInv, PortalTypes, RequestPlaces
<1>2. /\ v \in RequestStates /\ v.at = place
      /\ v.kind = req[r].kind /\ v.by = req[r].by /\ v.s = req[r].s /\ v.rec = req[r].rec
    BY <1>1, IsMoved
<1>3. req' = [req EXCEPT ![r] = v]
    BY DEF Step, Moved
<1> HIDE DEF v
<1>4. Sound(v)
    BY <1>1, <1>2 DEF Sound, Owned, Followed, Streams, Aimed
<1> QED
    BY <1>2, <1>3, <1>4, LookKeeps

-----------------------------------------------------------------------------
\* The handlers.
LEMMA ArriveKeeps ==
    ASSUME PortalInv, NEW r \in Requests, NEW x \in Portals, NEW kind \in Kinds,
           NEW s \in SessionIds, Arrive(r, x, kind, s)
    PROVE  PortalInv'
<1> DEFINE v == [NoReq EXCEPT !.at = "in", !.kind = kind, !.by = x, !.s = s]
<1>1. v \in RequestStates /\ v.at = "in" /\ v.kind = kind /\ v.by = x /\ v.s = s /\ v.rec = 0
    <2>1. NoReq \in RequestStates /\ NoReq.rec = 0 /\ "in" \in RequestPlaces
        BY DEF NoReq, RequestStates, RequestPlaces
    <2>2. PICK u : u = Moved(NoReq, "in")
        OBVIOUS
    <2>3. PICK w : w = [u EXCEPT !.kind = kind]
        OBVIOUS
    <2>4. PICK y : y = [w EXCEPT !.by = x]
        OBVIOUS
    <2>5. v = [y EXCEPT !.s = s]
        BY <2>2, <2>3, <2>4 DEF Moved
    <2>6. u \in RequestStates /\ u.at = "in" /\ u.rec = 0
        BY <2>1, <2>2, IsMoved
    <2>7. w \in RequestStates /\ w.at = "in" /\ w.kind = kind /\ w.rec = 0
        BY <2>3, <2>6 DEF RequestStates
    <2>8. y \in RequestStates /\ y.at = "in" /\ y.kind = kind /\ y.by = x /\ y.rec = 0
        BY <2>4, <2>7 DEF RequestStates, Portals
    <2> HIDE DEF v
    <2> QED
        BY <2>5, <2>8 DEF RequestStates, SessionIds
<1>2. /\ req' = [req EXCEPT ![r] = v] /\ portal[x].at = "serving"
      /\ UNCHANGED <<proc, portal, locks, homes>>
    BY DEF Arrive, Answering
<1> HIDE DEF v
<1>3. Sound(v)
    BY <1>1, <1>2 DEF Sound, Owned, Followed, Streams, Aimed, Portals
<1> QED
    BY <1>1, <1>2, <1>3, LookKeeps

LEMMA CheckKeeps ==
    ASSUME PortalInv, NEW r \in Requests,
           ResumeCheck(r) \/ DeleteCheck(r) \/ InstallCheck(r) \/ Download(r) \/ Extract(r)
    PROVE  PortalInv'
<1>1. CASE ResumeCheck(r)
    BY <1>1, AnswerKeeps, StepKeeps DEF ResumeCheck, Is
<1>2. CASE DeleteCheck(r)
    BY <1>2, AnswerKeeps, StepKeeps DEF DeleteCheck, Is
<1>3. CASE InstallCheck(r)
    BY <1>3, AnswerKeeps, StepKeeps DEF InstallCheck, Is
<1>4. CASE Download(r)
    BY <1>4, AnswerKeeps, StepKeeps DEF Download, Is
<1>5. CASE Extract(r)
    BY <1>5, AnswerKeeps DEF Extract
<1> QED
    BY <1>1, <1>2, <1>3, <1>4, <1>5

LEMMA StreamOpenKeeps ==
    ASSUME PortalInv, NEW r \in Requests, StreamOpen(r)
    PROVE  PortalInv'
<1> DEFINE ls == dir[req[r].s].lines
           from == IF ls = <<>> THEN 0 ELSE Last(ls)
           v == [req[r] EXCEPT !.at = "wait", !.last = Len(ls), !.from = from]
<1>1. /\ req[r].kind = "stream" /\ req[r].at = "in" /\ req' = [req EXCEPT ![r] = v]
      /\ UNCHANGED <<proc, portal, locks, homes>>
    BY DEF StreamOpen, Is
<1>2. req[r] \in RequestStates /\ Sound(req[r]) /\ req[r].s \in SessionIds
    BY <1>1 DEF PortalInv, PortalTypes, Sound, Owned
<1>3. ls \in Seq(Nat) /\ Len(ls) \in Nat
    BY <1>2 DEF PortalInv, PortalTypes, Directories
<1>4. from \in Nat /\ \A i \in 1..Len(ls) : ls[i] <= from
    <2>1. CASE ls = <<>>
        BY <2>1
    <2>2. CASE ls # <<>>
        <3>1. Len(ls) \in 1..Len(ls) /\ from = ls[Len(ls)]
            BY <1>3, <2>2 DEF Last
        <3>2. \A i \in 1..Len(ls) : \A j \in 1..(i - 1) : ls[j] < ls[i]
            BY <1>2 DEF PortalInv, Increasing
        <3> HIDE DEF ls, from
        <3>3. \A i \in 1..Len(ls) : ls[i] \in Nat /\ i \in Int /\ (i = Len(ls) \/ i \in 1..(Len(ls) - 1))
            BY <1>3
        <3> QED
            BY <3>1, <3>2, <3>3
    <2> QED
        BY <2>1, <2>2
<1> HIDE DEF from
<1>5. /\ v \in RequestStates /\ v.at = "wait" /\ v.last = Len(ls) /\ v.from = from
      /\ v.kind = "stream" /\ v.by = req[r].by /\ v.s = req[r].s /\ v.rec = req[r].rec
    <2>1. PICK u : u = Moved(req[r], "wait")
        OBVIOUS
    <2>2. PICK w : w = [u EXCEPT !.last = Len(ls)]
        OBVIOUS
    <2>3. v = [w EXCEPT !.from = from]
        BY <2>1, <2>2 DEF Moved
    <2>4. /\ u \in RequestStates /\ u.at = "wait"
          /\ u.kind = "stream" /\ u.by = req[r].by /\ u.s = req[r].s /\ u.rec = req[r].rec
        BY <1>1, <1>2, <2>1, IsMoved DEF RequestPlaces
    <2>5. /\ w \in RequestStates /\ w.at = "wait" /\ w.last = Len(ls)
          /\ w.kind = "stream" /\ w.by = req[r].by /\ w.s = req[r].s /\ w.rec = req[r].rec
        BY <1>3, <2>2, <2>4 DEF RequestStates
    <2> HIDE DEF v, ls
    <2> QED
        BY <1>4, <2>3, <2>5 DEF RequestStates
<1> HIDE DEF v
<1>6. Owned(v) /\ Aimed(v)
    BY <1>1, <1>2, <1>5 DEF Sound, Owned, Aimed
<1>7. Followed(v)
    <2>1. \A i \in 1..Len(ls) : ls[i] \in Nat
        BY <1>3
    <2>2. dir[v.s].lines = ls
        BY <1>5
    <2> HIDE DEF ls
    <2> QED
        BY <1>3, <1>4, <1>5, <2>1, <2>2 DEF Followed
<1> QED
    BY <1>1, <1>5, <1>6, <1>7, LookKeeps DEF Sound

LEMMA StreamStatKeeps ==
    ASSUME PortalInv, NEW r \in Requests, StreamStat(r)
    PROVE  PortalInv'
<1> DEFINE ls == dir[req[r].s].lines
           v == [req[r] EXCEPT !.at = "read", !.size = Len(ls)]
<1>1. /\ req[r].kind = "stream" /\ req[r].at = "wait" /\ req' = [req EXCEPT ![r] = v]
      /\ UNCHANGED <<proc, portal, locks, homes>>
    BY DEF StreamStat, Is
<1>2. req[r] \in RequestStates /\ Sound(req[r]) /\ req[r].s \in SessionIds
    BY <1>1 DEF PortalInv, PortalTypes, Sound, Owned
<1>3. Len(ls) \in Nat
    BY <1>2 DEF PortalInv, PortalTypes, Directories
<1>4. /\ v \in RequestStates /\ v.at = "read" /\ v.size = Len(ls)
      /\ v.kind = "stream" /\ v.by = req[r].by /\ v.s = req[r].s /\ v.rec = req[r].rec
      /\ v.last = req[r].last /\ v.from = req[r].from /\ v.sent = req[r].sent
      /\ v.torn = req[r].torn
    <2>1. PICK u : u = Moved(req[r], "read")
        OBVIOUS
    <2>2. v = [u EXCEPT !.size = Len(ls)]
        BY <2>1 DEF Moved
    <2>3. /\ u \in RequestStates /\ u.at = "read"
          /\ u.kind = "stream" /\ u.by = req[r].by /\ u.s = req[r].s /\ u.rec = req[r].rec
          /\ u.last = req[r].last /\ u.from = req[r].from /\ u.sent = req[r].sent
          /\ u.torn = req[r].torn
        BY <1>1, <1>2, <2>1, IsMoved DEF RequestPlaces
    <2> HIDE DEF v, ls
    <2> QED
        BY <1>3, <2>2, <2>3 DEF RequestStates
<1> HIDE DEF v
<1>5. Owned(v) /\ Aimed(v)
    BY <1>1, <1>2, <1>4 DEF Sound, Owned, Aimed
<1>6. Followed(v)
    BY <1>1, <1>2, <1>3, <1>4 DEF Sound, Followed, Streams
<1> QED
    BY <1>1, <1>4, <1>5, <1>6, LookKeeps DEF Sound

LEMMA StreamReadKeeps ==
    ASSUME PortalInv, NEW r \in Requests, StreamRead(r)
    PROVE  PortalInv'
<1> DEFINE ls == dir[req[r].s].lines
           new == {ls[i] : i \in (req[r].last + 1)..Len(ls)}
           v == [req[r] EXCEPT !.at = "wait", !.last = req[r].size, !.sent = @ \cup new]
<1>1. /\ req[r].kind = "stream" /\ req[r].at = "read"
      /\ Answer(r) \/ req' = [req EXCEPT ![r] = v]
      /\ UNCHANGED <<proc, portal, locks, homes>>
    BY DEF StreamRead, Is
<1>2. req[r] \in RequestStates /\ Sound(req[r]) /\ req[r].s \in SessionIds
    BY <1>1 DEF PortalInv, PortalTypes, Sound, Owned
<1>3. ls \in Seq(Nat) /\ Len(ls) \in Nat
    BY <1>2 DEF PortalInv, PortalTypes, Directories
<1>4. req[r].last \in Nat /\ req[r].size \in Nat /\ req[r].sent \subseteq Nat
    BY <1>2 DEF RequestStates
<1>5. new \subseteq Nat
    <2>1. ASSUME NEW i \in (req[r].last + 1)..Len(ls)
          PROVE  ls[i] \in Nat
        <3>1. i \in 1..Len(ls)
            BY <1>3, <1>4
        <3> QED
            BY <1>3, <3>1
    <2> QED
        BY <2>1
<1> HIDE DEF new
<1>6. /\ v \in RequestStates /\ v.at = "wait" /\ v.last = req[r].size
      /\ v.sent = req[r].sent \cup new
      /\ v.kind = "stream" /\ v.by = req[r].by /\ v.s = req[r].s /\ v.rec = req[r].rec
      /\ v.from = req[r].from /\ v.torn = req[r].torn
    <2>1. PICK u : u = Moved(req[r], "wait")
        OBVIOUS
    <2>2. PICK w : w = [u EXCEPT !.last = req[r].size]
        OBVIOUS
    <2>3. v = [w EXCEPT !.sent = @ \cup new]
        BY <2>1, <2>2 DEF Moved
    <2>4. /\ u \in RequestStates /\ u.at = "wait" /\ u.sent = req[r].sent
          /\ u.kind = "stream" /\ u.by = req[r].by /\ u.s = req[r].s /\ u.rec = req[r].rec
          /\ u.from = req[r].from /\ u.torn = req[r].torn
        BY <1>1, <1>2, <2>1, IsMoved DEF RequestPlaces
    <2>5. /\ w \in RequestStates /\ w.at = "wait" /\ w.last = req[r].size
          /\ w.sent = req[r].sent
          /\ w.kind = "stream" /\ w.by = req[r].by /\ w.s = req[r].s /\ w.rec = req[r].rec
          /\ w.from = req[r].from /\ w.torn = req[r].torn
        BY <1>4, <2>2, <2>4 DEF RequestStates
    <2> HIDE DEF v
    <2> QED
        BY <1>4, <1>5, <2>3, <2>5 DEF RequestStates
<1> HIDE DEF v
<1>7. Owned(v) /\ Aimed(v)
    BY <1>1, <1>2, <1>6 DEF Sound, Owned, Aimed
<1>8. Followed(v)
    <2>1. SUFFICES ASSUME Streams(v)
                   PROVE  /\ req[r].size <= Len(ls)
                          /\ \A i \in 1..req[r].size : ls[i] > v.from => ls[i] \in v.sent
        BY <1>6 DEF Followed
    <2>2. /\ req[r].size <= Len(ls)
          /\ \A i \in 1..req[r].last : ls[i] > req[r].from => ls[i] \in req[r].sent
        BY <1>1, <1>2, <1>6, <2>1 DEF Sound, Followed, Streams
    <2>3. ASSUME NEW i \in 1..req[r].size, ls[i] > v.from
          PROVE  ls[i] \in v.sent
        <3>1. i \in 1..req[r].last \/ i \in (req[r].last + 1)..Len(ls)
            BY <1>3, <1>4, <2>2
        <3> QED
            BY <1>6, <2>2, <2>3, <3>1 DEF new
    <2> QED
        BY <2>2, <2>3
<1> QED
    BY <1>1, <1>6, <1>7, <1>8, LookKeeps, AnswerKeeps DEF Sound

LEMMA getSessionPIDKeeps ==
    ASSUME PortalInv, NEW r \in Requests, getSessionPID(r)
    PROVE  PortalInv'
<1> DEFINE s == req[r].s
           v == [req[r] EXCEPT !.at = "signal", !.pid = dir[s].pid, !.rec = dir[s].by]
<1>1. /\ req[r].kind = "kill" /\ req[r].at = "in"
      /\ Answer(r) \/ (dir[s].pid # NoPid /\ req' = [req EXCEPT ![r] = v])
      /\ UNCHANGED <<proc, portal, locks, homes>>
    BY DEF getSessionPID, Is
<1>2. req[r] \in RequestStates /\ Sound(req[r]) /\ s \in SessionIds
    BY <1>1 DEF PortalInv, PortalTypes, Sound, Owned
<1>3. dir[s].pid \in Pids \cup {NoPid} /\ dir[s].by \in Nat /\ Recorded(s)
    BY <1>2 DEF PortalInv, PortalTypes, Directories
<1>4. /\ v \in RequestStates /\ v.at = "signal" /\ v.pid = dir[s].pid /\ v.rec = dir[s].by
      /\ v.kind = "kill" /\ v.by = req[r].by /\ v.s = s
    <2>1. PICK u : u = Moved(req[r], "signal")
        OBVIOUS
    <2>2. PICK w : w = [u EXCEPT !.pid = dir[s].pid]
        OBVIOUS
    <2>3. v = [w EXCEPT !.rec = dir[s].by]
        BY <2>1, <2>2 DEF Moved
    <2>4. /\ u \in RequestStates /\ u.at = "signal"
          /\ u.kind = "kill" /\ u.by = req[r].by /\ u.s = s
        BY <1>1, <1>2, <2>1, IsMoved DEF RequestPlaces
    <2>5. /\ w \in RequestStates /\ w.at = "signal" /\ w.pid = dir[s].pid
          /\ w.kind = "kill" /\ w.by = req[r].by /\ w.s = s
        BY <1>3, <2>2, <2>4 DEF RequestStates
    <2> HIDE DEF v, s
    <2> QED
        BY <1>3, <2>3, <2>5 DEF RequestStates
<1> HIDE DEF v
<1>5. ASSUME dir[s].pid # NoPid PROVE Sound(v)
    BY <1>1, <1>2, <1>3, <1>4, <1>5 DEF Sound, Owned, Followed, Streams, Aimed, Recorded
<1> QED
    BY <1>1, <1>4, <1>5, LookKeeps, AnswerKeeps

LEMMA EndedLasts ==
    ASSUME PortalInv, NEW p \in Pids, proc[p].is \in {"jenny", "other"},
           proc' = Ended(proc, p), UNCHANGED portal
    PROVE  Lasting
<1>1. SamePortals
    BY DEF PortalInv, PortalTypes, SamePortals
<1>2. proc \in [Pids -> ProcessStates]
    BY DEF PortalInv, PortalTypes
<1>3. CASE proc[p].by = 0
    <2>1. proc' = [proc EXCEPT ![p] = Free]
        BY <1>3 DEF Ended
    <2> QED
        BY <1>1, <1>2, <1>3, <2>1, IsFree DEF Lasting
<1>4. CASE proc[p].by # 0
    <2>1. PICK u : u = [proc[p] EXCEPT !.live = FALSE]
        OBVIOUS
    <2>2. PICK v : v = [u EXCEPT !.begun = FALSE]
        OBVIOUS
    <2>3. proc' = [proc EXCEPT ![p] = v]
        BY <1>2, <1>4, <2>1, <2>2 DEF Ended
    <2>4. v \in ProcessStates /\ v.is = proc[p].is /\ v.by = proc[p].by /\ v.for = proc[p].for
        BY <1>2, <2>1, <2>2 DEF ProcessStates
    <2> QED
        BY <1>1, <1>2, <2>3, <2>4 DEF Lasting
<1> QED
    BY <1>3, <1>4

\* A process takes a pid that is free.
LEMMA TakenLasts ==
    ASSUME PortalInv, NEW p \in Pids, proc[p] = Free, NEW v \in ProcessStates,
           proc' = [proc EXCEPT ![p] = v], UNCHANGED portal
    PROVE  Lasting
<1>1. SamePortals
    BY DEF PortalInv, PortalTypes, SamePortals
<1> QED
    BY <1>1, IsFree DEF PortalInv, PortalTypes, Lasting

LEMMA RequestsStay ==
    ASSUME PortalInv, Lasting, UNCHANGED req, \A s \in SessionIds : Growing(s)
    PROVE  (\A r \in Requests : Sound(req[r]))'
<1>1. ASSUME NEW r \in Requests
      PROVE  Sound(req[r])'
    <2>1. PICK q : q = req[r]
        OBVIOUS
    <2>2. q \in RequestStates /\ Sound(q)
        BY <2>1 DEF PortalInv, PortalTypes
    <2>3. Streams(q) => Growing(q.s)
        BY <2>2 DEF Sound, Owned, Streams
    <2>4. Sound(q)'
        BY <2>2, <2>3, SoundStays
    <2> QED
        BY <2>1, <2>4 DEF Sound, Owned, Followed, Streams, Aimed
<1> QED
    BY <1>1

LEMMA TableKeeps ==
    ASSUME PortalInv, Lasting, UNCHANGED <<portal, locks, homes, req>>
    PROVE  PortalInv'
<1>1. UNCHANGED <<dir, born, written>>
    BY DEF homes
<1>2. \A s \in SessionIds : Recorded(s)' /\ Increasing(s)' /\ Growing(s)
    BY <1>1, FilesStay
<1>3. PortalTypes'
    BY <1>1, LocksStay DEF PortalInv, PortalTypes, Lasting
<1> QED
    BY <1>2, <1>3, LocksStay, ProcessesStay, RequestsStay DEF PortalInv

LEMMA EndKeeps ==
    ASSUME PortalInv, NEW p \in Pids, End(p)
    PROVE  PortalInv'
BY EndedLasts, TableKeeps DEF End

LEMMA OutsideKeeps ==
    ASSUME PortalInv, NEW p \in Pids, Outside(p)
    PROVE  PortalInv'
<1>1. PICK v \in ProcessStates : proc' = [proc EXCEPT ![p] = v]
    <2>1. [Free EXCEPT !.is = "other", !.live = TRUE] \in ProcessStates
        BY DEF Free, ProcessStates
    <2>2. ASSUME NEW s \in SessionIds
          PROVE  [Free EXCEPT !.is = "jenny", !.live = TRUE, !.on = s, !.for = s]
                    \in ProcessStates
        <3>1. PICK u : u = [Free EXCEPT !.is = "jenny", !.live = TRUE]
            OBVIOUS
        <3>2. u \in ProcessStates
            BY <3>1 DEF Free, ProcessStates
        <3>3. PICK w : w = [u EXCEPT !.on = s]
            OBVIOUS
        <3>4. w \in ProcessStates
            BY <3>2, <3>3 DEF ProcessStates, SessionIds
        <3>5. [w EXCEPT !.for = s] \in ProcessStates
            BY <3>4 DEF ProcessStates, SessionIds
        <3> QED
            BY <3>1, <3>3, <3>5
    <2> QED
        BY <2>1, <2>2 DEF Outside
<1>2. Lasting
    BY <1>1, TakenLasts DEF Outside
<1> QED
    BY <1>2, TableKeeps DEF Outside

LEMMA SendSignalKeeps ==
    ASSUME PortalInv, NEW r \in Requests, SendSignal(r)
    PROVE  PortalInv'
<1>1. /\ req[r].kind = "kill" /\ req[r].at = "signal" /\ req' = [req EXCEPT ![r] = Answered]
      /\ UNCHANGED <<portal, locks>> /\ UNCHANGED <<dir, born, written>>
    BY DEF SendSignal, Is, Answer, homes
<1>2. req[r].pid \in Pids
    BY <1>1 DEF PortalInv, Sound, Aimed
<1>3. Lasting
    BY <1>1, <1>2, EndedLasts, LastingIfStill DEF SendSignal
<1>4. \A s \in SessionIds : Recorded(s)' /\ Increasing(s)' /\ Growing(s)
    BY <1>1, <1>3, FilesStay
<1>5. Sound(Answered)'
    BY <1>3, <1>4, IsAnswered, AnsweredIsSound, SoundStays DEF Streams
<1>6. born' \in Nat /\ written' \in Nat /\ dir' \in [SessionIds -> Directories]
    BY <1>1 DEF PortalInv, PortalTypes
<1> QED
    BY <1>1, <1>3, <1>4, <1>5, <1>6, IsAnswered, HandlerKeeps

LEMMA SpawnKeeps ==
    ASSUME PortalInv, NEW r \in Requests, Spawn(r)
    PROVE  PortalInv'
<1>1. CASE Answer(r) /\ UNCHANGED <<proc, born>>
    <2>1. UNCHANGED homes
        BY <1>1 DEF Spawn, homes
    <2> QED
        BY <1>1, <2>1, AnswerKeeps DEF Spawn
<1>2. ASSUME NEW p \in Pids, proc[p] = Free,
             born' = (IF req[r].kind = "start" THEN born + 1 ELSE born),
             proc' = [proc EXCEPT ![p] =
                   [is |-> "jenny", live |-> TRUE, by |-> req[r].by, for |-> req[r].s, begun |-> FALSE,
                    on |-> IF req[r].kind = "start" THEN born + 1 ELSE req[r].s]],
             req' = [req EXCEPT ![r].at = "record", ![r].pid = p]
      PROVE  PortalInv'
    <2>0. PICK c, v :
             /\ c = [is |-> "jenny", live |-> TRUE, by |-> req[r].by, for |-> req[r].s,
                     begun |-> FALSE,
                     on |-> IF req[r].kind = "start" THEN born + 1 ELSE req[r].s]
             /\ v = [req[r] EXCEPT !.at = "record", !.pid = p]
        OBVIOUS
    <2>1. /\ req[r].at = "spawn" /\ UNCHANGED <<portal, locks>> /\ UNCHANGED <<dir, written>>
          /\ proc' = [proc EXCEPT ![p] = c] /\ req' = [req EXCEPT ![r] = v]
        <3>1. /\ req[r].at = "spawn" /\ UNCHANGED <<portal, locks>> /\ UNCHANGED <<dir, written>>
            BY DEF Spawn
        <3>2. proc' = [proc EXCEPT ![p] = c] /\ req' = [req EXCEPT ![r] = v]
            BY <1>2, <2>0
        <3> QED
            BY <3>1, <3>2
    <2>2. req[r] \in RequestStates /\ Sound(req[r]) /\ born \in Nat
        BY DEF PortalInv, PortalTypes
    <2>3. c \in ProcessStates /\ c.is = "jenny" /\ c.by = req[r].by /\ c.for = req[r].s
        BY <2>0, <2>2 DEF ProcessStates, RequestStates
    <2>4. Lasting
        BY <1>2, <2>1, <2>3, TakenLasts
    <2>5. /\ v \in RequestStates /\ v.at = "record" /\ v.pid = p
          /\ v.kind = req[r].kind /\ v.by = req[r].by /\ v.s = req[r].s /\ v.rec = req[r].rec
        <3>1. PICK u : u = Moved(req[r], "record")
            OBVIOUS
        <3>2. v = [u EXCEPT !.pid = p]
            BY <2>0, <3>1 DEF Moved
        <3>3. /\ u \in RequestStates /\ u.at = "record"
              /\ u.kind = req[r].kind /\ u.by = req[r].by /\ u.s = req[r].s /\ u.rec = req[r].rec
            BY <2>2, <3>1, IsMoved DEF RequestPlaces
        <3> QED
            BY <3>2, <3>3 DEF RequestStates
    <2>6. \A s \in SessionIds : Recorded(s)' /\ Increasing(s)' /\ Growing(s)
        BY <2>1, <2>4, FilesStay
    <2>7. proc'[p] = c
        BY <2>1 DEF PortalInv, PortalTypes
    <2>8. Sound(v)'
        <3>1. Owned(v)
            BY <2>1, <2>2, <2>5 DEF Sound, Owned
        <3>2. Owned(v)'
            BY <3>1, <2>4 DEF Owned, Lasting, SamePortals
        <3>3. Followed(v)'
            BY <2>5 DEF Followed, Streams
        <3>4. Aimed(v)'
            BY <2>3, <2>5, <2>7 DEF Aimed, Child
        <3> QED
            BY <3>2, <3>3, <3>4 DEF Sound
    <2>9. born' \in Nat /\ written' \in Nat /\ dir' \in [SessionIds -> Directories]
        BY <1>2, <2>1, <2>2 DEF PortalInv, PortalTypes
    <2> QED
        BY <2>1, <2>4, <2>5, <2>6, <2>8, <2>9, HandlerKeeps
<1> QED
    BY <1>1, <1>2 DEF Spawn

LEMMA StartMkdirKeeps ==
    ASSUME PortalInv, NEW r \in Requests, StartMkdir(r)
    PROVE  PortalInv'
<1> PICK n : n = born + 1
    OBVIOUS
<1> PICK v : v = [req[r] EXCEPT !.at = "spawn", !.s = n]
    OBVIOUS
<1>1. /\ req[r].at = "in" /\ req[r].kind = "start" /\ born' = n
      /\ dir' = [dir EXCEPT ![n].is = TRUE] /\ req' = [req EXCEPT ![r] = v]
      /\ UNCHANGED <<proc, portal, locks, written>>
    BY DEF StartMkdir, Is
<1>2. /\ req[r] \in RequestStates /\ Sound(req[r]) /\ n \in Nat
      /\ dir \in [SessionIds -> Directories]
    BY DEF PortalInv, PortalTypes
<1>3. n \in SessionIds
    BY <1>2, PortalAssumption DEF StartMkdir, SessionIds, PortalInv, PortalTypes
<1>4. /\ dir' \in [SessionIds -> Directories]
      /\ \A s \in SessionIds : /\ dir'[s].lines = dir[s].lines
                               /\ dir'[s].pid = dir[s].pid /\ dir'[s].by = dir[s].by
    BY <1>1, <1>2 DEF Directories
<1>5. Lasting
    BY <1>1, LastingIfStill
<1>6. ASSUME NEW s \in SessionIds
      PROVE  Recorded(s)' /\ Increasing(s)' /\ Growing(s)
    <2>1. Recorded(s)'
        BY <1>4, <1>5, RecordedStays
    <2>2. Increasing(s)'
        BY <1>1, <1>4 DEF PortalInv, Increasing
    <2>3. Growing(s)
        BY <1>2, <1>4 DEF Growing, Directories
    <2> QED
        BY <2>1, <2>2, <2>3
<1>7. /\ v \in RequestStates /\ v.at = "spawn" /\ v.s = n
      /\ v.kind = "start" /\ v.by = req[r].by /\ v.rec = req[r].rec
    <2>1. PICK u : u = Moved(req[r], "spawn")
        OBVIOUS
    <2>2. v = [u EXCEPT !.s = n]
        BY <2>1 DEF Moved
    <2>3. /\ u \in RequestStates /\ u.at = "spawn"
          /\ u.kind = "start" /\ u.by = req[r].by /\ u.rec = req[r].rec
        BY <1>1, <1>2, <2>1, IsMoved DEF RequestPlaces
    <2> QED
        BY <1>2, <2>2, <2>3 DEF RequestStates
<1>8. Sound(v)
    BY <1>1, <1>2, <1>3, <1>7 DEF Sound, Owned, Followed, Streams, Aimed
<1>9. Sound(v)'
    BY <1>3, <1>5, <1>6, <1>7, <1>8, SoundStays
<1>10. born' \in Nat /\ written' \in Nat
    BY <1>1, <1>2 DEF PortalInv, PortalTypes
<1> QED
    BY <1>1, <1>4, <1>5, <1>6, <1>7, <1>9, <1>10, HandlerKeeps

LEMMA RecordPidKeeps ==
    ASSUME PortalInv, NEW r \in Requests, RecordPid(r)
    PROVE  PortalInv'
<1> PICK q : q = req[r]
    OBVIOUS
<1>1. /\ q.at = "record" /\ req' = [req EXCEPT ![r] = Answered]
      /\ \/ dir' = [dir EXCEPT ![q.s].pid = q.pid, ![q.s].by = q.by] /\ proc' = proc
         \/ proc' = Ended(proc, q.pid) /\ dir' = dir
      /\ UNCHANGED <<portal, locks, born, written>>
    BY DEF RecordPid, Answer
<1>2. q \in RequestStates /\ Sound(q) /\ dir \in [SessionIds -> Directories]
    BY DEF PortalInv, PortalTypes
<1>3. Child(q.pid, q.by, q.s) /\ q.by \in Portals /\ q.s \in SessionIds
    BY <1>1, <1>2 DEF Sound, Owned, Aimed
<1>4. Lasting
    BY <1>1, <1>3, EndedLasts, LastingIfStill DEF Child
<1>5. /\ dir' \in [SessionIds -> Directories]
      /\ \A s \in SessionIds : /\ dir'[s].lines = dir[s].lines
                               /\ s # q.s => dir'[s] = dir[s]
      /\ dir'[q.s] = dir[q.s] \/ (dir'[q.s].pid = q.pid /\ dir'[q.s].by = q.by)
    <2>1. CASE dir' = [dir EXCEPT ![q.s].pid = q.pid, ![q.s].by = q.by]
        <3>1. PICK u : u = [dir[q.s] EXCEPT !.pid = q.pid]
            OBVIOUS
        <3>2. PICK w : w = [u EXCEPT !.by = q.by]
            OBVIOUS
        <3>3. dir' = [dir EXCEPT ![q.s] = w]
            BY <1>2, <1>3, <2>1, <3>1, <3>2
        <3>4. q.pid \in Pids /\ q.by \in Nat
            BY <1>2, <1>3 DEF Child, RequestStates
        <3>5. u \in Directories /\ u.pid = q.pid /\ u.lines = dir[q.s].lines
            BY <1>2, <1>3, <3>1, <3>4 DEF Directories
        <3>6. w \in Directories /\ w.pid = q.pid /\ w.by = q.by /\ w.lines = dir[q.s].lines
            BY <3>2, <3>4, <3>5 DEF Directories
        <3> QED
            BY <1>2, <1>3, <3>3, <3>6
    <2>2. CASE dir' = dir
        BY <1>2, <2>2
    <2> QED
        BY <1>1, <2>1, <2>2
<1>6. ASSUME NEW s \in SessionIds
      PROVE  Recorded(s)' /\ Increasing(s)' /\ Growing(s)
    <2>1. ASSUME dir'[s] = dir[s] PROVE Recorded(s)'
        BY <1>4, <2>1, RecordedStays
    <2>2. ASSUME s = q.s, dir'[s].pid = q.pid, dir'[s].by = q.by
          PROVE  Recorded(s)'
        <3>1. Child(q.pid, q.by, s)'
            BY <1>3, <1>4, <2>2, ChildStays
        <3>2. portal'[q.by].at # "off"
            BY <1>1, <1>2, <1>3, <1>4 DEF Sound, Owned, Lasting, SamePortals
        <3> QED
            BY <2>2, <3>1, <3>2 DEF Recorded, Child
    <2>3. Increasing(s)'
        BY <1>1, <1>5 DEF PortalInv, Increasing
    <2>4. Growing(s)
        BY <1>2, <1>5 DEF Growing, Directories
    <2>5. Recorded(s)'
        BY <1>5, <2>1, <2>2
    <2> QED
        BY <2>3, <2>4, <2>5
<1>7. Sound(Answered)'
    BY <1>4, IsAnswered, AnsweredIsSound, SoundStays DEF Streams
<1>8. born' \in Nat /\ written' \in Nat
    BY <1>1 DEF PortalInv, PortalTypes
<1> QED
    BY <1>1, <1>4, <1>5, <1>6, <1>7, <1>8, IsAnswered, HandlerKeeps

LEMMA RemoveAllKeeps ==
    ASSUME PortalInv, NEW r \in Requests, RemoveAll(r)
    PROVE  PortalInv'
<1> PICK s : s = req[r].s
    OBVIOUS
<1>1. /\ req[r].at = "removeAll" /\ dir' = [dir EXCEPT ![s] = NoDir]
      /\ req' = [q \in Requests |->
                   IF q = r THEN Answered
                   ELSE IF req[q].kind = "stream" /\ req[q].s = s
                        THEN [req[q] EXCEPT !.torn = TRUE] ELSE req[q]]
      /\ UNCHANGED <<proc, portal, locks, born, written>>
    BY DEF RemoveAll
<1>2. Lasting
    BY <1>1, LastingIfStill
<1>3. NoDir \in Directories /\ NoDir.pid = NoPid /\ NoDir.by = 0 /\ NoDir.lines = <<>>
    BY DEF NoDir, Directories
<1>4. /\ dir \in [SessionIds -> Directories] /\ dir' \in [SessionIds -> Directories]
      /\ \A t \in SessionIds : dir'[t] = dir[t] \/ (t = s /\ dir'[t] = NoDir)
    BY <1>1, <1>3 DEF PortalInv, PortalTypes
<1>5. ASSUME NEW t \in SessionIds
      PROVE  Recorded(t)' /\ Increasing(t)' /\ (t # s => Growing(t))
    <2>1. CASE dir'[t] = dir[t]
        <3>1. Recorded(t)'
            BY <1>2, <2>1, RecordedStays
        <3>2. Increasing(t)'
            BY <1>1, <2>1 DEF PortalInv, Increasing
        <3>3. Growing(t)
            BY <1>4, <2>1 DEF Growing, Directories
        <3> QED
            BY <3>1, <3>2, <3>3
    <2>2. CASE t = s /\ dir'[t] = NoDir
        BY <1>3, <2>2 DEF Recorded, Increasing, Portals
    <2> QED
        BY <1>4, <2>1, <2>2
<1>6. ASSUME NEW q \in Requests
      PROVE  req'[q] \in RequestStates /\ Sound(req[q])'
    <2>1. PICK w : w = req'[q]
        OBVIOUS
    <2>2. req[q] \in RequestStates /\ Sound(req[q])
        BY DEF PortalInv, PortalTypes
    <2>3. w \in RequestStates /\ Sound(w) /\ (Streams(w) => w.s # s)
        <3>1. CASE w = Answered
            BY <3>1, IsAnswered, AnsweredIsSound DEF Streams
        <3>2. CASE req[q].kind = "stream" /\ w = [req[q] EXCEPT !.torn = TRUE]
            <4>1. /\ w \in RequestStates /\ w.torn
                  /\ w.at = req[q].at /\ w.kind = req[q].kind /\ w.by = req[q].by
                  /\ w.s = req[q].s /\ w.pid = req[q].pid /\ w.rec = req[q].rec
                BY <2>2, <3>2 DEF RequestStates
            <4> QED
                BY <2>2, <4>1 DEF Sound, Owned, Followed, Streams, Aimed
        <3>3. CASE w = req[q] /\ ~(req[q].kind = "stream" /\ req[q].s = s)
            BY <2>2, <3>3 DEF Streams
        <3> QED
            BY <1>1, <2>1, <3>1, <3>2, <3>3
    <2>4. Streams(w) => Growing(w.s)
        BY <1>5, <2>3 DEF Sound, Owned, Streams
    <2>5. Sound(w)'
        BY <1>2, <2>3, <2>4, SoundStays
    <2> QED
        BY <2>1, <2>3, <2>5 DEF Sound, Owned, Followed, Streams, Aimed
<1>7. PortalTypes'
    BY <1>1, <1>4, <1>6, LocksStay DEF PortalInv, PortalTypes
<1> QED
    BY <1>1, <1>2, <1>5, <1>6, <1>7, LocksStay, ProcessesStay DEF PortalInv

LEMMA WriteKeeps ==
    ASSUME PortalInv, NEW p \in Pids, Write(p)
    PROVE  PortalInv'
<1> PICK n, s : n = written + 1 /\ s = proc[p].on
    OBVIOUS
<1>1. /\ proc[p].is = "jenny" /\ proc' = [proc EXCEPT ![p].begun = TRUE] /\ written' = n
      /\ dir' = [dir EXCEPT ![s].is = TRUE, ![s].lines = Append(@, n)]
      /\ UNCHANGED <<portal, locks, born, req>>
    BY DEF Write
<1>2. /\ proc \in [Pids -> ProcessStates] /\ dir \in [SessionIds -> Directories]
      /\ written \in Nat /\ n \in Nat
    BY DEF PortalInv, PortalTypes
<1>3. Lasting
    <2>1. PICK c : c = [proc[p] EXCEPT !.begun = TRUE]
        OBVIOUS
    <2>2. proc' = [proc EXCEPT ![p] = c]
        BY <1>1, <2>1
    <2>3. c \in ProcessStates /\ c.is = proc[p].is /\ c.by = proc[p].by /\ c.for = proc[p].for
        BY <1>2, <2>1 DEF ProcessStates
    <2>4. SamePortals
        BY <1>1 DEF PortalInv, PortalTypes, SamePortals
    <2> QED
        BY <1>2, <2>2, <2>3, <2>4 DEF Lasting
<1>4. /\ dir' \in [SessionIds -> Directories]
      /\ \A t \in SessionIds :
            /\ dir'[t].pid = dir[t].pid /\ dir'[t].by = dir[t].by
            /\ dir'[t].lines \in {dir[t].lines, Append(dir[t].lines, n)}
    <2>1. CASE s \in SessionIds
        <3>1. PICK u : u = [dir[s] EXCEPT !.is = TRUE]
            OBVIOUS
        <3>2. PICK w : w = [u EXCEPT !.lines = Append(@, n)]
            OBVIOUS
        <3>3. dir' = [dir EXCEPT ![s] = w]
            BY <1>1, <1>2, <2>1, <3>1, <3>2
        <3>4. /\ u \in Directories /\ u.pid = dir[s].pid /\ u.by = dir[s].by
              /\ u.lines = dir[s].lines
            BY <1>2, <2>1, <3>1 DEF Directories
        <3>5. Append(u.lines, n) \in Seq(Nat)
            BY <1>2, <3>4 DEF Directories
        <3>6. /\ w \in Directories /\ w.pid = dir[s].pid /\ w.by = dir[s].by
              /\ w.lines = Append(dir[s].lines, n)
            BY <3>2, <3>4, <3>5 DEF Directories
        <3> QED
            BY <1>2, <2>1, <3>3, <3>6
    <2>2. CASE s \notin SessionIds
        <3>1. dir' = dir
            BY <1>1, <1>2, <2>2
        <3> QED
            BY <1>2, <3>1
    <2> QED
        BY <2>1, <2>2
<1>5. ASSUME NEW t \in SessionIds
      PROVE  Recorded(t)' /\ Increasing(t)' /\ Growing(t)
    <2>1. PICK ls, new : ls = dir[t].lines /\ new = dir'[t].lines
        OBVIOUS
    <2>2. ls \in Seq(Nat) /\ Len(ls) \in Nat /\ new \in {ls, Append(ls, n)}
        BY <1>2, <1>4, <2>1 DEF Directories
    <2>3. /\ Len(new) \in {Len(ls), Len(ls) + 1}
          /\ \A i \in 1..Len(ls) : new[i] = ls[i] /\ ls[i] \in Nat
          /\ Len(new) = Len(ls) + 1 => new[Len(ls) + 1] = n
        BY <1>2, <2>2
    <2>4. \A i \in 1..Len(ls) : ls[i] <= written /\ \A j \in 1..(i - 1) : ls[j] < ls[i]
        BY <2>1 DEF PortalInv, Increasing
    <2>5. ASSUME NEW i \in 1..Len(new)
          PROVE  new[i] <= n /\ \A j \in 1..(i - 1) : new[j] < new[i]
        <3>1. CASE i \in 1..Len(ls)
            <4>1. new[i] = ls[i] /\ ls[i] \in Nat /\ ls[i] <= written
                BY <2>3, <2>4, <3>1
            <4>2. ASSUME NEW j \in 1..(i - 1) PROVE new[j] < new[i]
                <5>1. j \in 1..Len(ls)
                    BY <2>2, <3>1
                <5> QED
                    BY <2>3, <2>4, <3>1, <5>1
            <4> QED
                BY <1>2, <4>1, <4>2
        <3>2. CASE i = Len(ls) + 1 /\ new[i] = n
            <4>1. ASSUME NEW j \in 1..(i - 1) PROVE new[j] < n
                <5>1. j \in 1..Len(ls)
                    BY <2>2, <3>2
                <5>2. new[j] = ls[j] /\ ls[j] \in Nat /\ ls[j] <= written
                    BY <2>3, <2>4, <5>1
                <5> QED
                    BY <1>2, <5>2
            <4> QED
                BY <1>2, <3>2, <4>1
        <3> QED
            BY <2>2, <2>3, <3>1, <3>2
    <2>6. Increasing(t)'
        BY <1>1, <2>1, <2>5 DEF Increasing
    <2>7. Growing(t)
        BY <1>4, <2>1, <2>2, <2>3 DEF Growing
    <2> QED
        BY <1>3, <1>4, <2>6, <2>7, RecordedStays
<1>6. PortalTypes'
    BY <1>1, <1>2, <1>3, <1>4, LocksStay DEF PortalInv, PortalTypes, Lasting
<1> QED
    BY <1>1, <1>3, <1>5, <1>6, LocksStay, ProcessesStay, RequestsStay DEF PortalInv

-----------------------------------------------------------------------------
\* The lock file.
PortalPlaces == {"off", "open", "lock", "check", "write", "serving", "draining", "failed", "gone"}

\* What a step makes of one portal.
PutsAt(x, place, i) == portal' = [portal EXCEPT ![x].at = place, ![x].file = i]

LEMMA PortalMoves ==
    ASSUME PortalInv, NEW x \in Portals, NEW place \in PortalPlaces, NEW i \in Nat,
           PutsAt(x, place, i)
    PROVE  /\ portal' \in [Portals -> PortalStates]
           /\ portal'[x].at = place /\ portal'[x].file = i /\ portal'[x].pid = portal[x].pid
           /\ \A y \in Portals \ {x} : portal'[y] = portal[y]
<1>1. portal \in [Portals -> PortalStates] /\ portal[x] \in PortalStates
    BY DEF PortalInv, PortalTypes
<1>2. PICK u : u = [portal[x] EXCEPT !.at = place]
    OBVIOUS
<1>3. PICK v : v = [u EXCEPT !.file = i]
    OBVIOUS
<1>4. u \in PortalStates /\ u.at = place /\ u.pid = portal[x].pid
    BY <1>1, <1>2 DEF PortalStates, PortalPlaces
<1>5. v \in PortalStates /\ v.at = place /\ v.file = i /\ v.pid = portal[x].pid
    BY <1>3, <1>4 DEF PortalStates
<1>6. portal' = [portal EXCEPT ![x] = v]
    BY <1>1, <1>2, <1>3 DEF PutsAt
<1> QED
    BY <1>1, <1>5, <1>6

LEMMA PortalGoes ==
    ASSUME PortalInv, NEW x \in Portals, NEW place \in PortalPlaces, Goto(x, place)
    PROVE  /\ portal' \in [Portals -> PortalStates]
           /\ portal'[x].at = place /\ portal'[x].pid = portal[x].pid
           /\ portal'[x].file = portal[x].file
           /\ \A y \in Portals \ {x} : portal'[y] = portal[y]
<1>1. portal \in [Portals -> PortalStates] /\ portal[x] \in PortalStates
    BY DEF PortalInv, PortalTypes
<1>2. PICK u : u = [portal[x] EXCEPT !.at = place]
    OBVIOUS
<1>3. u \in PortalStates /\ u.at = place /\ u.pid = portal[x].pid /\ u.file = portal[x].file
    BY <1>1, <1>2 DEF PortalStates, PortalPlaces
<1>4. portal' = [portal EXCEPT ![x] = u]
    BY <1>2 DEF Goto
<1> QED
    BY <1>1, <1>3, <1>4

\* The files after a change of the lock or of the pid in one of them.
LEMMA FileChanges ==
    ASSUME PortalInv, NEW i \in 1..Len(files), NEW f \in LockFiles, files' = [files EXCEPT ![i] = f]
    PROVE  /\ files' \in Seq(LockFiles) /\ Len(files') = Len(files)
           /\ files'[i] = f
           /\ \A j \in 1..Len(files) : j # i => files'[j] = files[j]
BY DEF PortalInv, PortalTypes

LEMMA Unlocks ==
    ASSUME PortalInv, NEW x \in Portals
    PROVE  /\ Unlocked(x) \in Seq(LockFiles) /\ Len(Unlocked(x)) = Len(files)
           /\ \A i \in 1..Len(files) : files[i].lock # x => Unlocked(x)[i] = files[i]
<1>1. files \in Seq(LockFiles) /\ Len(files) \in Nat /\ DOMAIN files = 1..Len(files)
    BY DEF PortalInv, PortalTypes
<1> DEFINE f(i) == IF files[i].lock = x THEN [files[i] EXCEPT !.lock = 0] ELSE files[i]
<1>2. ASSUME NEW i \in 1..Len(files)
      PROVE  f(i) \in LockFiles
    <2>1. files[i] \in LockFiles
        BY <1>1
    <2> QED
        BY <2>1 DEF LockFiles
<1>3. Unlocked(x) = [i \in 1..Len(files) |-> f(i)]
    BY <1>1 DEF Unlocked
<1>4. \A i \in 1..Len(files) : files[i].lock # x => f(i) = files[i]
    OBVIOUS
<1> HIDE DEF f
<1>5. [i \in 1..Len(files) |-> f(i)] \in Seq(LockFiles)
    BY <1>1, <1>2
<1>6. DOMAIN Unlocked(x) = 1..Len(files)
    BY <1>3
<1>7. Len(Unlocked(x)) = Len(files)
    BY <1>1, <1>3, <1>5, <1>6
<1> QED
    BY <1>3, <1>4, <1>5, <1>7

\* What a step around the lock has to see to: the lock.
LEMMA LockStepKeeps ==
    ASSUME PortalInv, SamePortals, UNCHANGED <<proc, dir, born, written, req>>,
           ending' \in [Portals -> Endings], path' \in Nat, files' \in Seq(LockFiles),
           (\A x \in Portals : Locked(x))', Named'
    PROVE  PortalInv'
<1>1. Lasting
    BY DEF PortalInv, PortalTypes, Lasting
<1>2. \A s \in SessionIds : Recorded(s)' /\ Increasing(s)' /\ Growing(s)
    BY <1>1, FilesStay
<1>3. PortalTypes'
    BY <1>1 DEF PortalInv, PortalTypes, Lasting, SamePortals
<1> QED
    BY <1>1, <1>2, <1>3, ProcessesStay, RequestsStay DEF PortalInv

\* A step of one portal leaves the locks of the others alone.
LEMMA OthersLocked ==
    ASSUME PortalInv, NEW x \in Portals, files' \in Seq(LockFiles),
           \A y \in Portals \ {x} : portal'[y] = portal[y] /\ ending'[y] = ending[y],
           Len(files) <= Len(files'),
           \A i \in 1..Len(files) : files[i].lock \notin {0, x} => files'[i].lock = files[i].lock
    PROVE  \A y \in Portals \ {x} : Locked(y)'
<1> TAKE y \in Portals \ {x}
<1>1. Len(files) \in Nat /\ Len(files') \in Nat /\ y \notin {0, x}
    BY DEF PortalInv, PortalTypes, Portals
<1>2. Locked(y) /\ portal'[y] = portal[y] /\ ending'[y] = ending[y]
    BY DEF PortalInv
<1>3. PICK i : i = portal[y].file
    OBVIOUS
<1>4. i \in 0..Len(files) /\ i \in 0..Len(files')
    BY <1>1, <1>2, <1>3 DEF Locked
<1>5. ASSUME portal[y].at \in {"check", "write", "serving"}, i # 0
      PROVE  files'[i].lock = y
    <2>1. i \in 1..Len(files) /\ files[i].lock = y
        BY <1>1, <1>2, <1>3, <1>4, <1>5 DEF Locked
    <2> QED
        BY <1>1, <2>1
<1> QED
    BY <1>2, <1>3, <1>4, <1>5 DEF Locked

\* A portal at this place keeps its endings.
LEMMA NotEnding ==
    ASSUME PortalInv, NEW x \in Portals, portal[x].at \notin {"serving", "draining"}
    PROVE  \A k \in Enders : ending[x][k] = "no"
BY DEF PortalInv, Locked

LEMMA OpenLockKeeps ==
    ASSUME PortalInv, NEW x \in Portals, OpenLock(x)
    PROVE  PortalInv'
<1> PICK i : i = IF path = 0 THEN Len(files) + 1 ELSE path
    OBVIOUS
<1>1. /\ portal[x].at = "open" /\ path' = i
      /\ PutsAt(x, "lock", i)
      /\ files' = IF path = 0 THEN Append(files, [lock |-> 0, pid |-> NoPid]) ELSE files
      /\ UNCHANGED <<proc, ending, stolen, dir, born, written, req>>
    BY DEF OpenLock, PortalAt, homes, PutsAt
<1>2. /\ files \in Seq(LockFiles) /\ Len(files) \in Nat /\ path \in 0..Len(files)
      /\ ending \in [Portals -> Endings] /\ portal \in [Portals -> PortalStates]
    BY DEF PortalInv, PortalTypes, Named
<1>3. /\ files' \in Seq(LockFiles) /\ i \in 1..Len(files') /\ Len(files) <= Len(files')
      /\ Len(files') \in Nat /\ i \in Nat
      /\ \A j \in 1..Len(files) : files'[j] = files[j]
    <2>1. [lock |-> 0, pid |-> NoPid] \in LockFiles
        BY DEF LockFiles
    <2>2. CASE path = 0
        BY <1>1, <1>2, <2>1, <2>2
    <2>3. CASE path # 0
        BY <1>1, <1>2, <2>3
    <2> QED
        BY <2>2, <2>3
<1>4. /\ portal' \in [Portals -> PortalStates]
      /\ portal'[x].at = "lock" /\ portal'[x].file = i /\ portal'[x].pid = portal[x].pid
      /\ \A y \in Portals \ {x} : portal'[y] = portal[y]
    BY <1>1, <1>3, PortalMoves DEF PortalPlaces
<1>5. SamePortals
    BY <1>1, <1>4 DEF SamePortals
<1>6. \A y \in Portals : Locked(y)'
    <2>1. \A y \in Portals \ {x} : Locked(y)'
        BY <1>1, <1>3, <1>4, OthersLocked
    <2>2. Locked(x)'
        BY <1>1, <1>3, <1>4, NotEnding DEF Locked
    <2> QED
        BY <2>1, <2>2
<1>7. Named'
    BY <1>1, <1>3, <1>4 DEF PortalInv, Named
<1> QED
    BY <1>1, <1>2, <1>3, <1>5, <1>6, <1>7, LockStepKeeps

LEMMA TryLockKeeps ==
    ASSUME PortalInv, NEW x \in Portals, TryLock(x)
    PROVE  PortalInv'
<1> PICK i : i = portal[x].file
    OBVIOUS
<1>1. /\ portal[x].at = "lock"
      /\ UNCHANGED <<proc, ending, path, stolen, dir, born, written, req>>
      /\ \/ /\ files[i].lock = 0 /\ files' = [files EXCEPT ![i].lock = x]
            /\ Goto(x, "check")
         \/ /\ files' = files
            /\ PutsAt(x, "failed", 0)
    BY DEF TryLock, PortalAt, homes, PutsAt
<1>2. /\ files \in Seq(LockFiles) /\ Len(files) \in Nat /\ i \in 1..Len(files) /\ x \in Nat /\ i \in Nat
      /\ ending \in [Portals -> Endings] /\ portal \in [Portals -> PortalStates] /\ path \in Nat
    BY <1>1 DEF PortalInv, PortalTypes, Locked, Portals
<1>3. CASE /\ files[i].lock = 0 /\ files' = [files EXCEPT ![i].lock = x]
           /\ Goto(x, "check")
    <2>1. PICK f : f = [files[i] EXCEPT !.lock = x]
        OBVIOUS
    <2>2. f \in LockFiles /\ f.lock = x
        <3>1. files[i] \in LockFiles
            BY <1>2
        <3> QED
            BY <1>2, <2>1, <3>1 DEF LockFiles
    <2>3. files' = [files EXCEPT ![i] = f]
        BY <1>3, <2>1
    <2>4. /\ files' \in Seq(LockFiles) /\ Len(files') = Len(files) /\ files'[i] = f
          /\ \A j \in 1..Len(files) : j # i => files'[j] = files[j]
        BY <1>2, <2>2, <2>3, FileChanges
    <2>5. /\ portal' \in [Portals -> PortalStates]
          /\ portal'[x].at = "check" /\ portal'[x].file = i /\ portal'[x].pid = portal[x].pid
          /\ \A y \in Portals \ {x} : portal'[y] = portal[y]
        BY <1>3, PortalGoes DEF PortalPlaces
    <2>6. SamePortals
        BY <1>1, <2>5 DEF SamePortals
    <2>7. \A y \in Portals : Locked(y)'
        <3>1. \A y \in Portals \ {x} : Locked(y)'
            BY <1>1, <1>2, <1>3, <2>4, <2>5, OthersLocked
        <3>2. \A k \in Enders : ending'[x][k] = "no"
            BY <1>1, NotEnding
        <3>3. Locked(x)'
            BY <1>2, <2>2, <2>4, <2>5, <3>2 DEF Locked
        <3> QED
            BY <3>1, <3>3
    <2>8. Named'
        BY <1>1, <2>4, <2>5 DEF PortalInv, Named
    <2> QED
        BY <1>1, <1>2, <2>4, <2>6, <2>7, <2>8, LockStepKeeps
<1>4. CASE /\ files' = files
           /\ PutsAt(x, "failed", 0)
    <2>1. /\ portal' \in [Portals -> PortalStates]
          /\ portal'[x].at = "failed" /\ portal'[x].file = 0 /\ portal'[x].pid = portal[x].pid
          /\ \A y \in Portals \ {x} : portal'[y] = portal[y]
        BY <1>4, PortalMoves DEF PortalPlaces
    <2>2. SamePortals
        BY <1>1, <2>1 DEF SamePortals
    <2>3. \A y \in Portals : Locked(y)'
        <3>1. \A y \in Portals \ {x} : Locked(y)'
            BY <1>1, <1>2, <1>4, <2>1, OthersLocked
        <3>2. Locked(x)'
            BY <1>1, <1>2, <1>4, <2>1, NotEnding DEF Locked
        <3> QED
            BY <3>1, <3>2
    <2>4. Named'
        BY <1>1, <1>4, <2>1 DEF PortalInv, Named
    <2> QED
        BY <1>1, <1>2, <1>4, <2>2, <2>3, <2>4, LockStepKeeps
<1> QED
    BY <1>1, <1>3, <1>4

LEMMA CheckStaleKeeps ==
    ASSUME PortalInv, NEW x \in Portals, CheckStale(x)
    PROVE  PortalInv'
<1> PICK i : i = portal[x].file
    OBVIOUS
<1>1. /\ portal[x].at = "check"
      /\ UNCHANGED <<proc, ending, path, stolen, dir, born, written, req>>
      /\ \/ /\ files' = [files EXCEPT ![i].lock = 0]
            /\ PutsAt(x, "failed", 0)
         \/ /\ files' = [files EXCEPT ![i].pid = NoPid]
            /\ Goto(x, "write")
    BY DEF CheckStale, PortalAt, homes, PutsAt
<1>2. /\ files \in Seq(LockFiles) /\ Len(files) \in Nat /\ i \in 1..Len(files) /\ x \in Nat /\ i \in Nat
      /\ files[i] \in LockFiles /\ files[i].lock = x
      /\ ending \in [Portals -> Endings] /\ portal \in [Portals -> PortalStates] /\ path \in Nat
    BY <1>1 DEF PortalInv, PortalTypes, Locked, Portals
<1>3. PICK f \in LockFiles : /\ files' = [files EXCEPT ![i] = f] /\ f.lock \in {0, x}
                             /\ portal'[x].at = "write" => f.lock = x
    <2>1. PICK u : u = [files[i] EXCEPT !.lock = 0]
        OBVIOUS
    <2>2. PICK w : w = [files[i] EXCEPT !.pid = NoPid]
        OBVIOUS
    <2>3. u \in LockFiles /\ u.lock = 0 /\ w \in LockFiles /\ w.lock = x
        BY <1>2, <2>1, <2>2 DEF LockFiles
    <2>4. CASE /\ files' = [files EXCEPT ![i].lock = 0]
               /\ PutsAt(x, "failed", 0)
        <3>1. files' = [files EXCEPT ![i] = u]
            BY <2>1, <2>4
        <3>2. portal'[x].at = "failed"
            BY <2>4, PortalMoves DEF PortalPlaces
        <3> QED
            BY <2>3, <3>1, <3>2
    <2>5. CASE files' = [files EXCEPT ![i].pid = NoPid]
        <3>1. files' = [files EXCEPT ![i] = w]
            BY <2>2, <2>5
        <3> QED
            BY <2>3, <3>1
    <2> QED
        BY <1>1, <2>4, <2>5
<1>4. /\ files' \in Seq(LockFiles) /\ Len(files') = Len(files) /\ files'[i] = f
      /\ \A j \in 1..Len(files) : j # i => files'[j] = files[j]
    BY <1>2, <1>3, FileChanges
<1>5. /\ portal' \in [Portals -> PortalStates]
      /\ \/ portal'[x].at = "failed" /\ portal'[x].file = 0
         \/ portal'[x].at = "write" /\ portal'[x].file = i
      /\ portal'[x].pid = portal[x].pid
      /\ \A y \in Portals \ {x} : portal'[y] = portal[y]
    <2>1. CASE PutsAt(x, "failed", 0)
        BY <2>1, PortalMoves DEF PortalPlaces
    <2>2. CASE Goto(x, "write")
        BY <2>2, PortalGoes DEF PortalPlaces
    <2> QED
        BY <1>1, <2>1, <2>2
<1>6. SamePortals
    BY <1>1, <1>5 DEF SamePortals
<1>7. \A y \in Portals : Locked(y)'
    <2>1. \A j \in 1..Len(files) :
              files[j].lock \notin {0, x} => files'[j].lock = files[j].lock
        BY <1>2, <1>4
    <2>2. \A y \in Portals \ {x} : Locked(y)'
        BY <1>1, <1>2, <1>4, <1>5, <2>1, OthersLocked
    <2>3. Locked(x)'
        BY <1>1, <1>2, <1>3, <1>4, <1>5, NotEnding DEF Locked
    <2> QED
        BY <2>2, <2>3
<1>8. Named'
    BY <1>1, <1>4, <1>5 DEF PortalInv, Named
<1> QED
    BY <1>1, <1>2, <1>4, <1>6, <1>7, <1>8, LockStepKeeps

LEMMA WriteLockfileKeeps ==
    ASSUME PortalInv, NEW x \in Portals, WriteLockfile(x)
    PROVE  PortalInv'
<1> PICK i : i = portal[x].file
    OBVIOUS
<1>1. /\ portal[x].at = "write" /\ files' = [files EXCEPT ![i].pid = portal[x].pid]
      /\ Goto(x, "serving")
      /\ UNCHANGED <<proc, ending, path, stolen, dir, born, written, req>>
    BY DEF WriteLockfile, PortalAt, homes, Goto
<1>2. /\ files \in Seq(LockFiles) /\ Len(files) \in Nat /\ i \in 1..Len(files) /\ i \in Nat
      /\ files[i] \in LockFiles /\ files[i].lock = x
      /\ ending \in [Portals -> Endings] /\ portal \in [Portals -> PortalStates] /\ path \in Nat
    BY <1>1 DEF PortalInv, PortalTypes, Locked, Portals
<1>3. PICK f : f = [files[i] EXCEPT !.pid = portal[x].pid]
    OBVIOUS
<1>4. f \in LockFiles /\ f.lock = x
    <2>1. portal[x].pid \in Pids \cup {NoPid}
        BY <1>2 DEF PortalStates
    <2> QED
        BY <1>2, <1>3, <2>1 DEF LockFiles
<1>5. /\ files' \in Seq(LockFiles) /\ Len(files') = Len(files) /\ files'[i] = f
      /\ \A j \in 1..Len(files) : j # i => files'[j] = files[j]
    <2>1. files' = [files EXCEPT ![i] = f]
        BY <1>1, <1>3
    <2> QED
        BY <1>2, <1>4, <2>1, FileChanges
<1>6. /\ portal' \in [Portals -> PortalStates]
      /\ portal'[x].at = "serving" /\ portal'[x].file = i /\ portal'[x].pid = portal[x].pid
      /\ \A y \in Portals \ {x} : portal'[y] = portal[y]
    BY <1>1, PortalGoes DEF PortalPlaces
<1>7. SamePortals
    BY <1>1, <1>6 DEF SamePortals
<1>8. \A y \in Portals : Locked(y)'
    <2>1. \A y \in Portals \ {x} : Locked(y)'
        BY <1>1, <1>2, <1>5, <1>6, OthersLocked
    <2>2. \A k \in Enders : ending'[x][k] = "no"
        BY <1>1, NotEnding
    <2>3. Locked(x)'
        BY <1>2, <1>4, <1>5, <1>6, <2>2 DEF Locked
    <2> QED
        BY <2>1, <2>3
<1>9. Named'
    BY <1>1, <1>5, <1>6 DEF PortalInv, Named
<1> QED
    BY <1>1, <1>2, <1>5, <1>7, <1>8, <1>9, LockStepKeeps

LEMMA TerminateKeeps ==
    ASSUME PortalInv, NEW x \in Portals, NEW k \in Enders, Terminate(x, k)
    PROVE  PortalInv'
<1>1. /\ portal[x].at \in {"serving", "draining"} /\ ending[x][k] = "no"
      /\ ending' = [ending EXCEPT ![x][k] = "close"]
      /\ UNCHANGED <<proc, portal, path, files, stolen, dir, born, written, req>>
    BY DEF Terminate, homes
<1>2. files \in Seq(LockFiles) /\ Len(files) \in Nat /\ ending \in [Portals -> Endings]
      /\ path \in Nat
    BY DEF PortalInv, PortalTypes
<1>3. /\ ending' \in [Portals -> Endings] /\ ending'[x][k] = "close"
      /\ \A e \in Enders \ {k} : ending'[x][e] = ending[x][e]
      /\ \A y \in Portals \ {x} : ending'[y] = ending[y]
    BY <1>1, <1>2 DEF Endings
<1>4. SamePortals
    BY <1>1 DEF PortalInv, PortalTypes, SamePortals
<1>5. \A y \in Portals : Locked(y)'
    <2>1. \A y \in Portals \ {x} : Locked(y)'
        BY <1>1, <1>2, <1>3, OthersLocked
    <2>2. Locked(x)'
        BY <1>1, <1>3 DEF PortalInv, Locked
    <2> QED
        BY <2>1, <2>2
<1>6. Named'
    BY <1>1 DEF PortalInv, Named
<1> QED
    BY <1>1, <1>2, <1>3, <1>4, <1>5, <1>6, LockStepKeeps

LEMMA CloseLockKeeps ==
    ASSUME PortalInv, NEW x \in Portals, NEW k \in Enders, CloseLock(x, k)
    PROVE  PortalInv'
<1>1. /\ ending[x][k] = "close" /\ files' = Unlocked(x)
      /\ portal' = [portal EXCEPT ![x].file = 0]
      /\ ending' = [ending EXCEPT ![x][k] = "remove"]
      /\ UNCHANGED <<proc, path, stolen, dir, born, written, req>>
    BY DEF CloseLock, homes
<1>2. /\ files \in Seq(LockFiles) /\ Len(files) \in Nat /\ ending \in [Portals -> Endings]
      /\ portal \in [Portals -> PortalStates] /\ path \in Nat
      /\ portal[x].at \in {"serving", "draining"}
    BY <1>1 DEF PortalInv, PortalTypes, Locked
<1>3. /\ ending' \in [Portals -> Endings]
      /\ \A y \in Portals \ {x} : ending'[y] = ending[y]
    BY <1>1, <1>2 DEF Endings
<1>4. /\ files' \in Seq(LockFiles) /\ Len(files') = Len(files)
      /\ \A i \in 1..Len(files) : files[i].lock \notin {0, x} => files'[i].lock = files[i].lock
    BY <1>1, Unlocks
<1>5. /\ portal' \in [Portals -> PortalStates]
      /\ portal'[x].at = portal[x].at /\ portal'[x].file = 0 /\ portal'[x].pid = portal[x].pid
      /\ \A y \in Portals \ {x} : portal'[y] = portal[y]
    <2>1. PICK u : u = [portal[x] EXCEPT !.file = 0]
        OBVIOUS
    <2>2. portal' = [portal EXCEPT ![x] = u]
        BY <1>1, <2>1
    <2>3. u \in PortalStates /\ u.at = portal[x].at /\ u.file = 0 /\ u.pid = portal[x].pid
        BY <1>2, <2>1 DEF PortalStates
    <2> QED
        BY <1>2, <2>2, <2>3
<1>6. SamePortals
    BY <1>5 DEF SamePortals
<1>7. \A y \in Portals : Locked(y)'
    <2>1. \A y \in Portals \ {x} : Locked(y)'
        BY <1>2, <1>3, <1>4, <1>5, OthersLocked
    <2>2. Locked(x)'
        BY <1>2, <1>4, <1>5 DEF Locked
    <2> QED
        BY <2>1, <2>2
<1>8. Named'
    BY <1>1, <1>4, <1>5 DEF PortalInv, Named
<1> QED
    BY <1>1, <1>2, <1>3, <1>4, <1>6, <1>7, <1>8, LockStepKeeps

\* Removing the path of a lock file that nobody else has open steals nothing.
LEMMA RemovesNamed ==
    ASSUME PortalInv, NEW x \in Portals, RemovesPath(x)
    PROVE  /\ path' = 0
           /\ ~stolen' => ~stolen /\ \A y \in Portals \ {x} : portal[y].file = 0
<1>1. path' = 0
    BY DEF RemovesPath
<1>2. ~stolen' => ~stolen /\ (path = 0 \/ \A y \in Portals \ {x} : portal[y].file # path)
    BY DEF RemovesPath
<1> QED
    BY <1>1, <1>2 DEF PortalInv, Named

LEMMA RemoveLockKeeps ==
    ASSUME PortalInv, NEW x \in Portals, RemoveLock(x)
    PROVE  PortalInv'
<1>1. /\ ending[x]["signal"] = "remove" /\ RemovesPath(x) /\ Goto(x, "draining")
      /\ ending' = [ending EXCEPT ![x]["signal"] = "removed"]
      /\ UNCHANGED <<proc, files, dir, born, written, req>>
    BY DEF RemoveLock, homes
<1>2. /\ files \in Seq(LockFiles) /\ Len(files) \in Nat /\ ending \in [Portals -> Endings]
      /\ portal \in [Portals -> PortalStates]
      /\ portal[x].at \in {"serving", "draining"} /\ portal[x].file = 0
    BY <1>1 DEF PortalInv, PortalTypes, Locked, Enders
<1>3. /\ ending' \in [Portals -> Endings]
      /\ \A y \in Portals \ {x} : ending'[y] = ending[y]
    BY <1>1, <1>2 DEF Endings
<1>4. /\ portal' \in [Portals -> PortalStates]
      /\ portal'[x].at = "draining" /\ portal'[x].file = 0 /\ portal'[x].pid = portal[x].pid
      /\ \A y \in Portals \ {x} : portal'[y] = portal[y]
    BY <1>1, <1>2, PortalGoes DEF PortalPlaces
<1>5. SamePortals
    BY <1>2, <1>4 DEF SamePortals
<1>6. \A y \in Portals : Locked(y)'
    <2>1. \A y \in Portals \ {x} : Locked(y)'
        BY <1>1, <1>2, <1>3, <1>4, OthersLocked
    <2>2. Locked(x)'
        BY <1>1, <1>2, <1>4 DEF Locked
    <2> QED
        BY <2>1, <2>2
<1>7. Named' /\ path' \in Nat
    <2>1. path' = 0 /\ (~stolen' => \A y \in Portals \ {x} : portal[y].file = 0)
        BY <1>1, RemovesNamed
    <2>2. ~stolen' => \A y \in Portals : portal'[y].file = 0
        BY <1>4, <2>1
    <2> QED
        BY <1>1, <1>2, <2>1, <2>2 DEF Named
<1> QED
    BY <1>1, <1>2, <1>3, <1>5, <1>6, <1>7, LockStepKeeps

-----------------------------------------------------------------------------
\* The first and the last step of a portal.
LEMMA LaunchKeeps ==
    ASSUME PortalInv, NEW x \in Portals, NEW p \in Pids, Launch(x, p)
    PROVE  PortalInv'
<1> PICK o, c : /\ o = [Off EXCEPT !.at = "open", !.pid = p]
                /\ c = [Free EXCEPT !.is = "portal", !.live = TRUE]
    OBVIOUS
<1>1. /\ portal[x].at = "off" /\ proc[p] = Free
      /\ portal' = [portal EXCEPT ![x] = o] /\ proc' = [proc EXCEPT ![p] = c]
      /\ UNCHANGED <<ending, path, files, stolen, dir, born, written, req>>
    BY DEF Launch, PortalAt, locks, homes
<1>2. /\ files \in Seq(LockFiles) /\ Len(files) \in Nat /\ ending \in [Portals -> Endings]
      /\ portal \in [Portals -> PortalStates] /\ proc \in [Pids -> ProcessStates]
      /\ dir \in [SessionIds -> Directories]
    BY DEF PortalInv, PortalTypes
<1>3. /\ o \in PortalStates /\ o.at = "open" /\ o.pid = p /\ o.file = 0
      /\ c \in ProcessStates /\ c.is = "portal" /\ c.by = 0
    BY DEF Off, PortalStates, Free, ProcessStates
<1>4. /\ portal' \in [Portals -> PortalStates] /\ portal'[x] = o
      /\ \A y \in Portals \ {x} : portal'[y] = portal[y]
      /\ proc' \in [Pids -> ProcessStates] /\ proc'[p] = c
      /\ \A q \in Pids \ {p} : proc'[q] = proc[q]
    BY <1>1, <1>2, <1>3
<1>5. /\ Running' = Running \cup {x} /\ x \notin Running
      /\ \A y \in Running : y \in Portals \ {x}
    BY <1>1, <1>3, <1>4 DEF Running
<1>6. \A y \in Running : portal[y].pid # p
    BY <1>1, IsFree DEF PortalInv, Processes
<1>7. Processes'
    <2>1. \A y \in Running : /\ portal'[y] = portal[y] /\ portal[y].pid \in Pids \ {p}
                             /\ proc'[portal[y].pid] = proc[portal[y].pid]
        BY <1>4, <1>5, <1>6 DEF PortalInv, Processes
    <2>2. \A y \in Running : proc[portal[y].pid].is = "portal" /\ proc[portal[y].pid].by = 0
        BY DEF PortalInv, Processes
    <2>3. \A y, z \in Running : portal[y].pid = portal[z].pid => y = z
        BY DEF PortalInv, Processes
    <2>4. portal'[x].pid = p /\ proc'[p].is = "portal" /\ proc'[p].by = 0
        BY <1>3, <1>4
    <2> QED
        BY <1>5, <2>1, <2>2, <2>3, <2>4 DEF Processes
<1>8. ASSUME NEW q, NEW y \in Portals, NEW s, Child(q, y, s)
      PROVE  Child(q, y, s)'
    <2>1. q # p
        BY <1>1, <1>8, IsFree DEF Child
    <2> QED
        BY <1>4, <1>8, <2>1 DEF Child
<1>9. ASSUME NEW s \in SessionIds
      PROVE  Recorded(s)' /\ Increasing(s)' /\ Growing(s)
    <2>1. Increasing(s)' /\ Growing(s)
        BY <1>1, <1>2 DEF PortalInv, Increasing, Growing, Directories
    <2>2. PICK q, y : q = dir[s].pid /\ y = dir[s].by
        OBVIOUS
    <2>3. Recorded(s)
        BY DEF PortalInv
    <2>4. y \in Portals => portal[y].at # "off"
        BY <2>2, <2>3 DEF Recorded
    <2>5. y \in Portals => y # x /\ portal'[y].at # "off"
        BY <1>1, <1>4, <2>4
    <2>6. ASSUME q # NoPid, y \in Running' PROVE Child(q, y, s)'
        <3>1. y \in Running /\ y \in Portals
            BY <1>5, <2>5, <2>6 DEF Running
        <3> QED
            BY <1>8, <2>2, <2>3, <2>6, <3>1 DEF Recorded
    <2> QED
        BY <1>1, <2>1, <2>2, <2>5, <2>6 DEF Recorded, Child
<1>10. ASSUME NEW r \in Requests
       PROVE  Sound(req[r])'
    <2>1. PICK q : q = req[r]
        OBVIOUS
    <2>2. q \in RequestStates /\ Sound(q)
        BY <2>1 DEF PortalInv, PortalTypes
    <2>3. Owned(q)'
        BY <1>1, <1>3, <1>4, <2>2 DEF Sound, Owned
    <2>4. Followed(q)'
        BY <1>1, <2>2 DEF Sound, Followed
    <2>5. q.at = "record" => Child(q.pid, q.by, q.s)'
        BY <1>8, <2>2 DEF Sound, Owned, Aimed
    <2>6. ASSUME q.kind = "kill", q.at = "signal", q.rec \in Running'
          PROVE  Child(q.pid, q.rec, q.s)'
        <3>1. q.rec # x
            BY <1>1, <2>2 DEF Sound, Owned
        <3>2. q.rec \in Running /\ q.rec \in Portals
            BY <1>5, <2>6, <3>1
        <3> QED
            BY <1>8, <2>2, <2>6, <3>2 DEF Sound, Aimed
    <2>7. Aimed(q)'
        BY <2>2, <2>5, <2>6 DEF Sound, Aimed
    <2> QED
        BY <1>1, <2>1, <2>3, <2>4, <2>7 DEF Sound, Owned, Followed, Streams, Aimed
<1>11. \A y \in Portals : Locked(y)'
    <2>1. \A y \in Portals \ {x} : Locked(y)'
        BY <1>1, <1>2, <1>4, OthersLocked
    <2>2. \A k \in Enders : ending'[x][k] = "no"
        BY <1>1, NotEnding
    <2>3. Locked(x)'
        BY <1>1, <1>2, <1>3, <1>4, <2>2 DEF Locked
    <2> QED
        BY <2>1, <2>3
<1>12. Named'
    BY <1>1, <1>3, <1>4 DEF PortalInv, Named
<1>13. PortalTypes'
    BY <1>1, <1>4 DEF PortalInv, PortalTypes
<1> QED
    BY <1>7, <1>9, <1>10, <1>11, <1>12, <1>13 DEF PortalInv

LEMMA GoneKeeps ==
    ASSUME PortalInv, NEW x \in Portals, portal[x].at \notin {"off", "gone"}, Gone(x),
           UNCHANGED <<dir, born, written>>, path' \in 0..Len(files),
           ~stolen' => ~stolen /\ \A y \in Portals \ {x} : portal[y].file \in {0, path'}
    PROVE  PortalInv'
<1> PICK o : o = [Off EXCEPT !.at = "gone"]
    OBVIOUS
<1>1. /\ portal' = [portal EXCEPT ![x] = o] /\ proc' = Orphaned(proc, x)
      /\ files' = Unlocked(x)
      /\ ending' = [ending EXCEPT ![x] = [k \in Enders |-> "no"]]
      /\ req' = [r \in Requests |-> IF req[r].by = x THEN Answered ELSE req[r]]
    BY DEF Gone, CutRequests
<1>2. /\ files \in Seq(LockFiles) /\ Len(files) \in Nat /\ ending \in [Portals -> Endings]
      /\ portal \in [Portals -> PortalStates] /\ proc \in [Pids -> ProcessStates]
      /\ dir \in [SessionIds -> Directories]
    BY DEF PortalInv, PortalTypes
<1>3. o \in PortalStates /\ o.at = "gone" /\ o.file = 0
    BY DEF Off, PortalStates
<1>4. /\ portal' \in [Portals -> PortalStates] /\ portal'[x] = o
      /\ \A y \in Portals \ {x} : portal'[y] = portal[y]
      /\ ending' \in [Portals -> Endings] /\ \A k \in Enders : ending'[x][k] = "no"
      /\ \A y \in Portals \ {x} : ending'[y] = ending[y]
    BY <1>1, <1>2, <1>3 DEF Endings
<1>5. /\ files' \in Seq(LockFiles) /\ Len(files') = Len(files)
      /\ \A i \in 1..Len(files) : files[i].lock \notin {0, x} => files'[i].lock = files[i].lock
    BY <1>1, Unlocks
<1>6. /\ Running' = Running \ {x} /\ x \in Running /\ \A y \in Running : y \in Portals
    <2>1. portal'[x].at = "gone"
        BY <1>3, <1>4
    <2>2. \A y \in Portals \ {x} : portal'[y].at = portal[y].at
        BY <1>4
    <2> QED
        BY <2>1, <2>2 DEF Running
<1>7. PICK p : p = portal[x].pid
    OBVIOUS
<1>8. /\ p \in Pids /\ proc[p].is = "portal" /\ proc[p].by = 0
      /\ \A y \in Running \ {x} : portal[y].pid # p
    BY <1>6, <1>7 DEF PortalInv, Processes
<1>9. /\ proc' \in [Pids -> ProcessStates]
      /\ \A q \in Pids : q # p /\ proc[q].by # x => proc'[q] = proc[q]
    <2> DEFINE f(q) == IF q = p THEN Free
                       ELSE IF proc[q].by # x THEN proc[q]
                       ELSE IF proc[q].live THEN [proc[q] EXCEPT !.by = 0] ELSE Free
    <2>1. ASSUME NEW q \in Pids
          PROVE  f(q) \in ProcessStates /\ (q # p /\ proc[q].by # x => f(q) = proc[q])
        <3>1. proc[q] \in ProcessStates
            BY <1>2
        <3>2. [proc[q] EXCEPT !.by = 0] \in ProcessStates
            BY <3>1 DEF ProcessStates
        <3> QED
            BY <3>1, <3>2, IsFree
    <2>2. proc' = [q \in Pids |-> f(q)]
        BY <1>1, <1>7 DEF Orphaned
    <2> HIDE DEF f
    <2> QED
        BY <2>1, <2>2
<1>10. Processes'
    <2>1. \A y \in Running \ {x} : /\ portal'[y] = portal[y] /\ portal[y].pid \in Pids \ {p}
                                   /\ proc[portal[y].pid].by = 0
        BY <1>4, <1>6, <1>8 DEF PortalInv, Processes
    <2>2. \A y \in Running \ {x} : proc'[portal[y].pid] = proc[portal[y].pid]
        BY <1>9, <2>1 DEF Portals
    <2>3. \A y \in Running : proc[portal[y].pid].is = "portal" /\ proc[portal[y].pid].by = 0
        BY DEF PortalInv, Processes
    <2>4. \A y, z \in Running : portal[y].pid = portal[z].pid => y = z
        BY DEF PortalInv, Processes
    <2> QED
        BY <1>6, <2>1, <2>2, <2>3, <2>4 DEF Processes
<1>11. ASSUME NEW q, NEW y \in Portals \ {x}, NEW s, Child(q, y, s)
       PROVE  Child(q, y, s)'
    <2>1. q # p /\ q \in Pids /\ proc[q].by # x
        BY <1>8, <1>11 DEF Child
    <2> QED
        BY <1>9, <1>11, <2>1 DEF Child
<1>12. ASSUME NEW s \in SessionIds
       PROVE  Recorded(s)' /\ Increasing(s)'
    <2>1. Increasing(s)'
        BY <1>2 DEF PortalInv, Increasing
    <2>2. PICK q, y : q = dir[s].pid /\ y = dir[s].by
        OBVIOUS
    <2>3. Recorded(s)
        BY DEF PortalInv
    <2>4. y \in Portals => portal'[y].at # "off"
        BY <1>3, <1>4, <2>2, <2>3 DEF Recorded
    <2>5. ASSUME q # NoPid, y \in Running' PROVE Child(q, y, s)'
        <3>1. y \in Running /\ y \in Portals \ {x}
            BY <1>6, <2>5
        <3> QED
            BY <1>11, <2>2, <2>3, <2>5, <3>1 DEF Recorded
    <2> QED
        BY <2>1, <2>2, <2>4, <2>5 DEF Recorded, Child
<1>13. ASSUME NEW r \in Requests
       PROVE  req'[r] \in RequestStates /\ Sound(req[r])'
    <2>1. PICK q : q = req'[r]
        OBVIOUS
    <2>2. req[r] \in RequestStates /\ Sound(req[r])
        BY DEF PortalInv, PortalTypes
    <2>3. q = Answered \/ (q = req[r] /\ q.by # x)
        BY <1>1, <2>1
    <2>4. /\ q \in RequestStates /\ Sound(q) /\ (q.at \notin {"none", "done"} => q.by # x)
        BY <2>2, <2>3, IsAnswered, AnsweredIsSound
    <2>5. Owned(q)'
        BY <1>3, <1>4, <2>4 DEF Sound, Owned
    <2>6. Followed(q)'
        BY <2>4 DEF Sound, Followed
    <2>7. q.at = "record" => Child(q.pid, q.by, q.s)'
        BY <1>11, <2>4 DEF Sound, Owned, Aimed
    <2>8. ASSUME q.kind = "kill", q.at = "signal", q.rec \in Running'
          PROVE  Child(q.pid, q.rec, q.s)'
        <3>1. q.rec \in Running /\ q.rec \in Portals \ {x}
            BY <1>6, <2>8
        <3> QED
            BY <1>11, <2>4, <2>8, <3>1 DEF Sound, Aimed
    <2>9. Aimed(q)'
        BY <2>4, <2>7, <2>8 DEF Sound, Aimed
    <2> QED
        BY <2>1, <2>4, <2>5, <2>6, <2>9 DEF Sound, Owned, Followed, Streams, Aimed
<1>14. \A y \in Portals : Locked(y)'
    <2>1. \A y \in Portals \ {x} : Locked(y)'
        BY <1>2, <1>4, <1>5, OthersLocked
    <2>2. Locked(x)'
        BY <1>2, <1>3, <1>4, <1>5 DEF Locked
    <2> QED
        BY <2>1, <2>2
<1>15. Named'
    BY <1>3, <1>4, <1>5 DEF Named
<1>16. PortalTypes'
    BY <1>1, <1>2, <1>4, <1>5, <1>9, <1>13 DEF PortalInv, PortalTypes
<1> QED
    BY <1>10, <1>12, <1>13, <1>14, <1>15, <1>16 DEF PortalInv

LEMMA PortalEndKeeps ==
    ASSUME PortalInv, NEW x \in Portals,
           Fail(x) \/ RemoveLockAndExit(x) \/ Exit(x) \/ Crash(x)
    PROVE  PortalInv'
<1>1. /\ UNCHANGED <<dir, born, written>> /\ Gone(x)
      /\ RemovesPath(x) \/ UNCHANGED <<path, stolen>>
    BY DEF Fail, RemoveLockAndExit, Exit, Crash, homes
<1>2. portal[x].at \notin {"off", "gone"}
    BY DEF Fail, RemoveLockAndExit, Exit, Crash, PortalAt, Running, PortalInv, Locked, Enders
<1>3. CASE RemovesPath(x)
    <2>1. path' \in 0..Len(files)
        BY <1>3, RemovesNamed DEF PortalInv, PortalTypes
    <2> QED
        BY <1>1, <1>2, <1>3, <2>1, RemovesNamed, GoneKeeps
<1>4. CASE UNCHANGED <<path, stolen>>
    <2>1. path' \in 0..Len(files) /\ (~stolen' => ~stolen)
        BY <1>4 DEF PortalInv, Named
    <2>2. ~stolen' => \A y \in Portals \ {x} : portal[y].file \in {0, path'}
        BY <1>4 DEF PortalInv, Named
    <2> QED
        BY <1>1, <1>2, <2>1, <2>2, GoneKeeps
<1> QED
    BY <1>1, <1>3, <1>4

-----------------------------------------------------------------------------
LEMMA PortalInvInit ==
    ASSUME PortalInit
    PROVE  PortalInv
<1>1. Off \in PortalStates /\ Off.at = "off" /\ Off.file = 0
    BY DEF Off, PortalStates
<1>2. /\ NoDir \in Directories /\ NoDir.pid = NoPid /\ NoDir.by = 0 /\ NoDir.lines = <<>>
    BY DEF NoDir, Directories
<1>3. /\ NoReq \in RequestStates /\ NoReq.at = "none" /\ NoReq.kind = "none" /\ NoReq.rec = 0
    BY DEF NoReq, RequestStates, RequestPlaces
<1>4. PICK d : d = [NoDir EXCEPT !.is = TRUE, !.lines = <<1>>]
    OBVIOUS
<1>5. d \in Directories /\ d.pid = NoPid /\ d.by = 0 /\ d.lines = <<1>>
    <2>1. PICK u : u = [NoDir EXCEPT !.is = TRUE]
        OBVIOUS
    <2>2. d = [u EXCEPT !.lines = <<1>>]
        BY <1>4, <2>1
    <2>3. u \in Directories /\ u.pid = NoPid /\ u.by = 0
        BY <1>2, <2>1 DEF Directories
    <2>4. <<1>> \in Seq(Nat)
        OBVIOUS
    <2> QED
        BY <2>2, <2>3, <2>4 DEF Directories
<1>6. dir = [s \in SessionIds |-> IF s = 1 THEN d ELSE NoDir]
    BY <1>4 DEF PortalInit
<1>7. PortalTypes
    <2>1. dir \in [SessionIds -> Directories]
        BY <1>2, <1>5, <1>6
    <2>2. ending \in [Portals -> Endings]
        BY DEF PortalInit, Endings
    <2>3. files \in Seq(LockFiles) /\ path \in Nat /\ born \in Nat /\ written \in Nat
        BY DEF PortalInit
    <2>4. proc \in [Pids -> ProcessStates] /\ portal \in [Portals -> PortalStates]
        BY <1>1, IsFree DEF PortalInit
    <2>5. req \in [Requests -> RequestStates]
        BY <1>3 DEF PortalInit
    <2> QED
        BY <2>1, <2>2, <2>3, <2>4, <2>5 DEF PortalTypes
<1>8. \A x \in Portals : Locked(x)
    BY <1>1 DEF PortalInit, Locked
<1>9. Named /\ Processes
    BY <1>1 DEF PortalInit, Named, Processes, Running
<1>10. ASSUME NEW s \in SessionIds
       PROVE  Recorded(s) /\ Increasing(s)
    <2>1. dir[s].pid = NoPid /\ dir[s].by = 0 /\ dir[s].lines \in {<<>>, <<1>>}
        BY <1>2, <1>5, <1>6
    <2>2. Recorded(s)
        BY <2>1 DEF Recorded, Portals
    <2>3. Increasing(s)
        BY <2>1 DEF Increasing, PortalInit
    <2> QED
        BY <2>2, <2>3
<1>11. ASSUME NEW r \in Requests
       PROVE  Sound(req[r])
    BY <1>3 DEF PortalInit, Sound, Owned, Followed, Streams, Aimed, Portals
<1> QED
    BY <1>7, <1>8, <1>9, <1>10, <1>11 DEF PortalInv

LEMMA PortalInvNext ==
    ASSUME PortalInv, [PortalNext]_portalVars
    PROVE  PortalInv'
<1>1. CASE \E p \in Pids : Write(p) \/ End(p) \/ Outside(p)
    BY <1>1, WriteKeeps, EndKeeps, OutsideKeeps
<1>2. ASSUME NEW x \in Portals, NEW p \in Pids, Launch(x, p)
      PROVE  PortalInv'
    BY <1>2, LaunchKeeps
<1>3. ASSUME NEW x \in Portals,
             OpenLock(x) \/ TryLock(x) \/ CheckStale(x) \/ WriteLockfile(x) \/ RemoveLock(x)
      PROVE  PortalInv'
    BY <1>3, OpenLockKeeps, TryLockKeeps, CheckStaleKeeps, WriteLockfileKeeps, RemoveLockKeeps
<1>4. ASSUME NEW x \in Portals, NEW k \in Enders, Terminate(x, k) \/ CloseLock(x, k)
      PROVE  PortalInv'
    BY <1>4, TerminateKeeps, CloseLockKeeps
<1>5. ASSUME NEW x \in Portals, Fail(x) \/ RemoveLockAndExit(x) \/ Exit(x) \/ Crash(x)
      PROVE  PortalInv'
    BY <1>5, PortalEndKeeps
<1>6. ASSUME NEW r \in Requests, Handle(r)
      PROVE  PortalInv'
    <2>1. CASE \E x \in Portals, kind \in Kinds, s \in SessionIds : Arrive(r, x, kind, s)
        BY <2>1, ArriveKeeps
    <2>2. CASE StartMkdir(r) \/ Spawn(r) \/ RecordPid(r) \/ RemoveAll(r)
        BY <2>2, StartMkdirKeeps, SpawnKeeps, RecordPidKeeps, RemoveAllKeeps
    <2>3. CASE getSessionPID(r) \/ SendSignal(r)
        BY <2>3, getSessionPIDKeeps, SendSignalKeeps
    <2>4. CASE StreamOpen(r) \/ StreamStat(r) \/ StreamRead(r)
        BY <2>4, StreamOpenKeeps, StreamStatKeeps, StreamReadKeeps
    <2>5. CASE StreamEnd(r)
        BY <2>5, AnswerKeeps DEF StreamEnd
    <2>6. CASE ResumeCheck(r) \/ DeleteCheck(r) \/ InstallCheck(r) \/ Download(r) \/ Extract(r)
        BY <2>6, CheckKeeps
    <2> QED
        BY <1>6, <2>1, <2>2, <2>3, <2>4, <2>5, <2>6 DEF Handle
<1>7. CASE UNCHANGED portalVars
    <2>1. UNCHANGED <<proc, portal, locks, homes, req>>
        BY <1>7 DEF portalVars
    <2> QED
        BY <2>1, LastingIfStill, TableKeeps
<1>8. CASE PortalNext
    BY <1>1, <1>2, <1>3, <1>4, <1>5, <1>6, <1>8 DEF PortalNext
<1> QED
    BY <1>7, <1>8

\* However the starts interleave and whichever portal ends, at most one serves
\* under its lock, until one that ends has removed the lock file of another
\* (flock, writeLockfileWithLock, terminate): for every number of portals.
THEOREM OnePortal == PortalSpec => []OnePortalUntilStolen
<1>1. PortalInit => PortalInv
    BY PortalInvInit
<1>2. PortalInv /\ [PortalNext]_portalVars => PortalInv'
    BY PortalInvNext
<1>3. PortalInv => OnePortalUntilStolen
    <2>1. SUFFICES ASSUME PortalInv, ~stolen
                   PROVE  Cardinality(Serving) <= 1
        BY DEF OnePortalUntilStolen
    <2>2. ASSUME NEW x \in Serving, NEW y \in Serving
          PROVE  x = y
        <3>1. /\ x \in Portals /\ portal[x].at = "serving" /\ portal[x].file # 0
              /\ y \in Portals /\ portal[y].at = "serving" /\ portal[y].file # 0
            BY DEF Serving, Answering
        <3>2. portal[x].file = path /\ portal[y].file = path
            BY <2>1, <3>1 DEF PortalInv, Named
        <3>3. files[path].lock = x /\ files[path].lock = y
            BY <2>1, <3>1, <3>2 DEF PortalInv, Locked
        <3> QED
            BY <3>3
    <2>3. CASE Serving = {}
        BY <2>3, FS_EmptySet
    <2>4. CASE \E x \in Serving : Serving = {x}
        BY <2>4, FS_Singleton
    <2> QED
        BY <2>2, <2>3, <2>4
<1> QED
    BY <1>1, <1>2, <1>3, PTL DEF PortalSpec

\* A kill signals no process but one that was started for its session, as long
\* as the portal that recorded the pid lives (getSessionPID, handleSessionAction).
THEOREM KillsHitTheirOwn == PortalSpec => KillsItsOwn
<1> DEFINE Own == \A r \in Requests :
             LET p == req[r].pid IN
             Is(r, "kill", "signal") /\ portal' = portal /\ proc'[p] # proc[p] /\ req'[r] # req[r]
                => \/ proc[p].is = "jenny" /\ proc[p].for = req[r].s
                   \/ req[r].rec \notin Running
<1>1. PortalInit => PortalInv
    BY PortalInvInit
<1>2. PortalInv /\ [PortalNext]_portalVars => PortalInv'
    BY PortalInvNext
<1>3. PortalInv => Own
    BY DEF PortalInv, Sound, Aimed, Child, Is
<1>4. PortalInv /\ [PortalNext]_portalVars => [Own]_portalVars
    BY <1>3
<1>5. KillsItsOwn <=> [][Own]_portalVars
    BY DEF KillsItsOwn
<1> QED
    BY <1>1, <1>2, <1>4, <1>5, PTL DEF PortalSpec

\* A stream has sent every line that was appended since it was opened, up to
\* where it says to be, unless the session was deleted (handleSessionStream).
THEOREM StreamsMissNothing == PortalSpec => []NoLineMissed
<1>1. PortalInit => PortalInv
    BY PortalInvInit
<1>2. PortalInv /\ [PortalNext]_portalVars => PortalInv'
    BY PortalInvNext
<1>3. PortalInv => NoLineMissed
    BY DEF PortalInv, Sound, Followed, Streams, NoLineMissed
<1> QED
    BY <1>1, <1>2, <1>3, PTL DEF PortalSpec

\* An extraction that goes on, or was spoiled, is all that a part needs.
LEMMA PartStays ==
    ASSUME PortalInv, PartIsSpoiled, UNCHANGED skill, spoiled => spoiled',
           \A q \in Requests : Is(q, "skill", "extract") => spoiled' \/ Is(q, "skill", "extract")'
    PROVE  PartIsSpoiled'
BY DEF PartIsSpoiled

LEMMA HandlersKeepPart ==
    ASSUME PortalInv, PartIsSpoiled, NEW r \in Requests, Handle(r)
    PROVE  PartIsSpoiled'
<1>1. ASSUME ~Is(r, "skill", "extract"), UNCHANGED packs,
             \A q \in Requests \ {r} : req'[q].kind = req[q].kind /\ req'[q].at = req[q].at
      PROVE  PartIsSpoiled'
    BY <1>1, PartStays DEF packs, Is
<1>2. req \in [Requests -> RequestStates]
    BY DEF PortalInv, PortalTypes
<1>3. CASE \E x \in Portals, kind \in Kinds, s \in SessionIds : Arrive(r, x, kind, s)
    BY <1>1, <1>2, <1>3 DEF Arrive, Is
<1>4. CASE StartMkdir(r) \/ ResumeCheck(r) \/ Spawn(r) \/ RecordPid(r)
    BY <1>1, <1>2, <1>4 DEF StartMkdir, ResumeCheck, Spawn, RecordPid, Is, Step, Answer
<1>5. CASE getSessionPID(r) \/ SendSignal(r) \/ DeleteCheck(r)
    BY <1>1, <1>2, <1>5 DEF getSessionPID, SendSignal, DeleteCheck, Is, Step, Answer
<1>6. CASE RemoveAll(r)
    <2>1. /\ req[r].at = "removeAll" /\ UNCHANGED packs
          /\ req' = [q \in Requests |->
                       IF q = r THEN Answered
                       ELSE IF req[q].kind = "stream" /\ req[q].s = req[r].s
                            THEN [req[q] EXCEPT !.torn = TRUE] ELSE req[q]]
        BY <1>6 DEF RemoveAll
    <2>2. \A q \in Requests \ {r} : req'[q] \in {[req[q] EXCEPT !.torn = TRUE], req[q]}
        BY <2>1
    <2>3. \A q \in Requests \ {r} : req'[q].kind = req[q].kind /\ req'[q].at = req[q].at
        BY <1>2, <2>2 DEF RequestStates
    <2> QED
        BY <1>1, <2>1, <2>3 DEF Is
<1>7. CASE StreamOpen(r) \/ StreamStat(r) \/ StreamRead(r) \/ StreamEnd(r)
    BY <1>1, <1>2, <1>7 DEF StreamOpen, StreamStat, StreamRead, StreamEnd, Is, Answer
<1>8. CASE InstallCheck(r)
    BY <1>1, <1>2, <1>8 DEF InstallCheck, Is, Step, Answer
<1>9. CASE Download(r)
    <2>1. /\ Is(r, "skill", "download") /\ UNCHANGED spoiled
          /\ (Answer(r) /\ UNCHANGED skill) \/ Step(r, "extract")
        BY <1>9 DEF Download
    <2>2. CASE Answer(r) /\ UNCHANGED skill
        BY <1>1, <1>2, <2>1, <2>2 DEF Is, Answer, packs
    <2>3. CASE Step(r, "extract")
        <3>1. req[r] \in RequestStates /\ req' = [req EXCEPT ![r] = Moved(req[r], "extract")]
            BY <1>2, <2>3 DEF Step, Moved
        <3>2. req'[r].kind = "skill" /\ req'[r].at = "extract"
            BY <1>2, <2>1, <3>1, IsMoved DEF Is, RequestPlaces
        <3> QED
            BY <3>2 DEF PartIsSpoiled, Is
    <2> QED
        BY <2>1, <2>2, <2>3
<1>10. CASE Extract(r)
    BY <1>10 DEF Extract, PartIsSpoiled
<1> QED
    BY <1>3, <1>4, <1>5, <1>6, <1>7, <1>8, <1>9, <1>10 DEF Handle

LEMMA NextKeepsPart ==
    ASSUME PortalInv, PartIsSpoiled, [PortalNext]_portalVars
    PROVE  PartIsSpoiled'
<1>1. ASSUME UNCHANGED <<req, packs>>
      PROVE  PartIsSpoiled'
    BY <1>1 DEF PartIsSpoiled, packs, Is
<1>2. ASSUME NEW p \in Pids, Write(p) \/ End(p) \/ Outside(p)
      PROVE  PartIsSpoiled'
    BY <1>1, <1>2 DEF Write, End, Outside
<1>3. ASSUME NEW x \in Portals, NEW p \in Pids, Launch(x, p)
      PROVE  PartIsSpoiled'
    BY <1>1, <1>3 DEF Launch
<1>4. ASSUME NEW x \in Portals,
             OpenLock(x) \/ TryLock(x) \/ CheckStale(x) \/ WriteLockfile(x) \/ RemoveLock(x)
      PROVE  PartIsSpoiled'
    BY <1>1, <1>4 DEF OpenLock, TryLock, CheckStale, WriteLockfile, RemoveLock
<1>5. ASSUME NEW x \in Portals, NEW k \in Enders, Terminate(x, k) \/ CloseLock(x, k)
      PROVE  PartIsSpoiled'
    BY <1>1, <1>5 DEF Terminate, CloseLock
<1>6. ASSUME NEW x \in Portals, Fail(x) \/ RemoveLockAndExit(x) \/ Exit(x) \/ Crash(x)
      PROVE  PartIsSpoiled'
    <2>1. CutRequests(x) /\ UNCHANGED skill
        BY <1>6 DEF Fail, RemoveLockAndExit, Exit, Crash, Gone
    <2>2. /\ spoiled => spoiled'
          /\ \A q \in Requests :
                Is(q, "skill", "extract") => spoiled' \/ Is(q, "skill", "extract")'
        BY <2>1 DEF CutRequests, Is
    <2> QED
        BY <2>1, <2>2, PartStays
<1>7. ASSUME NEW r \in Requests, Handle(r)
      PROVE  PartIsSpoiled'
    BY <1>7, HandlersKeepPart
<1>8. CASE UNCHANGED portalVars
    BY <1>1, <1>8 DEF portalVars
<1>9. CASE PortalNext
    BY <1>2, <1>3, <1>4, <1>5, <1>6, <1>7, <1>9 DEF PortalNext
<1> QED
    BY <1>8, <1>9

\* A package is there in part only while it is extracted, or when the extraction
\* failed or was cut (downloadAndExtract): however many installations overlap.
THEOREM PartsAreSpoiled == PortalSpec => []PartIsSpoiled
<1>1. PortalInit => PartIsSpoiled
    BY DEF PortalInit, PartIsSpoiled
<1>2. PortalInit => PortalInv
    BY PortalInvInit
<1>3. PortalInv /\ [PortalNext]_portalVars => PortalInv'
    BY PortalInvNext
<1>4. PortalInv /\ PartIsSpoiled /\ [PortalNext]_portalVars => PartIsSpoiled'
    BY NextKeepsPart
<1> QED
    BY <1>1, <1>2, <1>3, <1>4, PTL DEF PortalSpec
=============================================================================
