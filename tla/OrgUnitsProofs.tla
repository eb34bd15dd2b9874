----------------------------- MODULE OrgUnitsProofs -----------------------------
(***************************************************************************)
(* For any trees of organisational units and any number of requests:       *)
(* without two updates that overlap no unit gets below itself, and an      *)
(* update that nobody disturbs leaves the paths at and below its unit      *)
(* right; and a removal that nobody disturbs leaves no unit behind.        *)
(*                                                                         *)
(* The first rests on what a climb has seen: a set of units with their    *)
(* parents, in which the moved unit is not; and, while the update goes     *)
(* down the tree and removals take parents away, on the parents that there *)
(* were when it set out.  What an update leaves behind rests on the        *)
(* frontier of the walk down the tree: no unit of it is below another, and *)
(* whichever unit has a wrong path is below one of them.  A walk that      *)
(* started on a cycle, as two updates that overlapped leave it, never      *)
(* comes to an end.                                                        *)
(***************************************************************************)
EXTENDS OrgUnits, SequenceTheorems, TLAPS

-----------------------------------------------------------------------------
(* No unit gets below itself.  While no two updates overlap, a climbing    *)
(* update has seen nothing but parents of its new parent, and its unit is  *)
(* none of them; units that are created meanwhile are leaves, and those    *)
(* that are deleted only take parents away.                                *)

Acyclic == \A S \in SUBSET DOMAIN units : S # {} => \E u \in S : units[u].parent \notin S

\* What a request keeps of a child it has read, and the request itself.
KidRow == [unit : Units, slug : Slugs, parent : Units, above : Seq(Slugs)]

TurnRow == [kind : {"update", "create", "remove"},
            at : {"parent", "climb", "save", "find", "child", "delete"},
            unit : Parent, slug : Slugs, parent : Parent, above : Seq(Slugs), node : Parent,
            below : Seq(SUBSET KidRow), alone : BOOLEAN]

\* The children that a request has read and not saved.
Waiting(t) == UNION {t.below[i] : i \in DOMAIN t.below}

\* Which fields a request has set, by the statement it is at.
TurnFits(t) ==
  /\ t \in TurnRow
  /\ t.kind = "create" => t.at = "save"
  /\ t.kind = "remove" <=> t.at = "delete"
  /\ t.kind # "create" => t.unit \in born
  /\ t.at \in {"parent", "climb"} => t.parent \in Units /\ t.node \in Units /\ t.parent # t.unit
  /\ t.at \in {"parent", "climb", "save", "delete"} => t.below = <<>>
  /\ t.at = "parent" => t.node = t.parent
  /\ t.at = "find" => t.node \in Units
  /\ t.at = "child" => t.below # <<>>
  /\ \A i \in DOMAIN t.below : t.below[i] # {}
  /\ \A r \in Waiting(t) : r.unit \in born

\* The foreign key holds, and every row and request is well formed.
OrgShape ==
  /\ DOMAIN units \subseteq born /\ born \subseteq Units
  /\ \A u \in DOMAIN units : /\ units[u].slug \in Slugs /\ units[u].path \in Seq(Slugs)
                             /\ units[u].parent \in DOMAIN units \cup {NoUnit}
  /\ \A p \in Turning : TurnFits(turns[p])
  /\ crossed \in BOOLEAN

\* Units that have their parents among them, or next.
Climbed(V, next) == \A v \in V \cap DOMAIN units : units[v].parent \in V \cup {NoUnit, next}

\* Since an update set out to go down the tree, where F was every unit's parent, units have got
\* no other parents.
Walked(t, F) ==
  /\ \A S \in SUBSET born : S # {} => \E u \in S : F[u] \notin S
  /\ \A u \in DOMAIN units : units[u].parent = F[u] \/ units[u].parent = NoUnit
  /\ \A r \in Waiting(t) : F[r.unit] = r.parent

Walks(t) == \E F \in [born -> born \cup {NoUnit}] : Walked(t, F)

\* What an update has seen of the tree still rules out a cycle.
Uncrossed(t) ==
  t.kind = "update" =>
    /\ t.at = "climb" =>
         \E V \in SUBSET born : t.parent \in V /\ t.unit \notin V /\ Climbed(V, t.node)
    /\ t.at = "save" /\ t.parent # NoUnit =>
         \E V \in SUBSET born : t.parent \in V /\ t.unit \notin V /\ Climbed(V, NoUnit)
    /\ t.at \in {"find", "child"} => Walks(t)

StillTree ==
  crossed \/ /\ Acyclic
             /\ \A p, q \in Turning : turns[p].kind = "update" /\ turns[q].kind = "update" => p = q
             /\ \A p \in Turning : Uncrossed(turns[p])

-----------------------------------------------------------------------------
(* An update that nobody disturbs.                                         *)

\* The frontier of the walk: read and not saved, or about to be read.
Pending(t) == {r.unit : r \in Waiting(t)} \cup (IF t.at = "find" THEN KidsOf(t.node) ELSE {})

\* The children that were read are still what they were.
ReadsStand(t) ==
  /\ t.at = "find" => t.node \in DOMAIN units
  /\ \A r \in Waiting(t) : /\ r.unit \in DOMAIN units
                           /\ units[r.unit].slug = r.slug /\ units[r.unit].parent = r.parent

\* There is a cycle ahead.
Endless(P) == \E C \in SUBSET Units : (\A u \in C : KidsOf(u) \cap C # {}) /\ P \cap C # {}

\* The frontier P: no unit of it below another, and every wrong path below one of them.
Orderly(t, P) ==
  /\ P \subseteq Below(t.unit)
  /\ \A u \in Below(t.unit) : \A v \in KidsOf(u) : u \notin Below(v)
  /\ \A u, v \in P : u # v => u \notin Below(v)
  /\ \A r \in Waiting(t) : r.above = units[r.parent].path /\ \A u \in P : r.parent \notin Below(u)
  /\ t.at = "find" => /\ t.above = units[t.node].path /\ \A u \in P : t.node \notin Below(u)
                      /\ \A r \in Waiting(t) : r.unit \notin KidsOf(t.node)
  /\ \A i, j \in DOMAIN t.below : \A r \in t.below[i], s \in t.below[j] : r.unit = s.unit => i = j
  /\ \A u \in Below(t.unit) : IsPath(u) \/ \E v \in P : u \in Below(v)

Undisturbed(t) ==
  /\ t.kind = "remove" => KidsOf(t.unit) = {}
  /\ t.kind = "update" =>
       /\ t.unit \in DOMAIN units
       /\ t.at \in {"climb", "save"} =>
            t.parent \in DOMAIN units \cup {NoUnit} /\ t.above = PathAbove(t.parent)
       /\ t.at \in {"find", "child"} =>
            /\ ReadsStand(t)
            /\ \E P \in SUBSET Units : P = Pending(t) /\ (Endless(P) \/ Orderly(t, P))

Alone == \A p \in Turning : turns[p].alone => Turning = {p} /\ Undisturbed(turns[p])

OrgInv == OrgShape /\ StillTree /\ Alone

-----------------------------------------------------------------------------
(* What is below a unit.                                                   *)

LEMMA BelowLeast ==
  ASSUME NEW u \in Units, NEW S \in SUBSET Units, u \in S, \A w \in S : KidsOf(w) \subseteq S
  PROVE  Below(u) \subseteq S
BY DEF Below

LEMMA BelowSelf ==
  ASSUME NEW u \in Units PROVE u \in Below(u)
BY DEF Below

LEMMA BelowItself == \A v \in Units : v \in Below(v)
BY BelowSelf

LEMMA BelowItselfNext == (\A v \in Units : v \in Below(v))'
BY BelowItself, PTL

LEMMA BelowKids ==
  ASSUME DOMAIN units \subseteq Units, NEW u \in Units, NEW v \in Below(u)
  PROVE  KidsOf(v) \subseteq Below(u) /\ v \in Units
<1>1. ASSUME NEW k \in KidsOf(v) PROVE k \in Below(u)
  <2>1. k \in Units
    BY DEF KidsOf
  <2>2. ASSUME NEW S \in SUBSET Units, u \in S, \A w \in S : KidsOf(w) \subseteq S PROVE k \in S
    BY <2>2 DEF Below
  <2>. QED  BY <2>1, <2>2 DEF Below
<1>. QED  BY <1>1 DEF Below

LEMMA BelowBelow ==
  ASSUME DOMAIN units \subseteq Units, NEW u \in Units, NEW v \in Below(u)
  PROVE  Below(v) \subseteq Below(u)
<1>1. v \in Units /\ Below(u) \in SUBSET Units /\ \A w \in Below(u) : KidsOf(w) \subseteq Below(u)
  BY BelowKids DEF Below
<1>. QED  BY <1>1, BelowLeast

\* Whatever else is below a unit is below a child of it, and its parent is below the unit.
LEMMA BelowParts ==
  ASSUME DOMAIN units \subseteq Units, NEW u \in Units, NEW v \in Below(u), v # u
  PROVE  /\ \E k \in KidsOf(u) : v \in Below(k)
         /\ v \in DOMAIN units /\ units[v].parent \in Below(u)
<1>1. \E k \in KidsOf(u) : v \in Below(k)
  <2> DEFINE S == {u} \cup UNION {Below(k) : k \in KidsOf(u)}
  <2>1. KidsOf(u) \subseteq Units
    BY DEF KidsOf
  <2>2. S \in SUBSET Units
    BY DEF Below
  <2>3. ASSUME NEW w \in S PROVE KidsOf(w) \subseteq S
    BY <2>1, <2>3, BelowSelf, BelowKids
  <2>4. Below(u) \subseteq S
    BY <2>2, <2>3, BelowLeast
  <2>. QED  BY <2>4
<1>2. v \in DOMAIN units /\ units[v].parent \in Below(u)
  <2> DEFINE S == {u} \cup {w \in Below(u) \cap DOMAIN units : units[w].parent \in Below(u)}
  <2>1. S \in SUBSET Units
    BY DEF Below
  <2>2. ASSUME NEW w \in S, NEW k \in KidsOf(w) PROVE k \in S
    <3>1. w \in Below(u)
      BY BelowSelf
    <3>2. k \in Below(u) /\ k \in DOMAIN units /\ units[k].parent = w
      BY <3>1, BelowKids DEF KidsOf
    <3>. QED  BY <3>1, <3>2
  <2>3. Below(u) \subseteq S
    BY <2>1, <2>2, BelowLeast
  <2>. QED  BY <2>3
<1>. QED  BY <1>1, <1>2

\* The tree is the parents of its units.
LEMMA SameTree ==
  ASSUME DOMAIN units' = DOMAIN units, \A u \in DOMAIN units : units'[u].parent = units[u].parent,
         NEW u
  PROVE  KidsOf(u)' = KidsOf(u) /\ Below(u)' = Below(u)
<1>1. \A v : KidsOf(v)' = KidsOf(v)
  BY DEF KidsOf
<1>. QED  BY <1>1 DEF Below

\* Without a cycle no unit is below one of its children.
LEMMA NoneBelowItself ==
  ASSUME DOMAIN units \subseteq Units, Acyclic, NEW u \in DOMAIN units, NEW v \in KidsOf(u)
  PROVE  u \notin Below(v)
<1> SUFFICES ASSUME u \in Below(v) PROVE FALSE
  OBVIOUS
<1>1. v \in DOMAIN units /\ v \in Units /\ u \in Units /\ units[v].parent = u
  BY DEF KidsOf
<1>2. PICK S : S = {w \in Below(v) \cap DOMAIN units : u \in Below(w)}
  OBVIOUS
<1>3. S \in SUBSET DOMAIN units /\ u \in S
  BY <1>1, <1>2, BelowSelf
<1>4. PICK w \in S : units[w].parent \notin S
  BY <1>3 DEF Acyclic
<1>5. w # v
  BY <1>1, <1>3, <1>4
<1>6. w \in Below(v) /\ w \in DOMAIN units /\ u \in Below(w) /\ units[w].parent \in Below(v)
  BY <1>1, <1>2, <1>4, <1>5, BelowParts
<1>7. PICK q : q = units[w].parent
  OBVIOUS
<1>8. q \in Units /\ w \in KidsOf(q)
  BY <1>6, <1>7 DEF Below, KidsOf
<1>9. w \in Below(q)
  BY <1>8, BelowSelf, BelowKids
<1>10. u \in Below(q)
  BY <1>6, <1>8, <1>9, BelowBelow
<1>11. q \in DOMAIN units
  <2>1. CASE q = v
    BY <1>1, <2>1
  <2>2. CASE q # v
    BY <1>1, <1>6, <1>7, <2>2, BelowParts
  <2>. QED  BY <2>1, <2>2
<1>. QED  BY <1>2, <1>4, <1>6, <1>7, <1>10, <1>11

-----------------------------------------------------------------------------
(* Requests.                                                               *)

\* The same request, but for what it knows of the others.
Same(s, t) ==
  /\ s.kind = t.kind /\ s.at = t.at /\ s.unit = t.unit /\ s.slug = t.slug
  /\ s.parent = t.parent /\ s.above = t.above /\ s.node = t.node /\ s.below = t.below

LEMMA OnlyAlone ==
  ASSUME NEW t \in TurnRow, NEW b \in BOOLEAN, NEW s, s = [t EXCEPT !.alone = b]
  PROVE  s \in TurnRow /\ Same(s, t) /\ s.alone = b
BY DEF TurnRow, Same

LEMMA Starting ==
  ASSUME NEW p, NEW turn, StartTurn(p, turn)
  PROVE  /\ p \notin Turning /\ Turning' = Turning \cup {p}
         /\ turns'[p] = [turn EXCEPT !.alone = Turning = {}]
         /\ \A q \in Turning : turns'[q] = [turns[q] EXCEPT !.alone = FALSE]
         /\ UNCHANGED <<units, born>>
         /\ crossed' = (crossed \/ (turn.kind = "update" /\ \E q \in Turning : turns[q].kind = "update"))
BY DEF StartTurn, Turning

LEMMA GoingOn ==
  ASSUME NEW p \in Turning, NEW next, Turned(p, next)
  PROVE  /\ Turning' = Turning /\ turns'[p] = next
         /\ \A q \in Turning : q # p => turns'[q] = turns[q]
BY DEF Turned, Turning

LEMMA Ending ==
  ASSUME NEW p, EndTurn(p)
  PROVE  Turning' = Turning \ {p} /\ \A q \in Turning' : turns'[q] = turns[q]
BY DEF EndTurn, Turning

LEMMA TurnGoesOn ==
  ASSUME NEW t, NEW s \in TurnRow, TurnFits(t), Same(s, t), born \subseteq born'
  PROVE  TurnFits(s)'
<1>1. Waiting(s) = Waiting(t)
  BY DEF Waiting, Same
<1>. QED  BY <1>1 DEF TurnFits, Same

\* A walk is not disturbed by leaves that come, nor by units that go or lose their parents.
LEMMA WalkGoesDown ==
  ASSUME OrgShape, NEW t, NEW s, Waiting(s) = Waiting(t), TurnFits(t), Walks(t),
         born \subseteq born', born' \subseteq Units, DOMAIN units' \subseteq born',
         \A u \in born \cap DOMAIN units' :
           /\ u \in DOMAIN units
           /\ units'[u].parent = units[u].parent \/ units'[u].parent = NoUnit,
         \A u \in DOMAIN units' \ born : units'[u].parent \in born \cup {NoUnit}
  PROVE  Walks(s)'
<1>1. PICK F \in [born -> born \cup {NoUnit}] : Walked(t, F)
  BY DEF Walks
<1>2. PICK G : G = [u \in born' |-> IF u \in born THEN F[u]
                                   ELSE IF u \in DOMAIN units' THEN units'[u].parent ELSE NoUnit]
  OBVIOUS
<1>3. NoUnit \notin born'
  BY OrgUnitsAssumption
<1>4. /\ G \in [born' -> born' \cup {NoUnit}]
      /\ \A u \in born : G[u] = F[u]
      /\ \A u \in born' \ born : G[u] \in born \cup {NoUnit}
      /\ \A u \in DOMAIN units' \ born : G[u] = units'[u].parent
  BY <1>1, <1>2
<1>5. ASSUME NEW S \in SUBSET born', S # {} PROVE \E u \in S : G[u] \notin S
  <2>1. CASE S \cap born = {}
    BY <1>3, <1>4, <1>5, <2>1
  <2>2. CASE S \cap born # {}
    <3>1. PICK u \in S \cap born : F[u] \notin S \cap born
      BY <1>1, <2>2 DEF Walked
    <3>. QED  BY <1>1, <1>3, <1>4, <3>1
  <2>. QED  BY <2>1, <2>2
<1>6. ASSUME NEW u \in DOMAIN units' PROVE units'[u].parent = G[u] \/ units'[u].parent = NoUnit
  BY <1>1, <1>4 DEF Walked
<1>7. \A r \in Waiting(s) : G[r.unit] = r.parent
  BY <1>1, <1>4 DEF Walked, TurnFits
<1>8. Walked(s, G)'
  BY <1>5, <1>6, <1>7 DEF Walked, Waiting
<1>. QED  BY <1>4, <1>8 DEF Walks

\* An update that sets out on a tree.
LEMMA WalkSetsOut ==
  ASSUME OrgShape, Acyclic, NEW s, Waiting(s) = {} PROVE Walks(s)
<1>1. PICK F : F = [u \in born |-> IF u \in DOMAIN units THEN units[u].parent ELSE NoUnit]
  OBVIOUS
<1>2. NoUnit \notin born
  BY OrgUnitsAssumption DEF OrgShape
<1>3. F \in [born -> born \cup {NoUnit}] /\ \A u \in DOMAIN units : units[u].parent = F[u]
  BY <1>1 DEF OrgShape
<1>4. ASSUME NEW S \in SUBSET born, S # {} PROVE \E u \in S : F[u] \notin S
  <2>1. CASE S \subseteq DOMAIN units
    BY <1>3, <1>4, <2>1 DEF Acyclic
  <2>2. CASE ~(S \subseteq DOMAIN units)
    BY <1>1, <1>2, <2>2
  <2>. QED  BY <2>1, <2>2
<1>. QED  BY <1>3, <1>4 DEF Walks, Walked

LEMMA WalkSetsOutNext == (\A s : OrgShape /\ Acyclic /\ Waiting(s) = {} => Walks(s))'
<1>1. \A s : OrgShape /\ Acyclic /\ Waiting(s) = {} => Walks(s)
  BY WalkSetsOut
<1>. QED  BY <1>1, PTL

\* What an update knows of the tree stays right while leaves come and units go.
LEMMA UncrossedGoesOn ==
  ASSUME OrgShape, NEW t, NEW s, Same(s, t), TurnFits(t), Uncrossed(t),
         born \subseteq born', born' \subseteq Units, DOMAIN units' \subseteq born',
         \A u \in born \cap DOMAIN units' :
           /\ u \in DOMAIN units
           /\ units'[u].parent = units[u].parent \/ units'[u].parent = NoUnit,
         \A u \in DOMAIN units' \ born : units'[u].parent \in born \cup {NoUnit}
  PROVE  Uncrossed(s)'
<1>1. ASSUME NEW V \in SUBSET born, NEW next, Climbed(V, next) PROVE Climbed(V, next)' /\ V \in SUBSET born'
  BY <1>1 DEF Climbed
<1>2. ASSUME t.kind = "update", t.at = "climb"
      PROVE  \E V \in SUBSET born' : t.parent \in V /\ t.unit \notin V /\ Climbed(V, t.node)'
  <2>1. PICK V \in SUBSET born : t.parent \in V /\ t.unit \notin V /\ Climbed(V, t.node)
    BY <1>2 DEF Uncrossed
  <2>2. PICK next : next = t.node
    OBVIOUS
  <2>3. Climbed(V, next)' /\ V \in SUBSET born'
    BY <1>1, <2>1, <2>2
  <2>. QED  BY <2>1, <2>2, <2>3
<1>3. ASSUME t.kind = "update", t.at = "save", t.parent # NoUnit
      PROVE  \E V \in SUBSET born' : t.parent \in V /\ t.unit \notin V /\ Climbed(V, NoUnit)'
  <2>1. PICK V \in SUBSET born : t.parent \in V /\ t.unit \notin V /\ Climbed(V, NoUnit)
    BY <1>3 DEF Uncrossed
  <2>2. Climbed(V, NoUnit)' /\ V \in SUBSET born'
    BY <1>1, <2>1
  <2>. QED  BY <2>1, <2>2
<1>4. Waiting(s) = Waiting(t)
  BY DEF Waiting, Same
<1>5. ASSUME t.kind = "update", t.at \in {"find", "child"} PROVE Walks(s)'
  <2>1. Walks(t)
    BY <1>5 DEF Uncrossed
  <2>. QED  BY <1>4, <2>1, WalkGoesDown
<1>. QED  BY <1>2, <1>3, <1>4, <1>5 DEF Uncrossed, Same

\* A request starts, and all others are not alone any more.
LEMMA StartKeeps ==
  ASSUME OrgInv, NEW p, NEW turn, StartTurn(p, turn), TurnFits(turn), turn.at \in {"parent", "save", "delete"},
         ~crossed => Uncrossed(turn),
         Turning = {} /\ turn.kind = "update" =>
           /\ turn.unit \in DOMAIN units
           /\ turn.at = "save" =>
                turn.parent \in DOMAIN units \cup {NoUnit} /\ turn.above = PathAbove(turn.parent),
         Turning = {} /\ turn.kind = "remove" => KidsOf(turn.unit) = {}
  PROVE  OrgInv'
<1>1. /\ p \notin Turning /\ Turning' = Turning \cup {p}
      /\ turns'[p] = [turn EXCEPT !.alone = Turning = {}]
      /\ \A q \in Turning : turns'[q] = [turns[q] EXCEPT !.alone = FALSE]
      /\ UNCHANGED <<units, born>>
      /\ crossed' = (crossed \/ (turn.kind = "update" /\ \E q \in Turning : turns[q].kind = "update"))
  BY Starting
<1>2. turn \in TurnRow /\ \A q \in Turning : TurnFits(turns[q]) /\ turns[q] \in TurnRow
  BY DEF OrgInv, OrgShape, TurnFits
<1>3. PICK new : new = turns'[p]
  OBVIOUS
<1>4. new \in TurnRow /\ Same(new, turn) /\ new.alone = (Turning = {})
  <2>1. PICK b \in BOOLEAN : b = (Turning = {})
    OBVIOUS
  <2>. QED  BY <1>1, <1>2, <1>3, <2>1, OnlyAlone
<1>5. ASSUME NEW q \in Turning
      PROVE  turns'[q] \in TurnRow /\ Same(turns'[q], turns[q]) /\ turns'[q].alone = FALSE
  BY <1>1, <1>2, OnlyAlone
<1>6. OrgShape'
  <2>1. TurnFits(new)'
    BY <1>1, <1>4, TurnGoesOn
  <2>2. ASSUME NEW q \in Turning PROVE TurnFits(turns[q])'
    <3>1. PICK s, t : s = turns'[q] /\ t = turns[q]
      OBVIOUS
    <3>2. TurnFits(s)'
      BY <1>1, <1>2, <1>5, <3>1, TurnGoesOn
    <3>. QED  BY <3>1, <3>2 DEF TurnFits
  <2>3. crossed' \in BOOLEAN
    BY <1>1 DEF OrgInv, OrgShape
  <2>4. \A q \in Turning' : TurnFits(turns[q])'
    BY <1>1, <1>3, <2>1, <2>2 DEF TurnFits
  <2>. QED  BY <1>1, <2>3, <2>4 DEF OrgInv, OrgShape
<1>7. StillTree'
  <2> SUFFICES ASSUME ~crossed' PROVE /\ Acyclic'
                                      /\ \A q, r \in Turning' : turns'[q].kind = "update" /\ turns'[r].kind = "update" => q = r
                                      /\ \A q \in Turning' : Uncrossed(turns[q])'
    BY DEF StillTree
  <2>1. ~crossed /\ Acyclic /\ \A q \in Turning : Uncrossed(turns[q])
    BY <1>1 DEF OrgInv, StillTree
  <2>2. Acyclic'
    BY <1>1, <2>1 DEF Acyclic
  <2>3. \A q, r \in Turning : turns[q].kind = "update" /\ turns[r].kind = "update" => q = r
    BY <2>1 DEF OrgInv, StillTree
  <2>4. turn.kind = "update" => \A q \in Turning : turns[q].kind # "update"
    BY <1>1
  <2>5. /\ \A q \in Turning : turns'[q].kind = turns[q].kind
        /\ turns'[p].kind = turn.kind
    BY <1>3, <1>4, <1>5 DEF Same
  <2>6. \A q, r \in Turning' : turns'[q].kind = "update" /\ turns'[r].kind = "update" => q = r
    BY <1>1, <2>3, <2>4, <2>5
  <2>7. /\ OrgShape /\ born \subseteq born' /\ born' \subseteq Units /\ DOMAIN units' \subseteq born'
        /\ \A u \in born \cap DOMAIN units' : u \in DOMAIN units /\ units'[u].parent = units[u].parent
        /\ \A u \in DOMAIN units' \ born : units'[u].parent \in born \cup {NoUnit}
    BY <1>1 DEF OrgInv, OrgShape
  <2>8. Uncrossed(new)'
    BY <1>1, <1>4, <2>1, <2>7, UncrossedGoesOn
  <2>9. ASSUME NEW q \in Turning PROVE Uncrossed(turns[q])'
    <3>1. PICK s, t : s = turns'[q] /\ t = turns[q]
      OBVIOUS
    <3>2. Uncrossed(s)'
      BY <1>1, <1>2, <1>5, <2>1, <2>7, <3>1, UncrossedGoesOn
    <3>. QED  BY <3>1, <3>2 DEF Uncrossed
  <2>10. Uncrossed(turns[p])'
    BY <1>3, <2>8 DEF Uncrossed
  <2>. QED  BY <1>1, <2>2, <2>6, <2>9, <2>10
<1>8. Alone'
  <2>1. ASSUME NEW q \in Turning', turns'[q].alone PROVE Turning' = {q} /\ Undisturbed(turns[q])'
    <3>1. q = p /\ Turning = {}
      BY <1>1, <1>3, <1>4, <1>5, <2>1
    <3>2. Undisturbed(new)'
      BY <1>1, <1>4, <3>1 DEF Undisturbed, Same, PathAbove, KidsOf
    <3>. QED  BY <1>1, <1>3, <3>1, <3>2 DEF Undisturbed
  <2>. QED  BY <2>1 DEF Alone
<1>. QED  BY <1>6, <1>7, <1>8 DEF OrgInv

-----------------------------------------------------------------------------
(* The requests begin.                                                     *)

LEMMA TurnMade ==
  ASSUME OrgShape, NEW kind \in {"update", "create", "remove"}, NEW at \in {"parent", "save", "delete"},
         NEW u \in Parent, NEW slug \in Slugs, NEW parent \in DOMAIN units \cup {NoUnit},
         NEW turn, turn = Turn(kind, at, u, slug, parent)
  PROVE  /\ turn \in TurnRow /\ turn.kind = kind /\ turn.at = at /\ turn.unit = u
         /\ turn.slug = slug /\ turn.parent = parent /\ turn.node = parent
         /\ turn.above = PathAbove(parent) /\ turn.below = <<>> /\ Waiting(turn) = {}
<1>1. PICK above : above = PathAbove(parent)
  OBVIOUS
<1>2. above \in Seq(Slugs)
  BY <1>1 DEF OrgShape, PathAbove
<1>3. parent \in Parent
  BY DEF Parent, OrgShape
<1>4. turn = [kind |-> kind, at |-> at, unit |-> u, slug |-> slug, parent |-> parent,
              above |-> above, node |-> parent, below |-> <<>>, alone |-> TRUE]
  BY <1>1 DEF Turn
<1>5. turn \in TurnRow
  BY <1>2, <1>3, <1>4 DEF TurnRow
<1>6. /\ turn.kind = kind /\ turn.at = at /\ turn.unit = u /\ turn.slug = slug
      /\ turn.parent = parent /\ turn.node = parent /\ turn.above = above /\ turn.below = <<>>
  BY <1>4
<1>7. Waiting(turn) = {}
  BY <1>6 DEF Waiting
<1>. QED  BY <1>1, <1>5, <1>6, <1>7

\* What is not below a unit is closed under parents, and has the parent of the unit.
LEMMA OutsideIsClimbed ==
  ASSUME OrgShape, Acyclic, NEW u \in DOMAIN units, units[u].parent # NoUnit
  PROVE  \E V \in SUBSET born : units[u].parent \in V /\ u \notin V /\ Climbed(V, NoUnit)
<1>1. PICK V : V = DOMAIN units \ Below(u)
  OBVIOUS
<1>2. DOMAIN units \subseteq Units /\ DOMAIN units \subseteq born
  BY DEF OrgShape
<1>3. u \notin V
  BY <1>1, <1>2, BelowSelf
<1>4. PICK q : q = units[u].parent
  OBVIOUS
<1>5. q \in DOMAIN units /\ u \in KidsOf(q)
  BY <1>4 DEF OrgShape, KidsOf
<1>6. q \in V
  BY <1>1, <1>2, <1>5, NoneBelowItself
<1>7. ASSUME NEW v \in V \cap DOMAIN units PROVE units[v].parent \in V \cup {NoUnit}
  <2>1. PICK w : w = units[v].parent
    OBVIOUS
  <2>2. CASE w = NoUnit
    BY <2>1, <2>2
  <2>3. CASE w # NoUnit
    <3>1. w \in DOMAIN units /\ v \in KidsOf(w)
      BY <2>1, <2>3 DEF OrgShape, KidsOf
    <3>2. w \notin Below(u)
      BY <1>1, <1>2, <3>1, BelowKids
    <3>. QED  BY <1>1, <2>1, <3>1, <3>2
  <2>. QED  BY <2>2, <2>3
<1>. QED  BY <1>1, <1>2, <1>3, <1>4, <1>6, <1>7 DEF Climbed

LEMMA RenamingKeeps ==
  ASSUME OrgInv, NEW p, NEW u \in Units, NEW slug \in Slugs, RenameUnit(p, u, slug)
  PROVE  OrgInv'
<1>1. PICK parent : parent = units[u].parent
  OBVIOUS
<1>2. PICK turn : turn = Turn("update", "save", u, slug, parent)
  OBVIOUS
<1>3. OrgShape /\ u \in DOMAIN units /\ StartTurn(p, turn) /\ parent \in DOMAIN units \cup {NoUnit}
  BY <1>1, <1>2 DEF RenameUnit, OrgInv, OrgShape
<1>4. /\ turn \in TurnRow /\ turn.kind = "update" /\ turn.at = "save" /\ turn.unit = u
      /\ turn.parent = parent /\ turn.above = PathAbove(parent) /\ turn.below = <<>> /\ Waiting(turn) = {}
  <2>1. u \in Parent
    BY DEF Parent
  <2>. QED  BY <1>2, <1>3, <2>1, TurnMade
<1>5. TurnFits(turn)
  BY <1>3, <1>4 DEF TurnFits, OrgShape
<1>6. ASSUME ~crossed PROVE Uncrossed(turn)
  <2>1. Acyclic
    BY <1>6 DEF OrgInv, StillTree
  <2>. QED  BY <1>1, <1>3, <1>4, <2>1, OutsideIsClimbed DEF Uncrossed
<1>. QED  BY <1>3, <1>4, <1>5, <1>6, StartKeeps

LEMMA RootingKeeps ==
  ASSUME OrgInv, NEW p, NEW u \in Units, MoveToRoot(p, u) PROVE OrgInv'
<1>1. PICK slug : slug = units[u].slug
  OBVIOUS
<1>2. PICK turn : turn = Turn("update", "save", u, slug, NoUnit)
  OBVIOUS
<1>3. OrgShape /\ u \in DOMAIN units /\ StartTurn(p, turn) /\ slug \in Slugs
  BY <1>1, <1>2 DEF MoveToRoot, OrgInv, OrgShape
<1>4. /\ turn \in TurnRow /\ turn.kind = "update" /\ turn.at = "save" /\ turn.unit = u
      /\ turn.parent = NoUnit /\ turn.above = PathAbove(NoUnit) /\ turn.below = <<>> /\ Waiting(turn) = {}
  <2>1. u \in Parent
    BY DEF Parent
  <2>. QED  BY <1>2, <1>3, <2>1, TurnMade
<1>5. TurnFits(turn)
  BY <1>3, <1>4 DEF TurnFits, OrgShape
<1>6. Uncrossed(turn)
  BY <1>4 DEF Uncrossed
<1>. QED  BY <1>3, <1>4, <1>5, <1>6, StartKeeps

LEMMA MovingKeeps ==
  ASSUME OrgInv, NEW p, NEW u \in Units, NEW parent \in Units, MoveUnit(p, u, parent)
  PROVE  OrgInv'
<1>1. PICK slug : slug = units[u].slug
  OBVIOUS
<1>2. PICK made : made = Turn("update", "parent", u, slug, NoUnit)
  OBVIOUS
<1>3. PICK turn : turn = [made EXCEPT !.parent = parent, !.node = parent]
  OBVIOUS
<1>4. OrgShape /\ u \in DOMAIN units /\ parent # u /\ StartTurn(p, turn) /\ slug \in Slugs
  BY <1>1, <1>2, <1>3 DEF MoveUnit, OrgInv, OrgShape
<1>5. /\ made \in TurnRow /\ made.kind = "update" /\ made.at = "parent" /\ made.unit = u
      /\ made.below = <<>>
  <2>1. u \in Parent
    BY DEF Parent
  <2>. QED  BY <1>2, <1>4, <2>1, TurnMade
<1>6. parent \in Parent
  BY DEF Parent
<1>7. /\ turn \in TurnRow /\ turn.kind = "update" /\ turn.at = "parent" /\ turn.unit = u
      /\ turn.parent = parent /\ turn.node = parent /\ turn.below = <<>>
  BY <1>3, <1>5, <1>6 DEF TurnRow
<1>8. Waiting(turn) = {}
  BY <1>7 DEF Waiting
<1>9. TurnFits(turn)
  BY <1>4, <1>7, <1>8 DEF TurnFits, OrgShape
<1>10. Uncrossed(turn)
  BY <1>7, <1>8 DEF Uncrossed
<1>. QED  BY <1>4, <1>7, <1>9, <1>10, StartKeeps

LEMMA CreatingKeeps ==
  ASSUME OrgInv, NEW p, NEW slug \in Slugs, NEW parent \in Parent, CreateUnit(p, slug, parent)
  PROVE  OrgInv'
<1>1. PICK turn : turn = Turn("create", "save", NoUnit, slug, parent)
  OBVIOUS
<1>2. OrgShape /\ parent \in DOMAIN units \cup {NoUnit} /\ StartTurn(p, turn)
  BY <1>1 DEF CreateUnit, OrgInv
<1>3. turn \in TurnRow /\ turn.kind = "create" /\ turn.at = "save" /\ turn.below = <<>> /\ Waiting(turn) = {}
  <2>1. NoUnit \in Parent
    BY DEF Parent
  <2>. QED  BY <1>1, <1>2, <2>1, TurnMade
<1>4. TurnFits(turn) /\ Uncrossed(turn)
  BY <1>3 DEF TurnFits, Uncrossed
<1>. QED  BY <1>2, <1>3, <1>4, StartKeeps

\* A removal of a unit that has no children.
LEMMA CountingKeeps ==
  ASSUME OrgInv, NEW p, NEW u \in Units, RemoveUnit(p, u) PROVE OrgInv'
<1>1. PICK slug, parent : slug = units[u].slug /\ parent = units[u].parent
  OBVIOUS
<1>2. PICK turn : turn = Turn("remove", "delete", u, slug, parent)
  OBVIOUS
<1>3. /\ OrgShape /\ u \in DOMAIN units /\ u \in born /\ slug \in Slugs
      /\ parent \in DOMAIN units \cup {NoUnit} /\ KidsOf(u) = {} /\ StartTurn(p, turn)
  BY <1>1, <1>2 DEF RemoveUnit, OrgInv, OrgShape
<1>4. /\ turn \in TurnRow /\ turn.kind = "remove" /\ turn.at = "delete" /\ turn.unit = u
      /\ turn.below = <<>> /\ Waiting(turn) = {}
  <2>1. u \in Parent
    BY DEF Parent
  <2>. QED  BY <1>2, <1>3, <2>1, TurnMade
<1>5. TurnFits(turn) /\ Uncrossed(turn)
  BY <1>3, <1>4 DEF TurnFits, Uncrossed
<1>. QED  BY <1>3, <1>4, <1>5, StartKeeps

LEMMA UncrossedStays ==
  ASSUME NEW t, Uncrossed(t), UNCHANGED <<units, born>> PROVE Uncrossed(t)'
<1>1. \A V, next : Climbed(V, next) => Climbed(V, next)'
  BY DEF Climbed
<1>2. ASSUME Walks(t) PROVE Walks(t)'
  <2>1. PICK F \in [born -> born \cup {NoUnit}] : Walked(t, F)
    BY <1>2 DEF Walks
  <2>2. Walked(t, F)'
    BY <2>1 DEF Walked, Waiting
  <2>. QED  BY <2>1, <2>2 DEF Walks
<1>3. ASSUME t.kind = "update", t.at = "climb"
      PROVE  \E V \in SUBSET born' : t.parent \in V /\ t.unit \notin V /\ Climbed(V, t.node)'
  BY <1>1, <1>3 DEF Uncrossed
<1>4. ASSUME t.kind = "update", t.at = "save", t.parent # NoUnit
      PROVE  \E V \in SUBSET born' : t.parent \in V /\ t.unit \notin V /\ Climbed(V, NoUnit)'
  BY <1>1, <1>4 DEF Uncrossed
<1>. QED  BY <1>2, <1>3, <1>4 DEF Uncrossed

\* A request ends without a save.
LEMMA EndKeeps ==
  ASSUME OrgInv, NEW p \in Turning, EndTurn(p), UNCHANGED <<units, born, crossed>>
  PROVE  OrgInv'
<1>1. Turning' = Turning \ {p} /\ \A q \in Turning' : turns'[q] = turns[q]
  BY Ending
<1>2. OrgShape'
  <2>1. ASSUME NEW q \in Turning' PROVE TurnFits(turns[q])'
    <3>1. TurnFits(turns[q]) /\ turns'[q] = turns[q]
      BY <1>1 DEF OrgInv, OrgShape
    <3>. QED  BY <3>1 DEF TurnFits
  <2>. QED  BY <2>1 DEF OrgInv, OrgShape
<1>3. StillTree'
  <2>1. ASSUME ~crossed, NEW q \in Turning' PROVE Uncrossed(turns[q])'
    <3>1. PICK t : t = turns[q]
      OBVIOUS
    <3>2. Uncrossed(t) /\ turns'[q] = t
      BY <1>1, <2>1, <3>1 DEF OrgInv, StillTree
    <3>3. Uncrossed(t)'
      BY <3>2, UncrossedStays
    <3>. QED  BY <3>2, <3>3 DEF Uncrossed
  <2>2. crossed \/ Acyclic'
    BY DEF OrgInv, StillTree, Acyclic
  <2>3. crossed \/ \A q, r \in Turning' : turns'[q].kind = "update" /\ turns'[r].kind = "update" => q = r
    BY <1>1 DEF OrgInv, StillTree
  <2>. QED  BY <2>1, <2>2, <2>3 DEF StillTree
<1>4. Alone'
  <2>1. \A q \in Turning' : ~turns'[q].alone
    BY <1>1 DEF OrgInv, Alone
  <2>. QED  BY <2>1 DEF Alone
<1>. QED  BY <1>2, <1>3, <1>4 DEF OrgInv

LEMMA UndisturbedStays ==
  ASSUME NEW t, Undisturbed(t), units' = units PROVE Undisturbed(t)'
<1>1. \A u : KidsOf(u)' = KidsOf(u) /\ Below(u)' = Below(u)
  BY SameTree
<1>2. \A u : (IsPath(u) => IsPath(u)') /\ PathAbove(u)' = PathAbove(u)
  BY DEF IsPath, PathAbove
<1>3. ReadsStand(t) => ReadsStand(t)'
  BY DEF ReadsStand
<1>4. ASSUME NEW P \in SUBSET Units
      PROVE  /\ Endless(P) => Endless(P)'
             /\ Orderly(t, P) => Orderly(t, P)'
             /\ P = Pending(t) => P = Pending(t)'
  <2>1. Endless(P) => Endless(P)'
    BY <1>1 DEF Endless
  <2>2. Orderly(t, P) => Orderly(t, P)'
    BY <1>1, <1>2 DEF Orderly
  <2>3. P = Pending(t) => P = Pending(t)'
    BY <1>1 DEF Pending
  <2>. QED  BY <2>1, <2>2, <2>3
<1>. QED  BY <1>1, <1>2, <1>3, <1>4 DEF Undisturbed

\* A request goes on without a save.
LEMMA TurnKeeps ==
  ASSUME OrgInv, NEW p \in Turning, NEW next, Turned(p, next), UNCHANGED <<units, born, crossed>>,
         TurnFits(next), next.kind = turns[p].kind, next.alone = turns[p].alone,
         ~crossed => Uncrossed(next), next.alone => Undisturbed(next)
  PROVE  OrgInv'
<1>1. /\ Turning' = Turning /\ turns'[p] = next
      /\ \A q \in Turning : q # p => turns'[q] = turns[q]
  BY GoingOn
<1>2. OrgShape'
  <2>1. ASSUME NEW q \in Turning' PROVE TurnFits(turns[q])'
    <3>1. PICK t : t = turns'[q]
      OBVIOUS
    <3>2. TurnFits(t)
      BY <1>1, <3>1 DEF OrgInv, OrgShape
    <3>3. TurnFits(t)'
      BY <3>2 DEF TurnFits
    <3>. QED  BY <3>1, <3>3 DEF TurnFits
  <2>. QED  BY <2>1 DEF OrgInv, OrgShape
<1>3. StillTree'
  <2>1. ASSUME ~crossed, NEW q \in Turning' PROVE Uncrossed(turns[q])'
    <3>1. PICK t : t = turns'[q]
      OBVIOUS
    <3>2. Uncrossed(t)
      BY <1>1, <2>1, <3>1 DEF OrgInv, StillTree
    <3>3. Uncrossed(t)'
      BY <3>2, UncrossedStays
    <3>. QED  BY <3>1, <3>3 DEF Uncrossed
  <2>2. crossed \/ Acyclic'
    BY DEF OrgInv, StillTree, Acyclic
  <2>3. crossed \/ \A q, r \in Turning' : turns'[q].kind = "update" /\ turns'[r].kind = "update" => q = r
    BY <1>1 DEF OrgInv, StillTree
  <2>. QED  BY <2>1, <2>2, <2>3 DEF StillTree
<1>4. Alone'
  <2>1. ASSUME NEW q \in Turning', turns'[q].alone PROVE Turning' = {q} /\ Undisturbed(turns[q])'
    <3>1. q = p /\ Turning = {p}
      BY <1>1, <2>1 DEF OrgInv, Alone
    <3>2. Undisturbed(next)
      BY <1>1, <2>1, <3>1
    <3>3. Undisturbed(next)'
      BY <3>2, UndisturbedStays
    <3>. QED  BY <1>1, <3>1, <3>3 DEF Undisturbed
  <2>. QED  BY <2>1 DEF Alone
<1>. QED  BY <1>2, <1>3, <1>4 DEF OrgInv

-----------------------------------------------------------------------------
(* One statement of a request.                                             *)

\* The new parent and the parents above it are read.
LEMMA ClimbingKeeps ==
  ASSUME OrgInv, NEW p \in Turning, Climb(p) PROVE OrgInv'
<1>1. PICK t : t = turns[p]
  OBVIOUS
<1>2. /\ OrgShape /\ TurnFits(t) /\ t \in TurnRow /\ t.at \in {"parent", "climb"}
      /\ UNCHANGED <<units, born, crossed>> /\ t.kind = "update"
  BY <1>1 DEF OrgInv, OrgShape, TurnFits, TurnRow, Climb
<1>3. CASE t.node \notin DOMAIN units \/ t.node = t.unit
  <2>1. EndTurn(p)
    BY <1>1, <1>3 DEF Climb
  <2>. QED  BY <1>2, <2>1, EndKeeps
<1>4. CASE t.node \in DOMAIN units /\ t.node # t.unit
  <2>1. PICK up, above, at : /\ up = units[t.node].parent
                             /\ above = (IF t.at = "parent" THEN units[t.node].path ELSE t.above)
                             /\ at = (IF up = NoUnit THEN "save" ELSE "climb")
    OBVIOUS
  <2>2. PICK next : next = [t EXCEPT !.above = above, !.node = up, !.at = at]
    OBVIOUS
  <2>3. Turned(p, next)
    BY <1>1, <1>4, <2>1, <2>2 DEF Climb
  <2>4. up \in DOMAIN units \cup {NoUnit} /\ up \in Parent /\ above \in Seq(Slugs)
    BY <1>2, <1>4, <2>1 DEF OrgShape, Parent, TurnRow
  <2>5. /\ next \in TurnRow /\ next.kind = "update" /\ next.at = at /\ next.unit = t.unit
        /\ next.parent = t.parent /\ next.above = above /\ next.node = up /\ next.below = t.below
        /\ next.alone = t.alone
    BY <1>2, <2>1, <2>2, <2>4 DEF TurnRow
  <2>6. t.below = <<>> /\ Waiting(t) = {} /\ Waiting(next) = {}
    <3>1. t.below = <<>>
      BY <1>2 DEF TurnFits
    <3>. QED  BY <2>5, <3>1 DEF Waiting
  <2>7. TurnFits(next)
    BY <1>2, <2>1, <2>4, <2>5, <2>6 DEF TurnFits, OrgShape
  <2>8. ASSUME ~crossed PROVE Uncrossed(next)
    <3>1. PICK V \in SUBSET born : t.parent \in V /\ t.unit \notin V /\ Climbed(V, up)
      <4>1. t.node \in born /\ t.parent # t.unit
        BY <1>2, <1>4 DEF OrgShape, TurnFits
      <4>2. CASE t.at = "parent"
        <5>1. t.node = t.parent
          BY <1>2, <4>2 DEF TurnFits
        <5>2. Climbed({t.parent}, up)
          BY <2>1, <5>1 DEF Climbed
        <5>. QED  BY <4>1, <5>1, <5>2
      <4>3. CASE t.at = "climb"
        <5>1. PICK W \in SUBSET born : t.parent \in W /\ t.unit \notin W /\ Climbed(W, t.node)
          BY <1>1, <1>2, <2>8, <4>3 DEF OrgInv, StillTree, Uncrossed
        <5>2. PICK V : V = W \cup {t.node}
          OBVIOUS
        <5>3. Climbed(V, up)
          BY <2>1, <5>1, <5>2 DEF Climbed
        <5>. QED  BY <1>4, <4>1, <5>1, <5>2, <5>3
      <4>. QED  BY <1>2, <4>2, <4>3
    <3>2. at \in {"climb", "save"} /\ (at = "save" => up = NoUnit)
      BY <2>1
    <3>. QED  BY <2>5, <2>6, <3>1, <3>2 DEF Uncrossed
  <2>9. ASSUME next.alone PROVE Undisturbed(next)
    <3>1. Undisturbed(t)
      BY <1>1, <2>5, <2>9 DEF OrgInv, Alone
    <3>2. t.unit \in DOMAIN units
      BY <1>2, <3>1 DEF Undisturbed
    <3>3. t.parent \in DOMAIN units \cup {NoUnit} /\ above = PathAbove(t.parent)
      <4>1. CASE t.at = "parent"
        <5>1. t.node = t.parent /\ t.parent # NoUnit
          BY <1>2, <4>1, OrgUnitsAssumption DEF TurnFits
        <5>. QED  BY <1>4, <2>1, <4>1, <5>1 DEF PathAbove
      <4>2. CASE t.at = "climb"
        BY <1>2, <2>1, <3>1, <4>2 DEF Undisturbed
      <4>. QED  BY <1>2, <4>1, <4>2
    <3>4. at \notin {"find", "child"}
      BY <2>1
    <3>. QED  BY <2>5, <3>2, <3>3, <3>4 DEF Undisturbed
  <2>. QED  BY <1>1, <1>2, <2>3, <2>5, <2>7, <2>8, <2>9, TurnKeeps
<1>. QED  BY <1>3, <1>4

\* A unit is deleted, and its children are without a parent.
LEMMA DeletingKeeps ==
  ASSUME OrgInv, NEW p \in Turning, DeleteUnit(p) PROVE OrgInv'
<1>1. PICK u : u = turns[p].unit
  OBVIOUS
<1>2. /\ UNCHANGED <<born, crossed>> /\ DOMAIN units' = DOMAIN units \ {u}
      /\ \A v \in DOMAIN units' :
           /\ units'[v].slug = units[v].slug /\ units'[v].path = units[v].path
           /\ units'[v].parent = IF units[v].parent = u THEN NoUnit ELSE units[v].parent
      /\ EndTurn(p)
  BY <1>1 DEF DeleteUnit
<1>3. Turning' = Turning \ {p} /\ \A q \in Turning' : turns'[q] = turns[q]
  BY <1>2, Ending
<1>4. OrgShape /\ \A q \in Turning : TurnFits(turns[q]) /\ turns[q] \in TurnRow
  BY DEF OrgInv, OrgShape, TurnFits
<1>5. OrgShape'
  <2>1. ASSUME NEW v \in DOMAIN units'
        PROVE  /\ units'[v].slug \in Slugs /\ units'[v].path \in Seq(Slugs)
               /\ units'[v].parent \in DOMAIN units' \cup {NoUnit}
    BY <1>2, <1>4 DEF OrgShape
  <2>2. ASSUME NEW q \in Turning' PROVE TurnFits(turns[q])'
    <3>1. PICK s : s = turns'[q] /\ s = turns[q]
      BY <1>3
    <3>2. TurnFits(s)
      BY <1>3, <1>4, <3>1
    <3>3. TurnFits(s)'
      BY <1>2, <3>2 DEF TurnFits
    <3>. QED  BY <3>1, <3>3 DEF TurnFits
  <2>. QED  BY <1>2, <1>4, <2>1, <2>2 DEF OrgShape
<1>6. StillTree'
  <2>1. ASSUME Acyclic PROVE Acyclic'
    <3> SUFFICES ASSUME NEW S \in SUBSET DOMAIN units', S # {}
                 PROVE  \E v \in S : units'[v].parent \notin S
      BY DEF Acyclic
    <3>1. NoUnit \notin S
      BY <1>2, <1>4, OrgUnitsAssumption DEF OrgShape
    <3>2. PICK v \in S : units[v].parent \notin S
      BY <1>2, <2>1 DEF Acyclic
    <3>. QED  BY <1>2, <3>1, <3>2
  <2>2. crossed \/ \A q, r \in Turning' : turns'[q].kind = "update" /\ turns'[r].kind = "update" => q = r
    BY <1>3 DEF OrgInv, StillTree
  <2>3. ASSUME ~crossed, NEW q \in Turning' PROVE Uncrossed(turns[q])'
    <3>1. PICK s : s = turns'[q] /\ s = turns[q]
      BY <1>3
    <3>2. Uncrossed(s) /\ TurnFits(s) /\ Same(s, s)
      BY <1>3, <1>4, <2>3, <3>1 DEF OrgInv, StillTree, Same
    <3>3. /\ born \subseteq born' /\ born' \subseteq Units /\ DOMAIN units' \subseteq born'
          /\ \A v \in born \cap DOMAIN units' :
               /\ v \in DOMAIN units
               /\ units'[v].parent = units[v].parent \/ units'[v].parent = NoUnit
          /\ \A v \in DOMAIN units' \ born : units'[v].parent \in born \cup {NoUnit}
      BY <1>2, <1>4 DEF OrgShape
    <3>4. Uncrossed(s)'
      BY <1>4, <3>2, <3>3, UncrossedGoesOn
    <3>. QED  BY <3>1, <3>4 DEF Uncrossed
  <2>. QED  BY <1>2, <2>1, <2>2, <2>3 DEF OrgInv, StillTree
<1>7. Alone'
  <2>1. \A q \in Turning' : ~turns'[q].alone
    BY <1>3 DEF OrgInv, Alone
  <2>. QED  BY <2>1 DEF Alone
<1>. QED  BY <1>5, <1>6, <1>7 DEF OrgInv

-----------------------------------------------------------------------------
(* Saves.                                                                  *)

\* A unit that gets another parent, or a new unit, makes no cycle when the parents of the parent
\* are known and it is none of them.
LEMMA AcyclicGrows ==
  ASSUME OrgShape, Acyclic, NEW v \in Units, NEW V \in SUBSET Units, NEW parent,
         parent = NoUnit \/ parent \in V, v \notin V, Climbed(V, NoUnit),
         DOMAIN units' = DOMAIN units \cup {v}, units'[v].parent = parent,
         \A u \in DOMAIN units : u # v => units'[u].parent = units[u].parent
  PROVE  Acyclic'
<1> SUFFICES ASSUME NEW S \in SUBSET DOMAIN units', S # {}
             PROVE  \E u \in S : units'[u].parent \notin S
  BY DEF Acyclic
<1>1. NoUnit \notin S
  BY OrgUnitsAssumption DEF OrgShape
<1>2. CASE S \cap V # {}
  <2>1. S \cap V \in SUBSET DOMAIN units
    OBVIOUS
  <2>2. PICK u \in S \cap V : units[u].parent \notin S \cap V
    BY <1>2, <2>1 DEF Acyclic
  <2>3. units[u].parent \in V \cup {NoUnit} /\ u # v /\ u \in DOMAIN units
    BY <2>1 DEF Climbed
  <2>. QED  BY <1>1, <2>2, <2>3
<1>3. CASE S \cap V = {} /\ v \in S
  BY <1>1, <1>3
<1>4. CASE v \notin S
  <2>1. S \in SUBSET DOMAIN units
    BY <1>4
  <2>2. PICK u \in S : units[u].parent \notin S
    BY <2>1 DEF Acyclic
  <2>. QED  BY <1>4, <2>1, <2>2
<1>. QED  BY <1>2, <1>3, <1>4

\* The rows after a save.
LEMMA RowWritten ==
  ASSUME NEW v, NEW row, units' = Written(v, row)
  PROVE  /\ DOMAIN units' = DOMAIN units \cup {v} /\ units'[v] = row
         /\ \A u \in DOMAIN units : u # v => units'[u] = units[u]
BY DEF Written

\* A new unit, or one that was deleted, is a leaf.
LEMMA LeafKeepsAcyclic ==
  ASSUME OrgShape, Acyclic, NEW v \in Units, NEW parent \in DOMAIN units \cup {NoUnit},
         DOMAIN units' = DOMAIN units \cup {v}, units'[v].parent = parent,
         \A u \in DOMAIN units : u # v => units'[u].parent = units[u].parent,
         v \in DOMAIN units => units[v].parent = parent
  PROVE  Acyclic'
<1>1. CASE v \in DOMAIN units
  <2>1. DOMAIN units' = DOMAIN units /\ \A u \in DOMAIN units : units'[u].parent = units[u].parent
    BY <1>1
  <2>. QED  BY <2>1 DEF Acyclic
<1>2. CASE v \notin DOMAIN units
  <2>1. Climbed(DOMAIN units, NoUnit) /\ DOMAIN units \in SUBSET Units
    BY DEF OrgShape, Climbed
  <2>. QED  BY <1>2, <2>1, AcyclicGrows
<1>. QED  BY <1>1, <1>2

LEMMA ShapeGrows ==
  ASSUME OrgShape, NEW v \in Units, NEW row, units' = Written(v, row),
         row.slug \in Slugs, row.path \in Seq(Slugs), row.parent \in DOMAIN units \cup {NoUnit},
         born' = born \cup {v}, crossed' = crossed,
         \A q \in Turning' : TurnFits(turns[q])'
  PROVE  OrgShape'
<1>1. /\ DOMAIN units' = DOMAIN units \cup {v} /\ units'[v] = row
      /\ \A u \in DOMAIN units : u # v => units'[u] = units[u]
  BY RowWritten
<1>. QED  BY <1>1 DEF OrgShape

\* A cycle below a unit has the unit itself.
LEMMA CycleIsAbove ==
  ASSUME DOMAIN units \subseteq Units, NEW u \in Units, \A v \in KidsOf(u) : u \notin Below(v)
  PROVE  \A w \in Below(u) : \A v \in KidsOf(w) : w \notin Below(v)
<1> SUFFICES ASSUME NEW w \in Below(u), NEW v \in KidsOf(w), w \in Below(v) PROVE FALSE
  OBVIOUS
<1>1. w \in Units /\ v \in Units /\ v \in DOMAIN units /\ units[v].parent = w
  BY DEF KidsOf, Below
<1>2. w # u
  OBVIOUS
<1>3. v \in Below(w) /\ w \in Below(w)
  BY <1>1, BelowSelf, BelowKids
<1>4. PICK D : D = {x \in Units : ~(x \in Below(v) /\ w \in Below(x))}
  OBVIOUS
<1>5. u \in D
  <2> SUFFICES ASSUME u \in Below(v) PROVE FALSE
    BY <1>4
  <2>1. PICK k \in KidsOf(u) : w \in Below(k)
    BY <1>2, BelowParts
  <2>2. k \in Units
    BY DEF KidsOf
  <2>3. Below(w) \subseteq Below(k) /\ Below(v) \subseteq Below(w)
    BY <1>1, <1>3, <2>1, <2>2, BelowBelow
  <2>. QED  BY <2>1, <2>3
<1>6. ASSUME NEW x \in D, NEW k \in KidsOf(x) PROVE k \in D
  <2> SUFFICES ASSUME k \notin D PROVE x \notin D
    BY <1>6
  <2>1. k \in Units /\ k \in DOMAIN units /\ units[k].parent = x /\ x \in Units
    BY <1>4 DEF KidsOf
  <2>2. k \in Below(v) /\ w \in Below(k)
    BY <1>4, <2>1
  <2>3. k \in Below(x)
    BY <2>1, BelowSelf, BelowKids
  <2>4. w \in Below(x)
    BY <2>1, <2>2, <2>3, BelowBelow
  <2>5. x \in Below(v)
    <3>1. CASE k = v
      BY <1>1, <2>1, <3>1
    <3>2. CASE k # v
      BY <1>1, <2>1, <2>2, <3>2, BelowParts
    <3>. QED  BY <3>1, <3>2
  <2>. QED  BY <1>4, <2>4, <2>5
<1>7. Below(u) \subseteq D
  <2>1. D \in SUBSET Units
    BY <1>4
  <2>. QED  BY <1>5, <1>6, <2>1, BelowLeast
<1>. QED  BY <1>3, <1>4, <1>7

\* The refreshing of the paths below a unit that was just saved begins.
Descending(t) ==
  /\ DOMAIN units \subseteq Units /\ t.unit \in DOMAIN units
  /\ t.at = "find" /\ t.node = t.unit /\ t.below = <<>> /\ t.above = units[t.unit].path
  /\ (\A v \in KidsOf(t.unit) : t.unit \notin Below(v)) => IsPath(t.unit)

Walking(t) ==
  ReadsStand(t) /\ \E P \in SUBSET Units : P = Pending(t) /\ (Endless(P) \/ Orderly(t, P))

LEMMA WalkBegins == \A s : Descending(s) => Walking(s)
<1> SUFFICES ASSUME NEW t, Descending(t) PROVE Walking(t)
  OBVIOUS
<1>1. PICK u, P : u = t.unit /\ P = KidsOf(u)
  OBVIOUS
<1>2. /\ DOMAIN units \subseteq Units /\ u \in DOMAIN units /\ u \in Units /\ t.at = "find"
      /\ t.node = u /\ t.below = <<>> /\ t.above = units[u].path
      /\ (\A v \in KidsOf(u) : u \notin Below(v)) => IsPath(u)
  BY <1>1 DEF Descending
<1>3. Waiting(t) = {}
  BY <1>2 DEF Waiting
<1>4. ReadsStand(t)
  BY <1>2, <1>3 DEF ReadsStand
<1>5. P \in SUBSET Units /\ P = Pending(t)
  BY <1>1, <1>2, <1>3 DEF Pending, KidsOf
<1>6. ASSUME NEW v \in KidsOf(u), u \in Below(v) PROVE Endless(P)
  <2>1. PICK C : C = {w \in Below(u) : u \in Below(w)}
    OBVIOUS
  <2>2. v \in Below(u)
    BY <1>2, BelowSelf, BelowKids
  <2>3. ASSUME NEW w \in C PROVE KidsOf(w) \cap C # {}
    <3>1. CASE w = u
      BY <1>6, <2>1, <2>2, <3>1
    <3>2. CASE w # u
      <4>1. w \in Below(u) /\ w \in Units /\ u \in Below(w)
        BY <2>1 DEF Below
      <4>2. PICK k \in KidsOf(w) : u \in Below(k)
        BY <1>2, <3>2, <4>1, BelowParts
      <4>3. k \in Below(u)
        BY <1>2, <4>1, <4>2, BelowKids
      <4>. QED  BY <2>1, <4>2, <4>3
    <3>. QED  BY <3>1, <3>2
  <2>4. C \in SUBSET Units /\ v \in P \cap C
    BY <1>1, <1>6, <2>1, <2>2 DEF Below
  <2>. QED  BY <2>3, <2>4 DEF Endless
<1>7. ASSUME \A v \in KidsOf(u) : u \notin Below(v) PROVE Orderly(t, P)
  <2>1. P \subseteq Below(u)
    BY <1>1, <1>2, BelowSelf, BelowKids
  <2>2. \A w \in Below(u) : \A v \in KidsOf(w) : w \notin Below(v)
    BY <1>2, <1>7, CycleIsAbove
  <2>3. ASSUME NEW v \in P, NEW w \in P, v # w PROVE v \notin Below(w)
    <3>1. w \in Units /\ units[v].parent = u /\ u \notin Below(w)
      BY <1>1, <1>2, <1>7 DEF KidsOf
    <3>. QED  BY <1>2, <2>3, <3>1, BelowParts
  <2>4. ASSUME NEW w \in Below(u) PROVE IsPath(w) \/ \E v \in P : w \in Below(v)
    <3>1. CASE w = u
      BY <1>2, <1>7, <3>1
    <3>2. CASE w # u
      BY <1>1, <1>2, <3>2, BelowParts
    <3>. QED  BY <3>1, <3>2
  <2>. QED  BY <1>1, <1>2, <1>3, <1>7, <2>1, <2>2, <2>3, <2>4 DEF Orderly
<1>. QED  BY <1>4, <1>5, <1>6, <1>7 DEF Walking

LEMMA WalkBeginsNext == (\A s : Descending(s) => Walking(s))'
BY WalkBegins, PTL

\* Whoever creates or moves a unit.
LEMMA UnitSavingKeeps ==
  ASSUME OrgInv, NEW p \in Turning, SaveUnit(p) PROVE OrgInv'
<1>1. PICK t : t = turns[p]
  OBVIOUS
<1>2. OrgShape /\ TurnFits(t) /\ t \in TurnRow /\ t.at = "save" /\ crossed' = crossed
  BY <1>1 DEF OrgInv, OrgShape, TurnFits, SaveUnit
<1>3. CASE t.parent \notin DOMAIN units \cup {NoUnit}
  <2>1. EndTurn(p) /\ UNCHANGED <<units, born>>
    BY <1>1, <1>3 DEF SaveUnit
  <2>. QED  BY <1>2, <2>1, EndKeeps
<1>4. CASE t.parent \in DOMAIN units \cup {NoUnit} /\ t.kind = "create"
  <2>1. PICK u \in Units \ born :
          /\ units' = Written(u, [slug |-> t.slug, parent |-> t.parent, path |-> Append(t.above, t.slug)])
          /\ born' = born \cup {u} /\ EndTurn(p)
    BY <1>1, <1>4 DEF SaveUnit
  <2>2. PICK row : row = [slug |-> t.slug, parent |-> t.parent, path |-> Append(t.above, t.slug)]
    OBVIOUS
  <2>3. units' = Written(u, row) /\ row.slug \in Slugs /\ row.path \in Seq(Slugs) /\ row.parent = t.parent
    BY <1>2, <2>1, <2>2 DEF TurnRow
  <2>4. /\ DOMAIN units' = DOMAIN units \cup {u} /\ units'[u] = row
        /\ \A v \in DOMAIN units : v # u => units'[v] = units[v]
    BY <2>3, RowWritten
  <2>5. Turning' = Turning \ {p} /\ \A q \in Turning' : turns'[q] = turns[q]
    BY <2>1, Ending
  <2>6. ASSUME NEW q \in Turning' PROVE TurnFits(turns[q])'
    <3>1. PICK s : s = turns[q] /\ s = turns'[q]
      BY <2>5
    <3>2. TurnFits(s) /\ s \in TurnRow
      BY <2>5, <3>1 DEF OrgInv, OrgShape, TurnFits
    <3>3. TurnFits(s)'
      BY <2>1, <3>2, TurnGoesOn DEF Same
    <3>. QED  BY <3>1, <3>3 DEF TurnFits
  <2>7. OrgShape'
    BY <1>2, <1>4, <2>1, <2>3, <2>6, ShapeGrows
  <2>8. StillTree'
    <3> SUFFICES ASSUME ~crossed
                 PROVE  /\ Acyclic'
                        /\ \A q, r \in Turning' : turns'[q].kind = "update" /\ turns'[r].kind = "update" => q = r
                        /\ \A q \in Turning' : Uncrossed(turns[q])'
      BY <1>2 DEF StillTree
    <3>1. u \notin DOMAIN units
      BY <1>2 DEF OrgShape
    <3>2. Acyclic
      BY DEF OrgInv, StillTree
    <3>3. Acyclic'
      BY <1>2, <1>4, <2>3, <2>4, <3>1, <3>2, LeafKeepsAcyclic
    <3>4. \A q, r \in Turning' : turns'[q].kind = "update" /\ turns'[r].kind = "update" => q = r
      BY <2>5 DEF OrgInv, StillTree
    <3>5. ASSUME NEW q \in Turning' PROVE Uncrossed(turns[q])'
      <4>1. PICK s : s = turns[q] /\ s = turns'[q]
        BY <2>5
      <4>2. TurnFits(s) /\ Uncrossed(s) /\ Same(s, s)
        BY <2>5, <4>1 DEF OrgInv, OrgShape, StillTree, Same
      <4>3. /\ born \subseteq born' /\ born' \subseteq Units /\ DOMAIN units' \subseteq born'
            /\ \A v \in born \cap DOMAIN units' : v \in DOMAIN units /\ units'[v].parent = units[v].parent
            /\ \A v \in DOMAIN units' \ born : units'[v].parent \in born \cup {NoUnit}
        BY <1>2, <1>4, <2>1, <2>3, <2>4 DEF OrgShape
      <4>4. Uncrossed(s)'
        BY <1>2, <4>2, <4>3, UncrossedGoesOn
      <4>. QED  BY <4>1, <4>4 DEF Uncrossed
    <3>. QED  BY <3>3, <3>4, <3>5
  <2>9. Alone'
    <3>1. \A q \in Turning' : ~turns'[q].alone
      BY <2>5 DEF OrgInv, Alone
    <3>. QED  BY <3>1 DEF Alone
  <2>. QED  BY <2>7, <2>8, <2>9 DEF OrgInv
<1>5. CASE t.parent \in DOMAIN units \cup {NoUnit} /\ t.kind = "update"
  <2>1. PICK u, path : u = t.unit /\ path = Append(t.above, t.slug)
    OBVIOUS
  <2>2. PICK row, next : /\ row = [slug |-> t.slug, parent |-> t.parent, path |-> path]
                         /\ next = [t EXCEPT !.at = "find", !.node = u, !.above = path]
    OBVIOUS
  <2>3. units' = Written(u, row) /\ born' = born \cup {u} /\ Turned(p, next)
    BY <1>1, <1>5, <2>1, <2>2 DEF SaveUnit
  <2>4. /\ u \in born /\ u \in Units /\ path \in Seq(Slugs) /\ t.slug \in Slugs
        /\ t.below = <<>> /\ born' = born
    BY <1>2, <1>5, <2>1, <2>3 DEF TurnFits, OrgShape, TurnRow
  <2>5. row.slug = t.slug /\ row.parent = t.parent /\ row.path = path
    BY <2>2
  <2>6. /\ next \in TurnRow /\ next.kind = "update" /\ next.at = "find" /\ next.unit = u
        /\ next.node = u /\ next.above = path /\ next.below = <<>> /\ next.alone = t.alone
    BY <1>2, <1>5, <2>1, <2>2, <2>4 DEF TurnRow, Parent
  <2>7. Waiting(next) = {}
    BY <2>6 DEF Waiting
  <2>8. /\ DOMAIN units' = DOMAIN units \cup {u} /\ units'[u] = row
        /\ \A v \in DOMAIN units : v # u => units'[v] = units[v]
    BY <2>3, RowWritten
  <2>9. /\ Turning' = Turning /\ turns'[p] = next
        /\ \A q \in Turning : q # p => turns'[q] = turns[q]
    BY <2>3, GoingOn
  <2>10. OrgShape'
    <3>1. TurnFits(next)'
      BY <2>4, <2>6, <2>7 DEF TurnFits
    <3>2. ASSUME NEW q \in Turning, q # p PROVE TurnFits(turns[q])'
      <4>1. PICK s : s = turns[q] /\ s = turns'[q]
        BY <2>9, <3>2
      <4>2. TurnFits(s)
        BY <4>1 DEF OrgInv, OrgShape
      <4>3. TurnFits(s)'
        BY <2>4, <4>2 DEF TurnFits
      <4>. QED  BY <4>1, <4>3 DEF TurnFits
    <3>3. TurnFits(turns[p])'
      BY <2>9, <3>1 DEF TurnFits
    <3>4. \A q \in Turning' : TurnFits(turns[q])'
      BY <2>9, <3>2, <3>3
    <3>. QED  BY <1>2, <1>5, <2>3, <2>4, <2>5, <3>4, ShapeGrows
  <2>11. StillTree'
    <3> SUFFICES ASSUME ~crossed
                 PROVE  /\ Acyclic'
                        /\ \A q, r \in Turning' : turns'[q].kind = "update" /\ turns'[r].kind = "update" => q = r
                        /\ \A q \in Turning' : Uncrossed(turns[q])'
      BY <1>2 DEF StillTree
    <3>1. Acyclic /\ Uncrossed(t)
      BY <1>1 DEF OrgInv, StillTree
    <3>2. PICK V \in SUBSET Units : /\ t.parent = NoUnit \/ t.parent \in V
                                    /\ u \notin V /\ Climbed(V, NoUnit)
      <4>1. CASE t.parent = NoUnit
        <5>1. Climbed({}, NoUnit)
          BY DEF Climbed
        <5>. QED  BY <4>1, <5>1
      <4>2. CASE t.parent # NoUnit
        <5>1. born \subseteq Units
          BY <1>2 DEF OrgShape
        <5>. QED  BY <1>2, <1>5, <2>1, <3>1, <4>2, <5>1 DEF Uncrossed
      <4>. QED  BY <4>1, <4>2
    <3>3. Acyclic'
      <4>1. \A v \in DOMAIN units : v # u => units'[v].parent = units[v].parent
        BY <2>8
      <4>2. units'[u].parent = t.parent
        BY <2>5, <2>8
      <4>. QED  BY <1>2, <2>4, <2>8, <3>1, <3>2, <4>1, <4>2, AcyclicGrows
    <3>4. \A q \in Turning : q # p => turns[q].kind # "update"
      BY <1>1, <1>5 DEF OrgInv, StillTree
    <3>5. \A q, r \in Turning' : turns'[q].kind = "update" /\ turns'[r].kind = "update" => q = r
      BY <2>9, <3>4
    <3>6. Walks(next)'
      <4>1. (Waiting(next) = {})'
        BY <2>7 DEF Waiting
      <4>. QED  BY <2>10, <3>3, <4>1, WalkSetsOutNext
    <3>7. ASSUME NEW q \in Turning' PROVE Uncrossed(turns[q])'
      <4>1. CASE q = p
        <5>1. Uncrossed(next)'
          BY <2>6, <3>6 DEF Uncrossed
        <5>. QED  BY <2>9, <4>1, <5>1 DEF Uncrossed
      <4>2. CASE q # p
        BY <2>9, <3>4, <3>7, <4>2 DEF Uncrossed
      <4>. QED  BY <4>1, <4>2
    <3>. QED  BY <3>3, <3>5, <3>7
  <2>12. Alone'
    <3>1. ASSUME NEW q \in Turning', turns'[q].alone PROVE Turning' = {q} /\ Undisturbed(turns[q])'
      <4>1. q = p /\ Turning = {p} /\ Undisturbed(t)
        BY <1>1, <2>6, <2>9, <3>1 DEF OrgInv, Alone
      <4>2. t.above = PathAbove(t.parent)
        BY <1>2, <1>5, <4>1 DEF Undisturbed
      <4>3. ASSUME \A v \in KidsOf(u)' : u \notin Below(v)' PROVE IsPath(u)'
        <5>1. t.parent # u
          <6> SUFFICES ASSUME t.parent = u PROVE FALSE
            OBVIOUS
          <6>1. u \in KidsOf(u)'
            BY <2>5, <2>8 DEF KidsOf
          <6>. QED  BY <2>4, <4>3, <6>1, BelowItselfNext
        <5>2. PathAbove(t.parent)' = t.above
          BY <1>5, <2>8, <4>2, <5>1 DEF PathAbove
        <5>3. PICK q2 : q2 = t.parent
          OBVIOUS
        <5>4. PathAbove(q2)' = t.above /\ units'[u].parent = q2 /\ units'[u].slug = t.slug /\ units'[u].path = path
          BY <2>5, <2>8, <5>2, <5>3 DEF PathAbove
        <5>. QED  BY <2>1, <5>4 DEF IsPath, PathAbove
      <4>4. Descending(next)'
        <5>1. DOMAIN units' \subseteq Units
          BY <1>2, <2>4, <2>8 DEF OrgShape
        <5>2. units'[u].path = path /\ u \in DOMAIN units'
          BY <2>5, <2>8
        <5>. QED  BY <2>6, <4>3, <5>1, <5>2 DEF Descending
      <4>5. Walking(next)'
        BY <4>4, WalkBeginsNext
      <4>6. Undisturbed(next)'
        BY <2>6, <2>8, <4>5 DEF Undisturbed, Walking
      <4>. QED  BY <2>9, <4>1, <4>6 DEF Undisturbed
    <3>. QED  BY <3>1 DEF Alone
  <2>. QED  BY <2>10, <2>11, <2>12 DEF OrgInv
<1>6. t.kind \in {"update", "create"}
  BY <1>2 DEF TurnFits, TurnRow
<1>. QED  BY <1>3, <1>4, <1>5, <1>6

\* The children of the unit that was just saved are read.
LEMMA FindingKeeps ==
  ASSUME OrgInv, NEW p \in Turning, FindChildren(p) PROVE OrgInv'
<1>1. PICK t : t = turns[p]
  OBVIOUS
<1>2. /\ OrgShape /\ TurnFits(t) /\ t \in TurnRow /\ t.at = "find" /\ t.kind = "update"
      /\ UNCHANGED <<units, born, crossed>> /\ t.node \in Units /\ t.below \in Seq(SUBSET KidRow)
  BY <1>1 DEF OrgInv, OrgShape, TurnFits, TurnRow, FindChildren
<1>3. PICK node, above : node = t.node /\ above = t.above
  OBVIOUS
<1>4. PICK kids : kids = {[unit |-> v, slug |-> units[v].slug, parent |-> node, above |-> above] :
                            v \in KidsOf(node)}
  OBVIOUS
<1>5. /\ KidsOf(node) \subseteq DOMAIN units /\ \A v \in KidsOf(node) : units[v].parent = node
      /\ DOMAIN units \subseteq Units /\ DOMAIN units \subseteq born /\ node \in Units /\ above \in Seq(Slugs)
  BY <1>2, <1>3 DEF KidsOf, OrgShape, TurnRow
<1>6. ASSUME NEW r \in kids
      PROVE  /\ r \in KidRow /\ r.unit \in KidsOf(node) /\ r.slug = units[r.unit].slug
             /\ r.parent = node /\ r.above = above
  <2>1. PICK v \in KidsOf(node) :
          r = [unit |-> v, slug |-> units[v].slug, parent |-> node, above |-> above]
    BY <1>4
  <2>2. units[v].slug \in Slugs /\ v \in Units
    BY <1>2, <1>5 DEF OrgShape
  <2>. QED  BY <1>5, <2>1, <2>2 DEF KidRow
<1>7. ASSUME NEW v \in KidsOf(node) PROVE \E r \in kids : r.unit = v
  <2>1. PICK r : r = [unit |-> v, slug |-> units[v].slug, parent |-> node, above |-> above]
    OBVIOUS
  <2>. QED  BY <1>4, <2>1
<1>8. /\ kids # {} => Turned(p, [t EXCEPT !.at = "child", !.below = Append(t.below, kids)])
      /\ kids = {} /\ t.below # <<>> => Turned(p, [t EXCEPT !.at = "child"])
      /\ kids = {} /\ t.below = <<>> => EndTurn(p)
  BY <1>1, <1>3, <1>4 DEF FindChildren
<1>9. ASSUME kids # {} PROVE OrgInv'
  <2>1. PICK more : more = Append(t.below, kids)
    OBVIOUS
  <2>2. PICK next : next = [t EXCEPT !.at = "child", !.below = more]
    OBVIOUS
  <2>3. /\ more \in Seq(SUBSET KidRow) /\ more # <<>> /\ DOMAIN more = 1..(Len(t.below) + 1)
        /\ DOMAIN t.below = 1..Len(t.below) /\ Len(t.below) \in Nat
        /\ \A i \in DOMAIN t.below : i \in DOMAIN more /\ more[i] = t.below[i]
        /\ more[Len(t.below) + 1] = kids
    <3>1. kids \in SUBSET KidRow
      BY <1>6
    <3>. QED  BY <1>2, <2>1, <3>1
  <2>4. \A i \in DOMAIN more : (i \in DOMAIN t.below /\ more[i] = t.below[i]) \/ (i = Len(t.below) + 1 /\ more[i] = kids)
    BY <2>3
  <2>5. /\ next \in TurnRow /\ next.kind = "update" /\ next.at = "child" /\ next.unit = t.unit
        /\ next.node = t.node /\ next.above = t.above /\ next.below = more /\ next.alone = t.alone
    BY <1>2, <2>2, <2>3 DEF TurnRow
  <2>6. Turned(p, next)
    BY <1>8, <1>9, <2>1, <2>2
  <2>7. Waiting(next) = Waiting(t) \cup kids
    <3>1. Len(t.below) + 1 \in DOMAIN more
      BY <2>3
    <3>2. ASSUME NEW r PROVE /\ r \in Waiting(next) <=> \E i \in DOMAIN more : r \in more[i]
                             /\ r \in Waiting(t) <=> \E i \in DOMAIN t.below : r \in t.below[i]
      BY <2>5 DEF Waiting
    <3>3. ASSUME NEW r
          PROVE  (\E i \in DOMAIN more : r \in more[i]) <=>
                   ((\E i \in DOMAIN t.below : r \in t.below[i]) \/ r \in kids)
      BY <2>3, <2>4, <3>1
    <3>. QED  BY <3>2, <3>3
  <2>8. TurnFits(next)
    <3>1. \A i \in DOMAIN more : more[i] # {}
      BY <1>2, <1>9, <2>4 DEF TurnFits
    <3>2. \A r \in Waiting(next) : r.unit \in born
      BY <1>2, <1>5, <1>6, <2>7 DEF TurnFits
    <3>. QED  BY <1>2, <2>3, <2>5, <3>1, <3>2 DEF TurnFits
  <2>9. ASSUME ~crossed PROVE Uncrossed(next)
    <3>1. Uncrossed(t)
      BY <1>1, <2>9 DEF OrgInv, StillTree
    <3>2. PICK F \in [born -> born \cup {NoUnit}] : Walked(t, F)
      BY <1>2, <3>1 DEF Uncrossed, Walks
    <3>3. \A r \in kids : r.unit \in DOMAIN units /\ units[r.unit].parent = r.parent /\ r.parent # NoUnit
      BY <1>5, <1>6, OrgUnitsAssumption
    <3>4. \A r \in kids : F[r.unit] = r.parent
      BY <3>2, <3>3 DEF Walked
    <3>5. Walked(next, F)
      BY <2>7, <3>2, <3>4 DEF Walked
    <3>. QED  BY <2>5, <3>2, <3>5 DEF Uncrossed, Walks
  <2>10. ASSUME next.alone PROVE Undisturbed(next)
    <3>1. Undisturbed(t)
      BY <1>1, <2>5, <2>10 DEF OrgInv, Alone
    <3>2. t.unit \in DOMAIN units /\ ReadsStand(t)
      BY <1>2, <3>1 DEF Undisturbed
    <3>3. PICK P \in SUBSET Units : P = Pending(t) /\ (Endless(P) \/ Orderly(t, P))
      BY <1>2, <3>1 DEF Undisturbed
    <3>4. ReadsStand(next)
      BY <1>2, <1>5, <1>6, <2>5, <2>7, <3>2 DEF ReadsStand
    <3>5. P = Pending(next)
      <4>1. {r.unit : r \in Waiting(t) \cup kids} = {r.unit : r \in Waiting(t)} \cup KidsOf(node)
        BY <1>6, <1>7
      <4>. QED  BY <1>2, <1>3, <2>5, <2>7, <3>3, <4>1 DEF Pending
    <3>6. ASSUME Orderly(t, P) PROVE Orderly(next, P)
      <4>1. \A r \in Waiting(next) : r.above = units[r.parent].path /\ \A u \in P : r.parent \notin Below(u)
        BY <1>2, <1>3, <1>6, <2>7, <3>6 DEF Orderly
      <4>2. ASSUME NEW i \in DOMAIN more, NEW j \in DOMAIN more, NEW r \in more[i], NEW s \in more[j],
                   r.unit = s.unit
            PROVE  i = j
        <5>1. \A w \in Waiting(t) : w.unit \notin KidsOf(node)
          BY <1>2, <1>3, <3>6 DEF Orderly
        <5>2. \A w \in kids : w.unit \in KidsOf(node)
          BY <1>6
        <5>3. \A l \in DOMAIN t.below : \A w \in t.below[l] : w \in Waiting(t)
          BY DEF Waiting
        <5>4. \A l, m \in DOMAIN t.below : \A v \in t.below[l], w \in t.below[m] : v.unit = w.unit => l = m
          BY <3>6 DEF Orderly
        <5>5. CASE i \in DOMAIN t.below /\ more[i] = t.below[i]
          BY <2>4, <4>2, <5>1, <5>2, <5>3, <5>4, <5>5
        <5>6. CASE i = Len(t.below) + 1 /\ more[i] = kids
          BY <2>4, <4>2, <5>1, <5>2, <5>3, <5>6
        <5>. QED  BY <2>4, <5>5, <5>6
      <4>. QED  BY <2>5, <3>6, <4>1, <4>2 DEF Orderly
    <3>. QED  BY <2>5, <3>2, <3>3, <3>4, <3>5, <3>6 DEF Undisturbed
  <2>. QED  BY <1>1, <1>2, <2>5, <2>6, <2>8, <2>9, <2>10, TurnKeeps
<1>10. ASSUME kids = {}, t.below # <<>> PROVE OrgInv'
  <2>1. PICK next : next = [t EXCEPT !.at = "child"]
    OBVIOUS
  <2>2. /\ next \in TurnRow /\ next.kind = "update" /\ next.at = "child" /\ next.unit = t.unit
        /\ next.below = t.below /\ next.alone = t.alone
    BY <1>2, <2>1 DEF TurnRow
  <2>3. Turned(p, next) /\ Waiting(next) = Waiting(t) /\ KidsOf(node) = {}
    BY <1>7, <1>8, <1>10, <2>1, <2>2 DEF Waiting
  <2>4. TurnFits(next)
    BY <1>2, <1>10, <2>2, <2>3 DEF TurnFits
  <2>5. ASSUME ~crossed PROVE Uncrossed(next)
    <3>1. Uncrossed(t)
      BY <1>1, <2>5 DEF OrgInv, StillTree
    <3>. QED  BY <1>2, <2>2, <2>3, <3>1 DEF Uncrossed, Walks, Walked
  <2>6. ASSUME next.alone PROVE Undisturbed(next)
    <3>1. Undisturbed(t)
      BY <1>1, <2>2, <2>6 DEF OrgInv, Alone
    <3>2. PICK P \in SUBSET Units : P = Pending(t) /\ (Endless(P) \/ Orderly(t, P))
      BY <1>2, <3>1 DEF Undisturbed
    <3>3. ReadsStand(next) /\ t.unit \in DOMAIN units
      BY <1>2, <2>2, <2>3, <3>1 DEF Undisturbed, ReadsStand
    <3>4. P = Pending(next)
      BY <1>2, <1>3, <2>2, <2>3, <3>2 DEF Pending
    <3>5. Orderly(t, P) => Orderly(next, P)
      BY <2>2, <2>3 DEF Orderly
    <3>. QED  BY <2>2, <3>2, <3>3, <3>4, <3>5 DEF Undisturbed
  <2>. QED  BY <1>1, <1>2, <2>2, <2>3, <2>4, <2>5, <2>6, TurnKeeps
<1>11. ASSUME kids = {}, t.below = <<>> PROVE OrgInv'
  BY <1>2, <1>8, <1>11, EndKeeps
<1>. QED  BY <1>9, <1>10, <1>11

\* One of the children of the last level is taken away, and the level with it when it is empty.
LEMMA Popped ==
  ASSUME NEW below \in Seq(SUBSET KidRow), below # <<>>, NEW kid \in below[Len(below)],
         \A i \in DOMAIN below : below[i] # {},
         NEW more, more = IF below[Len(below)] = {kid} THEN SubSeq(below, 1, Len(below) - 1)
                          ELSE Append(SubSeq(below, 1, Len(below) - 1), below[Len(below)] \ {kid})
  PROVE  /\ more \in Seq(SUBSET KidRow)
         /\ \A i \in DOMAIN more : /\ i \in DOMAIN below /\ more[i] \subseteq below[i] /\ more[i] # {}
                                   /\ i = Len(below) => kid \notin more[i]
         /\ \A i \in DOMAIN below : \A r \in below[i] : r # kid => i \in DOMAIN more /\ r \in more[i]
<1>1. PICK rest : rest = SubSeq(below, 1, Len(below) - 1)
  OBVIOUS
<1>2. /\ Len(below) \in Nat \ {0} /\ DOMAIN below = 1..Len(below)
      /\ rest \in Seq(SUBSET KidRow) /\ Len(rest) = Len(below) - 1 /\ DOMAIN rest = 1..(Len(below) - 1)
      /\ \A i \in DOMAIN rest : rest[i] = below[i]
  <2>1. PICK n, m : n = Len(below) /\ m = n - 1
    OBVIOUS
  <2>2. n \in Nat \ {0} /\ DOMAIN below = 1..n
    BY <2>1, EmptySeq, LenProperties
  <2>3. m \in (1 - 1)..n /\ 1 \in 1..(n + 1) /\ m \in Nat /\ m - 1 + 1 = m
    BY <2>1, <2>2
  <2>4. /\ SubSeq(below, 1, m) \in Seq(SUBSET KidRow) /\ Len(SubSeq(below, 1, m)) = m - 1 + 1
        /\ \A i \in 1..(m - 1 + 1) : SubSeq(below, 1, m)[i] = below[1 + i - 1]
    BY <2>1, <2>3, SubSeqProperties
  <2>5. rest = SubSeq(below, 1, m)
    BY <1>1, <2>1
  <2>6. rest \in Seq(SUBSET KidRow) /\ Len(rest) = m /\ \A i \in 1..m : rest[i] = below[1 + i - 1]
    BY <2>3, <2>4, <2>5
  <2>7. DOMAIN rest = 1..m /\ \A i \in 1..m : 1 + i - 1 = i
    BY <2>3, <2>6, LenProperties
  <2>. QED  BY <2>1, <2>2, <2>6, <2>7
<1>3. PICK last : last = below[Len(below)] /\ last \in SUBSET KidRow /\ kid \in last
  BY <1>2
<1>4. CASE last = {kid}
  <2>1. more = rest
    BY <1>1, <1>3, <1>4
  <2>2. ASSUME NEW i \in DOMAIN below, NEW r \in below[i], r # kid PROVE i \in DOMAIN rest /\ r \in rest[i]
    <3>1. i # Len(below)
      BY <1>3, <1>4, <2>2
    <3>. QED  BY <1>2, <2>2, <3>1
  <2>3. \A i \in DOMAIN rest : i \in DOMAIN below /\ i # Len(below)
    BY <1>2
  <2>. QED  BY <1>2, <2>1, <2>2, <2>3
<1>5. CASE last # {kid}
  <2>1. more = Append(rest, last \ {kid})
    BY <1>1, <1>3, <1>5
  <2>2. last \ {kid} \in SUBSET KidRow /\ last \ {kid} # {}
    BY <1>3, <1>5
  <2>3. PICK level : level = last \ {kid}
    OBVIOUS
  <2>4. /\ more \in Seq(SUBSET KidRow) /\ DOMAIN more = 1..Len(below)
        /\ more[Len(below)] = level /\ \A i \in DOMAIN rest : more[i] = below[i]
    <3>1. PICK n : n = Len(rest) /\ n \in Nat /\ n + 1 = Len(below)
      BY <1>2
    <3>2. /\ more \in Seq(SUBSET KidRow) /\ DOMAIN more = 1..(n + 1)
          /\ more[n + 1] = level /\ \A i \in 1..n : more[i] = rest[i]
      <4>1. rest \in Seq(SUBSET KidRow) /\ level \in SUBSET KidRow /\ more = Append(rest, level)
        BY <1>2, <2>1, <2>2, <2>3
      <4>2. /\ Append(rest, level) \in Seq(SUBSET KidRow) /\ DOMAIN rest = 1..n
            /\ Len(Append(rest, level)) = Len(rest) + 1
            /\ \A i \in 1..Len(rest) : Append(rest, level)[i] = rest[i]
            /\ Append(rest, level)[Len(rest) + 1] = level
        BY <4>1, <3>1, AppendProperties, LenProperties
      <4>3. DOMAIN more = 1..Len(more)
        BY <4>1, <4>2, LenProperties
      <4>. QED  BY <3>1, <4>1, <4>2, <4>3
    <3>. QED  BY <1>2, <3>1, <3>2
  <2>5. ASSUME NEW i \in DOMAIN below
        PROVE  /\ i = Len(below) \/ i \in DOMAIN rest
               /\ i = Len(below) => more[i] = level
               /\ i \in DOMAIN rest => more[i] = below[i] /\ i # Len(below)
    BY <1>2, <2>4
  <2>. QED  BY <1>2, <1>3, <2>2, <2>3, <2>4, <2>5
<1>. QED  BY <1>4, <1>5

\* The walk goes on below a child that got its path.
LEMMA WalkGoesOn ==
  ASSUME OrgShape, NEW t \in TurnRow, ReadsStand(t), t.at = "child",
         NEW P \in SUBSET Units, P = Pending(t), Orderly(t, P), t.unit \in DOMAIN units,
         NEW kid \in Waiting(t), NEW k, k = kid.unit, NEW path, path = Append(kid.above, kid.slug),
         DOMAIN units' = DOMAIN units, units'[k].path = path,
         \A u \in DOMAIN units : u # k => units'[u] = units[u],
         \A u \in DOMAIN units : units'[u].parent = units[u].parent /\ units'[u].slug = units[u].slug,
         NEW next \in TurnRow, next.at = "find", next.unit = t.unit, next.node = k, next.above = path,
         \A i \in DOMAIN next.below : i \in DOMAIN t.below /\ next.below[i] \subseteq t.below[i],
         kid \notin Waiting(next), \A r \in Waiting(t) : r # kid => r \in Waiting(next),
         NEW Q, Q = {r.unit : r \in Waiting(next)} \cup KidsOf(k)
  PROVE  Orderly(next, Q)'
<1>1. PICK u : u = t.unit /\ u \in Units
  BY DEF OrgShape
<1>2. /\ DOMAIN units \subseteq Units /\ k \in DOMAIN units /\ k \in Units
      /\ \A v \in DOMAIN units : units[v].parent \in DOMAIN units \cup {NoUnit}
      /\ units[k].slug = kid.slug /\ units[k].parent = kid.parent
  BY DEF OrgShape, ReadsStand
<1>3. /\ P = {r.unit : r \in Waiting(t)} /\ P \subseteq Below(u) /\ k \in P
      /\ \A x \in Below(u) : \A v \in KidsOf(x) : x \notin Below(v)
      /\ \A x, y \in P : x # y => x \notin Below(y)
      /\ \A r \in Waiting(t) : r.above = units[r.parent].path /\ \A x \in P : r.parent \notin Below(x)
      /\ \A i, j \in DOMAIN t.below : \A r \in t.below[i], s \in t.below[j] : r.unit = s.unit => i = j
      /\ \A x \in Below(u) : IsPath(x) \/ \E v \in P : x \in Below(v)
  BY <1>1 DEF Orderly, Pending
<1>4. \A x : KidsOf(x)' = KidsOf(x) /\ Below(x)' = Below(x)
  BY SameTree
<1>5. Waiting(next) \subseteq Waiting(t)
  BY DEF Waiting
<1>6. ASSUME NEW r \in Waiting(t)
      PROVE  /\ r \in KidRow /\ r.parent \in DOMAIN units /\ r.parent # k /\ r.unit \in P
             /\ units'[r.parent] = units[r.parent]
             /\ r.unit \in DOMAIN units /\ units[r.unit].slug = r.slug /\ units[r.unit].parent = r.parent
  <2>1. r \in KidRow
    BY DEF Waiting, TurnRow
  <2>2. r.unit \in DOMAIN units /\ units[r.unit].slug = r.slug /\ units[r.unit].parent = r.parent
    BY DEF ReadsStand
  <2>3. r.parent \in Units /\ r.parent \in DOMAIN units
    BY <1>2, <2>1, <2>2, OrgUnitsAssumption DEF KidRow
  <2>4. r.parent # k
    BY <1>2, <1>3, BelowSelf
  <2>. QED  BY <1>3, <2>1, <2>2, <2>3, <2>4
<1>7. ASSUME NEW r \in Waiting(next) PROVE r.unit # k
  <2> SUFFICES ASSUME r.unit = k PROVE FALSE
    OBVIOUS
  <2>1. r \in Waiting(t)
    BY <1>5
  <2>2. r.slug = kid.slug /\ r.parent = kid.parent
    BY <1>2, <1>6, <2>1
  <2>3. r.above = kid.above
    BY <1>3, <2>1, <2>2
  <2>4. r = kid
    BY <1>6, <2>1, <2>2, <2>3 DEF KidRow
  <2>. QED  BY <2>4
<1>8. ASSUME NEW v \in P, v # k PROVE v \in Q
  BY <1>3, <1>8
<1>9. ASSUME NEW v \in Q PROVE (v \in P /\ v # k) \/ v \in KidsOf(k)
  BY <1>3, <1>5, <1>7
<1>10. ASSUME NEW v \in KidsOf(k)
       PROVE  /\ v \in Q /\ v \in Below(u) /\ v \in Units /\ v \in Below(k) /\ units[v].parent = k
              /\ Below(v) \subseteq Below(k) /\ k \notin Below(v) /\ v # k
  <2>1. v \in Units /\ units[v].parent = k
    BY <1>2 DEF KidsOf
  <2>2. v \in Below(k) /\ v \in Below(u)
    BY <1>1, <1>2, <1>3, BelowSelf, BelowKids
  <2>3. Below(v) \subseteq Below(k)
    BY <1>2, <2>2, BelowBelow
  <2>4. k \notin Below(v)
    BY <1>3
  <2>. QED  BY <2>1, <2>2, <2>3, <2>4, BelowSelf
<1>11. Q \subseteq Below(u)
  BY <1>3, <1>9, <1>10
<1>12. ASSUME NEW x \in Q, NEW y \in Q, x # y PROVE x \notin Below(y)
  <2> SUFFICES ASSUME x \in Below(y) PROVE FALSE
    OBVIOUS
  <2>1. y \in Units
    BY <1>3, <1>9, <1>10 DEF Below
  <2>2. CASE x \in P /\ x # k /\ y \in P
    BY <1>3, <1>12, <2>2
  <2>3. CASE x \in P /\ x # k /\ y \in KidsOf(k)
    BY <1>3, <1>10, <2>3
  <2>4. CASE x \in KidsOf(k) /\ y \in P /\ y # k
    <3>1. k \in Below(y)
      BY <1>2, <1>10, <1>12, <2>1, <2>4, BelowParts
    <3>. QED  BY <1>3, <2>4, <3>1
  <2>5. CASE x \in KidsOf(k) /\ y \in KidsOf(k)
    <3>1. k \in Below(y)
      BY <1>2, <1>10, <1>12, <2>1, <2>5, BelowParts
    <3>. QED  BY <1>10, <2>5, <3>1
  <2>. QED  BY <1>9, <2>2, <2>3, <2>4, <2>5
<1>13. ASSUME NEW r \in Waiting(next)
       PROVE  /\ r.above = units'[r.parent].path /\ \A x \in Q : r.parent \notin Below(x)
              /\ r.unit \notin KidsOf(k)
  <2>1. r \in Waiting(t)
    BY <1>5
  <2>2. r.above = units'[r.parent].path
    BY <1>3, <1>6, <2>1
  <2>3. \A x \in Q : r.parent \notin Below(x)
    BY <1>3, <1>9, <1>10, <2>1
  <2>4. r.unit \notin KidsOf(k)
    BY <1>6, <1>10, <2>1
  <2>. QED  BY <2>2, <2>3, <2>4
<1>14. \A x \in Q : k \notin Below(x)
  BY <1>3, <1>9, <1>10
<1>15. \A i, j \in DOMAIN next.below : \A r \in next.below[i], s \in next.below[j] : r.unit = s.unit => i = j
  BY <1>3
<1>16. ASSUME NEW x \in Below(u) PROVE IsPath(x)' \/ \E v \in Q : x \in Below(v)
  <2>1. CASE x = k
    <3>1. kid.parent \in DOMAIN units /\ kid.parent # NoUnit /\ kid.above = units'[kid.parent].path
      BY <1>2, <1>3, <1>6, OrgUnitsAssumption
    <3>2. units'[k].path = Append(units'[kid.parent].path, units'[k].slug) /\ units'[k].parent = kid.parent
      BY <1>2, <3>1
    <3>. QED  BY <2>1, <3>1, <3>2 DEF IsPath, PathAbove
  <2>2. ASSUME x # k, NEW v \in P, x \in Below(v) PROVE \E w \in Q : x \in Below(w)
    <3>1. CASE v # k
      BY <1>8, <2>2, <3>1
    <3>2. CASE v = k
      <4>1. PICK w \in KidsOf(k) : x \in Below(w)
        BY <1>2, <2>2, <3>2, BelowParts
      <4>. QED  BY <1>10, <4>1
    <3>. QED  BY <3>1, <3>2
  <2>3. CASE x # k /\ IsPath(x)
    <3>1. CASE x \in KidsOf(k)
      <4>1. x \in Q /\ x \in Below(x)
        BY <1>10, <3>1, BelowSelf
      <4>. QED  BY <4>1
    <3>2. CASE x \notin KidsOf(k)
      <4>1. x \in DOMAIN units
        BY <1>1, <1>2, <2>3, BelowParts
      <4>2. PICK q : q = units[x].parent
        OBVIOUS
      <4>3. q # k /\ (q = NoUnit \/ q \in DOMAIN units) /\ units'[x] = units[x]
        BY <1>2, <2>3, <3>2, <4>1, <4>2 DEF KidsOf
      <4>4. q # NoUnit => units'[q].path = units[q].path
        BY <4>3
      <4>5. units[x].path = Append(IF q = NoUnit THEN <<>> ELSE units[q].path, units[x].slug)
        BY <2>3, <4>2 DEF IsPath, PathAbove
      <4>6. units'[x].path = Append(IF q = NoUnit THEN <<>> ELSE units'[q].path, units'[x].slug)
        BY <4>3, <4>4, <4>5
      <4>7. units'[x].parent = q
        BY <4>2, <4>3
      <4>. QED  BY <4>6, <4>7 DEF IsPath, PathAbove
    <3>. QED  BY <3>1, <3>2
  <2>. QED  BY <1>3, <2>1, <2>2, <2>3
<1>17. /\ Below(next.unit)' = Below(u) /\ KidsOf(next.node)' = KidsOf(k)
       /\ units'[next.node].path = next.above
  <2>1. Below(next.unit)' = Below(next.unit) /\ KidsOf(next.node)' = KidsOf(next.node)
    BY SameTree
  <2>. QED  BY <1>1, <2>1
<1>18. \A x \in Below(next.unit)' : \A v \in KidsOf(x)' : x \notin Below(v)'
  BY <1>3, <1>4, <1>17
<1>19. Q \subseteq Below(next.unit)' /\ \A x, y \in Q : x # y => x \notin Below(y)'
  BY <1>4, <1>11, <1>12, <1>17
<1>20. \A r \in Waiting(next) : r.above = units'[r.parent].path /\ \A x \in Q : r.parent \notin Below(x)'
  BY <1>4, <1>13
<1>21. /\ next.above = units'[next.node].path /\ \A x \in Q : next.node \notin Below(x)'
       /\ \A r \in Waiting(next) : r.unit \notin KidsOf(next.node)'
  BY <1>4, <1>13, <1>14, <1>17
<1>22. \A x \in Below(next.unit)' : IsPath(x)' \/ \E v \in Q : x \in Below(v)'
  BY <1>4, <1>16, <1>17
<1>. QED  BY <1>15, <1>18, <1>19, <1>20, <1>21, <1>22 DEF Orderly

\* A child of the unit gets its path.
LEMMA ChildKeeps ==
  ASSUME OrgInv, NEW p \in Turning, SaveChild(p) PROVE OrgInv'
<1>1. PICK t : t = turns[p]
  OBVIOUS
<1>2. /\ OrgShape /\ TurnFits(t) /\ t \in TurnRow /\ t.at = "child" /\ t.kind = "update"
      /\ UNCHANGED <<born, crossed>> /\ t.below \in Seq(SUBSET KidRow) /\ t.below # <<>>
      /\ \A i \in DOMAIN t.below : t.below[i] # {}
  BY <1>1 DEF OrgInv, OrgShape, TurnFits, TurnRow, SaveChild
<1>3. PICK below : below = t.below
  OBVIOUS
<1>4. PICK last, rest : last = below[Len(below)] /\ rest = SubSeq(below, 1, Len(below) - 1)
  OBVIOUS
<1>5. PICK kid \in last :
        IF kid.parent \notin DOMAIN units THEN EndTurn(p) /\ UNCHANGED units
        ELSE /\ units' = Written(kid.unit, [slug |-> kid.slug, parent |-> kid.parent,
                                            path |-> Append(kid.above, kid.slug)])
             /\ Turned(p, [t EXCEPT !.at = "find", !.node = kid.unit, !.above = Append(kid.above, kid.slug),
                                    !.below = IF last = {kid} THEN rest ELSE Append(rest, last \ {kid})])
  BY <1>1, <1>3, <1>4 DEF SaveChild
<1>6. CASE kid.parent \notin DOMAIN units
  BY <1>2, <1>5, <1>6, EndKeeps
<1>7. CASE kid.parent \in DOMAIN units
  <2>1. PICK k, path, more : /\ k = kid.unit /\ path = Append(kid.above, kid.slug)
                             /\ more = IF last = {kid} THEN rest ELSE Append(rest, last \ {kid})
    OBVIOUS
  <2>2. PICK row, next : /\ row = [slug |-> kid.slug, parent |-> kid.parent, path |-> path]
                         /\ next = [t EXCEPT !.at = "find", !.node = k, !.above = path, !.below = more]
    OBVIOUS
  <2>3. units' = Written(k, row) /\ Turned(p, next)
    BY <1>5, <1>7, <2>1, <2>2
  <2>4. /\ Len(below) \in DOMAIN below /\ kid \in Waiting(t) /\ kid \in KidRow
    <3>1. below \in Seq(SUBSET KidRow) /\ below # <<>>
      BY <1>2, <1>3
    <3>2. Len(below) \in DOMAIN below
      BY <3>1, EmptySeq, LenProperties
    <3>3. kid \in Waiting(t)
      BY <1>3, <1>4, <3>2 DEF Waiting
    <3>. QED  BY <1>4, <3>1, <3>2, <3>3
  <2>5. k \in Units /\ k \in born /\ path \in Seq(Slugs) /\ kid.slug \in Slugs /\ kid.parent \in Units
    <3>1. kid.above \in Seq(Slugs) /\ kid.slug \in Slugs /\ k \in Units /\ kid.parent \in Units
      BY <2>1, <2>4 DEF KidRow
    <3>2. k \in born
      BY <1>2, <2>1, <2>4 DEF TurnFits
    <3>. QED  BY <2>1, <3>1, <3>2
  <2>6. /\ more \in Seq(SUBSET KidRow)
        /\ \A i \in DOMAIN more : /\ i \in DOMAIN below /\ more[i] \subseteq below[i] /\ more[i] # {}
                                  /\ i = Len(below) => kid \notin more[i]
        /\ \A i \in DOMAIN below : \A r \in below[i] : r # kid => i \in DOMAIN more /\ r \in more[i]
    <3>1. /\ below \in Seq(SUBSET KidRow) /\ below # <<>> /\ kid \in below[Len(below)]
          /\ \A i \in DOMAIN below : below[i] # {}
      BY <1>2, <1>3, <1>4
    <3>2. more = IF below[Len(below)] = {kid} THEN SubSeq(below, 1, Len(below) - 1)
                 ELSE Append(SubSeq(below, 1, Len(below) - 1), below[Len(below)] \ {kid})
      BY <1>4, <2>1
    <3>. QED  BY <3>1, <3>2, Popped
  <2>7. /\ next \in TurnRow /\ next.kind = "update" /\ next.at = "find" /\ next.unit = t.unit
        /\ next.node = k /\ next.above = path /\ next.below = more /\ next.alone = t.alone
    BY <1>2, <2>2, <2>5, <2>6 DEF TurnRow, Parent
  <2>8. /\ Waiting(next) \subseteq Waiting(t)
        /\ \A r \in Waiting(t) : r # kid => r \in Waiting(next)
    BY <1>3, <2>6, <2>7 DEF Waiting
  <2>9. /\ DOMAIN units' = DOMAIN units \cup {k} /\ units'[k] = row
        /\ \A v \in DOMAIN units : v # k => units'[v] = units[v]
    BY <2>3, RowWritten
  <2>10. /\ Turning' = Turning /\ turns'[p] = next
         /\ \A q \in Turning : q # p => turns'[q] = turns[q]
    BY <2>3, GoingOn
  <2>11. row.slug = kid.slug /\ row.parent = kid.parent /\ row.path = path
    BY <2>2
  <2>12. OrgShape'
    <3>1. TurnFits(next)'
      <4>1. \A i \in DOMAIN more : more[i] # {}
        BY <2>6
      <4>2. \A r \in Waiting(next) : r.unit \in born
        BY <1>2, <2>8 DEF TurnFits
      <4>3. TurnFits(next)
        BY <1>2, <2>5, <2>7, <4>1, <4>2 DEF TurnFits
      <4>. QED  BY <1>2, <4>3 DEF TurnFits
    <3>2. ASSUME NEW q \in Turning, q # p PROVE TurnFits(turns[q])'
      <4>1. PICK s : s = turns[q] /\ s = turns'[q]
        BY <2>10, <3>2
      <4>2. TurnFits(s)
        BY <4>1 DEF OrgInv, OrgShape
      <4>3. TurnFits(s)'
        BY <1>2, <4>2 DEF TurnFits
      <4>. QED  BY <4>1, <4>3 DEF TurnFits
    <3>3. TurnFits(turns[p])'
      BY <2>10, <3>1 DEF TurnFits
    <3>4. \A q \in Turning' : TurnFits(turns[q])'
      BY <2>10, <3>2, <3>3
    <3>5. /\ row.slug \in Slugs /\ row.path \in Seq(Slugs) /\ row.parent \in DOMAIN units \cup {NoUnit}
          /\ born' = born \cup {k}
      BY <1>2, <1>7, <2>5, <2>11
    <3>. QED  BY <1>2, <2>3, <2>5, <3>4, <3>5, ShapeGrows
  <2>13. StillTree'
    <3> SUFFICES ASSUME ~crossed
                 PROVE  /\ Acyclic'
                        /\ \A q, r \in Turning' : turns'[q].kind = "update" /\ turns'[r].kind = "update" => q = r
                        /\ \A q \in Turning' : Uncrossed(turns[q])'
      BY <1>2 DEF StillTree
    <3>1. Acyclic /\ Uncrossed(t)
      BY <1>1 DEF OrgInv, StillTree
    <3>2. PICK F \in [born -> born \cup {NoUnit}] : Walked(t, F)
      BY <1>2, <3>1 DEF Uncrossed, Walks
    <3>3. /\ units'[k].parent = F[k]
          /\ \A v \in DOMAIN units' : units'[v].parent = F[v] \/ units'[v].parent = NoUnit
      BY <2>1, <2>4, <2>9, <2>11, <3>2 DEF Walked
    <3>4. Acyclic'
      <4> SUFFICES ASSUME NEW S \in SUBSET DOMAIN units', S # {}
                   PROVE  \E v \in S : units'[v].parent \notin S
        BY DEF Acyclic
      <4>1. S \in SUBSET born /\ NoUnit \notin S
        BY <1>2, <2>5, <2>9, OrgUnitsAssumption DEF OrgShape
      <4>. QED  BY <3>2, <3>3, <4>1 DEF Walked
    <3>5. \A q \in Turning : q # p => turns[q].kind # "update"
      BY <1>1, <1>2 DEF OrgInv, StillTree
    <3>6. \A q, r \in Turning' : turns'[q].kind = "update" /\ turns'[r].kind = "update" => q = r
      BY <2>10, <3>5
    <3>7. Uncrossed(next)'
      <4>1. \A r \in Waiting(next) : F[r.unit] = r.parent
        BY <2>8, <3>2 DEF Walked
      <4>2. Walked(next, F)'
        BY <1>2, <3>2, <3>3, <4>1 DEF Walked, Waiting
      <4>3. Walks(next)'
        BY <1>2, <3>2, <4>2 DEF Walks
      <4>. QED  BY <2>7, <4>3 DEF Uncrossed
    <3>8. ASSUME NEW q \in Turning' PROVE Uncrossed(turns[q])'
      <4>1. CASE q = p
        BY <2>10, <3>7, <4>1 DEF Uncrossed
      <4>2. CASE q # p
        BY <2>10, <3>5, <3>8, <4>2 DEF Uncrossed
      <4>. QED  BY <4>1, <4>2
    <3>. QED  BY <3>4, <3>6, <3>8
  <2>14. Alone'
    <3>1. ASSUME NEW q \in Turning', turns'[q].alone PROVE Turning' = {q} /\ Undisturbed(turns[q])'
      <4>1. q = p /\ Turning = {p} /\ Undisturbed(t)
        BY <1>1, <2>7, <2>10, <3>1 DEF OrgInv, Alone
      <4>2. t.unit \in DOMAIN units /\ ReadsStand(t)
        BY <1>2, <4>1 DEF Undisturbed
      <4>3. PICK P \in SUBSET Units : P = Pending(t) /\ (Endless(P) \/ Orderly(t, P))
        BY <1>2, <4>1 DEF Undisturbed
      <4>4. k \in DOMAIN units /\ units[k].slug = kid.slug /\ units[k].parent = kid.parent
        BY <2>1, <2>4, <4>2 DEF ReadsStand
      <4>5. /\ DOMAIN units' = DOMAIN units /\ units'[k].path = path
            /\ \A v \in DOMAIN units : v # k => units'[v] = units[v]
            /\ \A v \in DOMAIN units : units'[v].parent = units[v].parent /\ units'[v].slug = units[v].slug
        BY <2>9, <2>11, <4>4
      <4>6. \A x : KidsOf(x)' = KidsOf(x) /\ Below(x)' = Below(x)
        BY <4>5, SameTree
      <4>7. ReadsStand(next)'
        <5>1. \A r \in Waiting(next) : /\ r.unit \in DOMAIN units'
                                       /\ units'[r.unit].slug = r.slug /\ units'[r.unit].parent = r.parent
          BY <2>8, <4>2, <4>5 DEF ReadsStand
        <5>. QED  BY <2>7, <4>4, <4>5, <5>1 DEF ReadsStand
      <4>8. PICK Q : Q = {r.unit : r \in Waiting(next)} \cup KidsOf(k)
        OBVIOUS
      <4>9. Q \in SUBSET Units /\ Q = Pending(next)'
        <5>1. DOMAIN units \subseteq Units
          BY <1>2 DEF OrgShape
        <5>2. \A r \in Waiting(next) : r.unit \in Units
          BY <2>8, <4>2, <5>1 DEF ReadsStand
        <5>3. KidsOf(k) \subseteq Units
          BY <5>1 DEF KidsOf
        <5>4. KidsOf(next.node)' = KidsOf(k)
          <6>1. KidsOf(next.node)' = KidsOf(next.node)
            BY <4>5, SameTree
          <6>. QED  BY <2>7, <6>1
        <5>. QED  BY <2>7, <4>8, <5>2, <5>3, <5>4 DEF Pending
      <4>10. ASSUME Endless(P) PROVE Endless(Q)'
        <5>1. PICK C \in SUBSET Units : (\A x \in C : KidsOf(x) \cap C # {}) /\ P \cap C # {}
          BY <4>10 DEF Endless
        <5>2. PICK x \in C : x \in P
          BY <5>1
        <5>3. P = {r.unit : r \in Waiting(t)}
          BY <1>2, <4>3 DEF Pending
        <5>4. Q \cap C # {}
          <6>1. CASE x = k
            BY <4>8, <5>1, <6>1
          <6>2. CASE x # k
            <7>1. PICK r \in Waiting(t) : r.unit = x
              BY <5>2, <5>3
            <7>2. r \in Waiting(next)
              BY <2>1, <2>8, <6>2, <7>1
            <7>. QED  BY <4>8, <5>2, <7>1, <7>2
          <6>. QED  BY <6>1, <6>2
        <5>5. \A y \in C : KidsOf(y)' \cap C # {}
          BY <4>6, <5>1
        <5>. QED  BY <5>4, <5>5 DEF Endless
      <4>11. ASSUME Orderly(t, P) PROVE Orderly(next, Q)'
        <5>1. kid \notin Waiting(next)
          <6> SUFFICES ASSUME NEW i \in DOMAIN more, kid \in more[i] PROVE FALSE
            BY <2>7 DEF Waiting
          <6>1. i \in DOMAIN below /\ kid \in below[i]
            BY <2>6
          <6>2. \A j, l \in DOMAIN t.below : \A r \in t.below[j], s \in t.below[l] : r.unit = s.unit => j = l
            BY <4>11 DEF Orderly
          <6>3. i = Len(below)
            BY <1>3, <1>4, <2>4, <6>1, <6>2
          <6>. QED  BY <2>6, <6>3
        <5>2. \A i \in DOMAIN next.below : i \in DOMAIN t.below /\ next.below[i] \subseteq t.below[i]
          BY <1>3, <2>6, <2>7
        <5>. QED  BY <1>2, <2>1, <2>4, <2>7, <2>8, <4>2, <4>3, <4>5, <4>8, <4>11, <5>1, <5>2, WalkGoesOn
      <4>12. Undisturbed(next)'
        <5>1. \E R \in SUBSET Units : R = Pending(next)' /\ (Endless(R)' \/ Orderly(next, R)')
          BY <4>3, <4>9, <4>10, <4>11
        <5>2. t.unit \in DOMAIN units'
          BY <4>2, <4>5
        <5>. QED  BY <2>7, <4>7, <5>1, <5>2 DEF Undisturbed
      <4>. QED  BY <2>10, <4>1, <4>12 DEF Undisturbed
    <3>. QED  BY <3>1 DEF Alone
  <2>. QED  BY <2>12, <2>13, <2>14 DEF OrgInv
<1>. QED  BY <1>6, <1>7

-----------------------------------------------------------------------------

LEMMA OrgInitially == OrgInit => OrgInv
<1> SUFFICES ASSUME OrgInit PROVE OrgInv
  OBVIOUS
<1>1. /\ DOMAIN units \subseteq Units /\ \A u \in DOMAIN units : units[u] \in UnitRow
      /\ \A u \in DOMAIN units : units[u].parent \in DOMAIN units \cup {NoUnit}
      /\ Acyclic
  BY OrgUnitsAssumption DEF OrgInit, IsForest, Acyclic
<1>2. born = DOMAIN units /\ Turning = {} /\ crossed = FALSE
  BY DEF OrgInit, Turning
<1>3. ASSUME NEW u \in DOMAIN units PROVE units[u].slug \in Slugs /\ units[u].path \in Seq(Slugs)
  <2>1. PICK row \in UnitRow : row = units[u]
    BY <1>1
  <2>2. PICK n \in 1..MaxPath : row.path \in [1..n -> Slugs]
    BY <2>1 DEF UnitRow
  <2>3. row.path \in Seq(Slugs)
    BY <2>2, OrgUnitsAssumption, IsASeq
  <2>. QED  BY <2>1, <2>3 DEF UnitRow
<1>4. OrgShape
  BY <1>1, <1>2, <1>3 DEF OrgShape
<1>5. StillTree /\ Alone
  BY <1>1, <1>2 DEF StillTree, Alone
<1>. QED  BY <1>4, <1>5 DEF OrgInv

LEMMA OrgIdle ==
  ASSUME OrgInv, UNCHANGED orgVars PROVE OrgInv'
<1>1. /\ UNCHANGED <<units, born, crossed>> /\ Turning' = Turning
      /\ \A q \in Turning : turns'[q] = turns[q]
  BY DEF orgVars, Turning
<1>2. OrgShape'
  BY <1>1 DEF OrgInv, OrgShape, TurnFits
<1>3. StillTree'
  BY <1>1 DEF OrgInv, StillTree, Acyclic, Uncrossed, Climbed, Walks, Walked, Waiting
<1>4. ASSUME NEW q \in Turning', turns'[q].alone PROVE Turning' = {q} /\ Undisturbed(turns[q])'
  <2>1. PICK s : s = turns[q] /\ s = turns'[q]
    BY <1>1
  <2>2. Turning' = {q} /\ Undisturbed(s)
    BY <1>1, <1>4, <2>1 DEF OrgInv, Alone
  <2>3. Undisturbed(s)'
    BY <1>1, <2>2, UndisturbedStays
  <2>. QED  BY <2>1, <2>2, <2>3 DEF Undisturbed
<1>5. Alone'
  BY <1>4 DEF Alone
<1>. QED  BY <1>2, <1>3, <1>5 DEF OrgInv

LEMMA OrgStepKeeps == OrgInv /\ [OrgNext]_orgVars => OrgInv'
<1> SUFFICES ASSUME OrgInv, [OrgNext]_orgVars PROVE OrgInv'
  OBVIOUS
<1>1. ASSUME NEW p \in Slots, NEW u \in Units, NEW slug \in Slugs, RenameUnit(p, u, slug) PROVE OrgInv'
  BY <1>1, RenamingKeeps
<1>2. ASSUME NEW p \in Slots, NEW u \in Units, MoveToRoot(p, u) PROVE OrgInv'
  BY <1>2, RootingKeeps
<1>3. ASSUME NEW p \in Slots, NEW u \in Units, NEW parent \in Units, MoveUnit(p, u, parent) PROVE OrgInv'
  BY <1>3, MovingKeeps
<1>4. ASSUME NEW p \in Slots, NEW slug \in Slugs, NEW parent \in Parent, CreateUnit(p, slug, parent)
      PROVE  OrgInv'
  BY <1>4, CreatingKeeps
<1>5. ASSUME NEW p \in Turning, Climb(p) PROVE OrgInv'
  BY <1>5, ClimbingKeeps
<1>6. ASSUME NEW p \in Turning, SaveUnit(p) PROVE OrgInv'
  BY <1>6, UnitSavingKeeps
<1>7. ASSUME NEW p \in Turning, FindChildren(p) PROVE OrgInv'
  BY <1>7, FindingKeeps
<1>8. ASSUME NEW p \in Turning, SaveChild(p) PROVE OrgInv'
  BY <1>8, ChildKeeps
<1>9. ASSUME NEW p \in Turning, BreakTurn(p) PROVE OrgInv'
  BY <1>9, EndKeeps DEF BreakTurn
<1>10. ASSUME NEW p \in Slots, NEW u \in Units, RemoveUnit(p, u) PROVE OrgInv'
  BY <1>10, CountingKeeps
<1>11. ASSUME NEW p \in Turning, DeleteUnit(p) PROVE OrgInv'
  BY <1>11, DeletingKeeps
<1>. QED
  BY <1>1, <1>2, <1>3, <1>4, <1>5, <1>6, <1>7, <1>8, <1>9, <1>10, <1>11, OrgIdle DEF OrgNext

\* What the invariant says of a tree on which no two updates overlapped.
LEMMA TreeHasNoCycle == OrgInv => NoCycle
<1> SUFFICES ASSUME OrgInv, ~crossed, NEW u \in DOMAIN units, NEW v \in KidsOf(u) PROVE u \notin Below(v)
  BY DEF NoCycle
<1>1. Acyclic /\ DOMAIN units \subseteq Units
  BY DEF OrgInv, OrgShape, StillTree
<1>. QED  BY <1>1, NoneBelowItself

LEMMA TreeHasNoCycleNext == (OrgInv => NoCycle)'
BY TreeHasNoCycle, PTL

\* The last step of an update that nobody disturbed: nothing is pending.
LEMMA WalkEnds ==
  ASSUME OrgInv, NEW p \in Turning, FindChildren(p), p \notin Turning', turns[p].alone,
         NEW u, u = turns[p].unit
  PROVE  u \in DOMAIN units /\ \A v \in Below(u) : IsPath(v)
<1>1. PICK t : t = turns[p]
  OBVIOUS
<1>2. /\ TurnFits(t) /\ t.at = "find" /\ t.kind = "update" /\ Undisturbed(t)
  BY <1>1 DEF OrgInv, OrgShape, TurnFits, TurnRow, FindChildren, Alone
<1>3. PICK kids : kids = {[unit |-> v, slug |-> units[v].slug, parent |-> t.node, above |-> t.above] :
                            v \in KidsOf(t.node)}
  OBVIOUS
<1>4. kids = {} /\ t.below = <<>>
  <2>1. ASSUME NEW next, Turned(p, next) PROVE FALSE
    BY <2>1, GoingOn
  <2>. QED  BY <1>1, <1>3, <2>1 DEF FindChildren
<1>5. KidsOf(t.node) = {}
  <2> SUFFICES ASSUME NEW v \in KidsOf(t.node) PROVE FALSE
    OBVIOUS
  <2>1. PICK r : r = [unit |-> v, slug |-> units[v].slug, parent |-> t.node, above |-> t.above]
    OBVIOUS
  <2>2. r \in kids
    BY <1>3, <2>1
  <2>. QED  BY <1>4, <2>2
<1>6. Waiting(t) = {}
  BY <1>4 DEF Waiting
<1>7. Pending(t) = {}
  BY <1>5, <1>6 DEF Pending
<1>8. u \in DOMAIN units /\ Orderly(t, {})
  BY <1>1, <1>2, <1>7 DEF Undisturbed, Endless
<1>. QED  BY <1>1, <1>8 DEF Orderly

\* A deletion that takes parents away was overtaken by another request.
LEMMA OrphansAreOvertaken ==
  ASSUME OrgInv, [OrgNext]_orgVars, NEW u \in DOMAIN units \cap DOMAIN units',
         units[u].parent \notin DOMAIN units' \cup {NoUnit},
         NEW p \in Turning \ Turning'
  PROVE  ~turns[p].alone
<1>1. units[u].parent \in DOMAIN units \ DOMAIN units'
  BY DEF OrgInv, OrgShape
<1>2. PICK q \in Turning : DeleteUnit(q)
  <2>1. ASSUME DOMAIN units \subseteq DOMAIN units' PROVE FALSE
    BY <1>1, <2>1
  <2>2. CASE UNCHANGED units
    BY <2>1, <2>2
  <2>3. ASSUME NEW v, NEW row, units' = Written(v, row) PROVE FALSE
    BY <2>1, <2>3, RowWritten
  <2>. QED
    BY <2>2, <2>3, ZenonT(60)
    DEF OrgNext, orgVars, RenameUnit, MoveToRoot, MoveUnit, CreateUnit, RemoveUnit, StartTurn,
        Climb, FindChildren, BreakTurn, SaveUnit, SaveChild
<1>3. Turning' = Turning \ {q} /\ p = q
  BY <1>2, Ending DEF DeleteUnit
<1>4. DOMAIN units' = DOMAIN units \ {turns[p].unit} /\ turns[p].at = "delete"
  BY <1>2, <1>3 DEF DeleteUnit
<1>5. u \in KidsOf(turns[p].unit) /\ turns[p].kind = "remove"
  BY <1>1, <1>4 DEF KidsOf, OrgInv, OrgShape, TurnFits
<1>. QED  BY <1>5 DEF OrgInv, Alone, Undisturbed

\* assertNoCycle, refreshDescendantPaths, remove.  While no two updates overlap the tree stays a
\* tree, an update that nobody disturbs leaves every path at and below its unit right, and a
\* removal that nobody disturbs leaves no unit behind without its parent.
THEOREM TreesAreKept == OrgSpec => TreeIsKept
<1>1. OrgInit => OrgInv
  BY OrgInitially
<1>2. OrgInv /\ [OrgNext]_orgVars => OrgInv'
  BY OrgStepKeeps
<1>3. ASSUME OrgInv, OrgInv', [OrgNext]_orgVars
      PROVE  [/\ NoCycle'
              /\ \A p \in Turning, u \in Units :
                   FindChildren(p) /\ p \notin Turning' /\ turns[p].alone /\ u = turns[p].unit
                     => (u \in DOMAIN units /\ \A v \in Below(u) : IsPath(v))
              /\ \A u \in DOMAIN units \cap DOMAIN units' :
                   units[u].parent \notin DOMAIN units' \cup {NoUnit} =>
                     \A p \in Turning \ Turning' : ~turns[p].alone]_orgVars
  <2>1. NoCycle'
    BY <1>3, TreeHasNoCycleNext
  <2>2. ASSUME NEW p \in Turning, NEW u \in Units, FindChildren(p), p \notin Turning', turns[p].alone,
               u = turns[p].unit
        PROVE  u \in DOMAIN units /\ \A v \in Below(u) : IsPath(v)
    BY <1>3, <2>2, WalkEnds
  <2>3. ASSUME NEW u \in DOMAIN units \cap DOMAIN units',
               units[u].parent \notin DOMAIN units' \cup {NoUnit}, NEW p \in Turning \ Turning'
        PROVE  ~turns[p].alone
    BY <1>3, <2>3, OrphansAreOvertaken
  <2>. QED  BY <2>1, <2>2, <2>3
<1>. QED  BY <1>1, <1>2, <1>3, PTL DEF OrgSpec, TreeIsKept

-----------------------------------------------------------------------------
(* The types.  What OrgInv does not say yet are the bounds.                *)

RowsOK == \A u \in DOMAIN units : units[u] \in UnitRow

OrgBounds == RowsOK /\ Turning \subseteq Slots /\ asked \in 0..MaxTurns

LEMMA RowMade ==
  ASSUME NEW slug \in Slugs, NEW parent \in Parent, NEW path \in Seq(Slugs), path # <<>>,
         Len(path) <= MaxPath
  PROVE  [slug |-> slug, parent |-> parent, path |-> path] \in UnitRow
<1>1. Len(path) \in 1..MaxPath /\ path \in [1..Len(path) -> Slugs]
  BY OrgUnitsAssumption
<1>. QED  BY <1>1 DEF UnitRow

LEMMA RowsGrow ==
  ASSUME RowsOK, NEW u, NEW row \in UnitRow, units' = Written(u, row)
  PROVE  RowsOK'
<1>1. /\ DOMAIN units' = DOMAIN units \cup {u} /\ units'[u] = row
      /\ \A v \in DOMAIN units : v # u => units'[v] = units[v]
  BY RowWritten
<1>. QED  BY <1>1 DEF RowsOK

LEMMA BoundsMoveOn ==
  ASSUME OrgBounds, NEW p \in Turning, \/ EndTurn(p) \/ \E turn : Turned(p, turn),
         asked' = asked, RowsOK'
  PROVE  OrgBounds'
BY Ending, GoingOn DEF OrgBounds

LEMMA BoundsOfTurns ==
  ASSUME OrgBounds, NEW p \in Turning,
         Climb(p) \/ FindChildren(p) \/ BreakTurn(p)
  PROVE  OrgBounds'
<1>1. RowsOK' /\ asked' = asked
  BY DEF Climb, FindChildren, BreakTurn, OrgBounds, RowsOK
<1>2. EndTurn(p) \/ \E turn : Turned(p, turn)
  BY Zenon DEF Climb, FindChildren, BreakTurn
<1>. QED  BY <1>1, <1>2, BoundsMoveOn

LEMMA BoundsOfUnit ==
  ASSUME OrgInv, OrgBounds, NEW p \in Turning, SaveUnit(p)
  PROVE  OrgBounds'
<1>1. PICK t : t = turns[p] /\ t \in TurnRow
  BY DEF OrgInv, OrgShape, TurnFits
<1>2. asked' = asked /\ (EndTurn(p) \/ \E turn : Turned(p, turn))
  BY Zenon DEF SaveUnit
<1>3. RowsOK'
  <2>1. CASE UNCHANGED units
    BY <2>1 DEF OrgBounds, RowsOK
  <2>2. ASSUME NEW u, Len(t.above) < MaxPath,
               units' = Written(u, [slug |-> t.slug, parent |-> t.parent,
                                    path |-> Append(t.above, t.slug)])
        PROVE  RowsOK'
    <3>1. PICK path : path = Append(t.above, t.slug)
      OBVIOUS
    <3>2. path \in Seq(Slugs) /\ path # <<>> /\ Len(path) = Len(t.above) + 1
      BY <1>1, <3>1, AppendProperties DEF TurnRow
    <3>3. Len(t.above) \in Nat /\ t.slug \in Slugs /\ t.parent \in Parent
      BY <1>1, LenProperties DEF TurnRow
    <3>4. [slug |-> t.slug, parent |-> t.parent, path |-> path] \in UnitRow
      BY <2>2, <3>2, <3>3, OrgUnitsAssumption, RowMade
    <3>. QED  BY <2>2, <3>1, <3>4, RowsGrow DEF OrgBounds
  <2>. QED  BY <1>1, <2>1, <2>2 DEF SaveUnit
<1>. QED  BY <1>2, <1>3, BoundsMoveOn

LEMMA BoundsOfChild ==
  ASSUME OrgInv, OrgBounds, NEW p \in Turning, SaveChild(p)
  PROVE  OrgBounds'
<1>1. PICK t, last : t = turns[p] /\ t \in TurnRow /\ last = t.below[Len(t.below)] /\ t.below # <<>>
  BY DEF OrgInv, OrgShape, TurnFits, SaveChild
<1>2. \A kid \in last : kid \in KidRow
  <2>1. t.below \in Seq(SUBSET KidRow)
    BY <1>1 DEF TurnRow
  <2>2. Len(t.below) \in DOMAIN t.below
    BY <1>1, <2>1, EmptySeq, LenProperties
  <2>. QED  BY <1>1, <2>1, <2>2
<1>3. asked' = asked
  BY DEF SaveChild
<1>4. PICK kid \in last : \E path \in {Append(kid.above, kid.slug)} :
        \/ EndTurn(p) /\ UNCHANGED units
        \/ /\ Len(path) <= MaxPath /\ \E turn : Turned(p, turn)
           /\ units' = Written(kid.unit, [slug |-> kid.slug, parent |-> kid.parent, path |-> path])
  BY <1>1, Zenon DEF SaveChild
<1>5. RowsOK'
  <2>1. CASE UNCHANGED units
    BY <2>1 DEF OrgBounds, RowsOK
  <2>2. ASSUME NEW path, path = Append(kid.above, kid.slug), Len(path) <= MaxPath,
               units' = Written(kid.unit, [slug |-> kid.slug, parent |-> kid.parent, path |-> path])
        PROVE  RowsOK'
    <3>1. kid.above \in Seq(Slugs) /\ kid.slug \in Slugs /\ kid.parent \in Parent
      BY <1>2 DEF KidRow, Parent
    <3>2. path \in Seq(Slugs) /\ path # <<>>
      BY <2>2, <3>1, AppendProperties
    <3>3. [slug |-> kid.slug, parent |-> kid.parent, path |-> path] \in UnitRow
      BY <2>2, <3>1, <3>2, RowMade
    <3>. QED  BY <2>2, <3>3, RowsGrow DEF OrgBounds
  <2>. QED  BY <1>4, <2>1, <2>2
<1>6. EndTurn(p) \/ \E turn : Turned(p, turn)
  BY <1>4
<1>. QED  BY <1>3, <1>5, <1>6, BoundsMoveOn

LEMMA BoundsOfStart ==
  ASSUME OrgBounds, NEW p \in Slots, NEW turn, StartTurn(p, turn)
  PROVE  OrgBounds'
<1>1. Turning' = Turning \cup {p} /\ units' = units /\ asked < MaxTurns /\ asked' = asked + 1
  BY Starting DEF StartTurn
<1>. QED  BY <1>1, OrgUnitsAssumption DEF OrgBounds, RowsOK

LEMMA OrgBoundsHold == OrgInv /\ OrgBounds /\ [OrgNext]_orgVars => OrgBounds'
<1> SUFFICES ASSUME OrgInv, OrgBounds, [OrgNext]_orgVars PROVE OrgBounds'
  OBVIOUS
<1>1. CASE UNCHANGED orgVars
  BY <1>1 DEF orgVars, OrgBounds, RowsOK, Turning
<1>2. ASSUME NEW p \in Slots, NEW turn, StartTurn(p, turn) PROVE OrgBounds'
  BY <1>2, BoundsOfStart
<1>3. ASSUME NEW p \in Turning,
             Climb(p) \/ SaveUnit(p) \/ FindChildren(p) \/ SaveChild(p) \/ BreakTurn(p)
      PROVE  OrgBounds'
  BY <1>3, BoundsOfTurns, BoundsOfUnit, BoundsOfChild
<1>4. ASSUME NEW p \in Turning, DeleteUnit(p) PROVE OrgBounds'
  <2>1. EndTurn(p) /\ asked' = asked
    BY <1>4 DEF DeleteUnit
  <2>2. ASSUME NEW v \in DOMAIN units' PROVE units'[v] \in UnitRow
    <3>1. PICK row \in UnitRow : row = units[v]
      BY <1>4 DEF DeleteUnit, OrgBounds, RowsOK
    <3>2. PICK parent \in Parent :
            units'[v] = [slug |-> row.slug, path |-> row.path, parent |-> parent]
      BY <1>4, <3>1 DEF DeleteUnit, UnitRow, Parent
    <3>. QED  BY <3>2 DEF UnitRow
  <2>. QED  BY <2>1, <2>2, BoundsMoveOn DEF RowsOK
<1>. QED
  BY <1>1, <1>2, <1>3, <1>4 DEF OrgNext, RenameUnit, MoveToRoot, MoveUnit, CreateUnit, RemoveUnit

\* The rows, the requests and the bounds stay well formed, also on a cycle, where a path would
\* grow for ever.
LEMMA OrgTypes == OrgSpec => []OrgTypeOK
<1>1. OrgInit => OrgBounds
  <2> SUFFICES ASSUME OrgInit PROVE OrgBounds
    OBVIOUS
  <2>1. \A u \in DOMAIN units : units[u] \in UnitRow
    BY OrgUnitsAssumption DEF OrgInit, IsForest
  <2>. QED  BY <2>1, OrgUnitsAssumption DEF OrgInit, OrgBounds, RowsOK, Turning
<1>2. OrgInv /\ OrgBounds => OrgTypeOK
  <2> SUFFICES ASSUME OrgInv, OrgBounds PROVE OrgTypeOK
    OBVIOUS
  <2>1. \A p \in Turning : turns[p] \in TurnRow
    BY DEF OrgInv, OrgShape, TurnFits
  <2>. QED  BY <2>1 DEF OrgInv, OrgShape, OrgBounds, RowsOK, OrgTypeOK, TurnRow
<1>. QED  BY <1>1, <1>2, OrgInitially, OrgStepKeeps, OrgBoundsHold, PTL DEF OrgSpec
==============================================================================
