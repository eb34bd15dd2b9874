------------------------------ MODULE OrgUnits ------------------------------
(***************************************************************************)
(* The tree of organisational units.  A row has the name of its unit, its  *)
(* parent, and the path of names from the root, which the scopes of users  *)
(* are compared with.  An update reads the unit and its new parent, climbs *)
(* from there to the root to refuse a cycle, saves the unit, and goes down *)
(* the tree to write the paths again: each read and each save is a         *)
(* statement of its own, without a transaction.                            *)
(*                                                                         *)
(*   units    org_units; a path is a sequence of names                     *)
(*   turns    the requests that are between two statements                 *)
(*   born     the ids that were given                                      *)
(*   crossed  history: two updates overlapped                              *)
(*   asked    how many requests there have been                            *)
(*                                                                         *)
(* A save writes every column in which the copy differs from the row, so   *)
(* the whole copy; a unit that was deleted meanwhile is inserted again.    *)
(* The foreign key on the parent holds: none is saved under a parent that  *)
(* is gone, and when a unit is deleted its children lose their parent (ON  *)
(* DELETE SET NULL) but keep their paths.  A removal counts the children   *)
(* first, so that only those are left behind that came in between.  Left   *)
(* out: the type of a unit, and the users who keep it from being deleted.  *)
(***************************************************************************)
EXTENDS Naturals, Sequences

CONSTANTS Units, Slugs, NoUnit,
          FirstUnits,      \* the trees to start from
          Slots,           \* bound: requests in flight
          MaxTurns,        \* bound: requests in all
          MaxPath          \* bound: the length of a path, which grows for ever on a cycle

Parent  == Units \cup {NoUnit}
UnitRow == [slug : Slugs, parent : Parent, path : UNION {[1..n -> Slugs] : n \in 1..MaxPath}]

\* Every parent is there, and no unit is its own ancestor: of any units one has its parent elsewhere.
IsForest(rows) ==
  /\ DOMAIN rows \subseteq Units /\ \A u \in DOMAIN rows : rows[u] \in UnitRow
  /\ \A u \in DOMAIN rows : rows[u].parent \in DOMAIN rows \cup {NoUnit}
  /\ \A S \in SUBSET DOMAIN rows : S # {} => \E u \in S : rows[u].parent \notin S

ASSUME OrgUnitsAssumption ==
  /\ NoUnit \notin Units
  /\ MaxTurns \in Nat /\ MaxPath \in Nat
  /\ \A rows \in FirstUnits : IsForest(rows)

VARIABLES units, turns, born, crossed, asked

orgVars == <<units, turns, born, crossed, asked>>

Turning == DOMAIN turns

KidsOf(u) == {v \in DOMAIN units : units[v].parent = u}

\* buildPath: the name behind the path of the parent; a root has no parent and the path <<>> above.
PathAbove(u) == IF u = NoUnit THEN <<>> ELSE units[u].path

-----------------------------------------------------------------------------

\* One more request; whoever overlaps is not alone.
StartTurn(p, turn) ==
  /\ p \notin Turning /\ asked < MaxTurns
  /\ asked' = asked + 1
  /\ crossed' = (crossed \/ (turn.kind = "update" /\ \E q \in Turning : turns[q].kind = "update"))
  /\ turns' = [q \in Turning \cup {p} |->
                 IF q = p THEN [turn EXCEPT !.alone = Turning = {}]
                 ELSE [turns[q] EXCEPT !.alone = FALSE]]
  /\ UNCHANGED <<units, born>>

Turned(p, turn) == turns' = [turns EXCEPT ![p] = turn]
EndTurn(p)      == turns' = [q \in Turning \ {p} |-> turns[q]]

Turn(kind, at, u, slug, parent) ==
  [kind |-> kind, at |-> at, unit |-> u, slug |-> slug, parent |-> parent,
   above |-> PathAbove(parent), node |-> parent, below |-> <<>>, alone |-> TRUE]

\* update reads the unit, with the row of its parent.
RenameUnit(p, u, slug) ==
  u \in DOMAIN units /\ StartTurn(p, Turn("update", "save", u, slug, units[u].parent))

MoveToRoot(p, u) ==
  u \in DOMAIN units /\ StartTurn(p, Turn("update", "save", u, units[u].slug, NoUnit))

MoveUnit(p, u, parent) ==
  /\ u \in DOMAIN units /\ parent # u
  /\ StartTurn(p, [Turn("update", "parent", u, units[u].slug, NoUnit)
                     EXCEPT !.parent = parent, !.node = parent])

\* create reads the parent, if there is to be one.
CreateUnit(p, slug, parent) ==
  /\ parent \in DOMAIN units \cup {NoUnit}
  /\ StartTurn(p, Turn("create", "save", NoUnit, slug, parent))

\* Bug: only the new parent is compared with the unit.
ClimbOnce(p) ==
  /\ turns[p].at = "parent"
  /\ IF turns[p].node \notin DOMAIN units THEN EndTurn(p)
     ELSE Turned(p, [turns[p] EXCEPT !.above = units[turns[p].node].path, !.at = "save"])
  /\ UNCHANGED <<units, born, crossed, asked>>

\* The new parent, of which the path is taken, and then assertNoCycle: the parents above it.
\* One that is not found, or is the unit itself, ends the request.
Climb(p) ==
  LET t == turns[p]
  IN /\ t.at \in {"parent", "climb"}
     /\ IF t.node \notin DOMAIN units \/ t.node = t.unit THEN EndTurn(p)
        ELSE LET up == units[t.node].parent
             IN Turned(p, [t EXCEPT !.above = IF t.at = "parent" THEN units[t.node].path ELSE @,
                                    !.node = up,
                                    !.at = IF up = NoUnit THEN "save" ELSE "climb"])
     /\ UNCHANGED <<units, born, crossed, asked>>

\* remove counts the children...
RemoveUnit(p, u) ==
  /\ u \in DOMAIN units /\ KidsOf(u) = {}
  /\ StartTurn(p, Turn("remove", "delete", u, units[u].slug, units[u].parent))

Written(u, row) == [v \in DOMAIN units \cup {u} |-> IF v = u THEN row ELSE units[v]]

\* A save under a parent that is gone violates the foreign key.
SaveUnit(p) ==
  LET t == turns[p]
  IN /\ t.at = "save"
     /\ IF t.parent \notin DOMAIN units \cup {NoUnit} THEN EndTurn(p) /\ UNCHANGED <<units, born>>
        ELSE \E u \in IF t.kind = "create" THEN Units \ born ELSE {t.unit} :
               /\ Len(t.above) < MaxPath
               /\ units' = Written(u, [slug |-> t.slug, parent |-> t.parent,
                                       path |-> Append(t.above, t.slug)])
               /\ born' = born \cup {u}
               /\ IF t.kind = "create" THEN EndTurn(p)
                  ELSE Turned(p, [t EXCEPT !.at = "find", !.node = u,
                                           !.above = Append(@, t.slug)])
     /\ UNCHANGED <<crossed, asked>>

\* refreshDescendantPaths reads the children of the unit that was just saved...
FindChildren(p) ==
  LET t    == turns[p]
      kids == {[unit |-> v, slug |-> units[v].slug, parent |-> t.node, above |-> t.above] :
                 v \in KidsOf(t.node)}
  IN /\ t.at = "find"
     /\ IF kids # {} THEN Turned(p, [t EXCEPT !.at = "child", !.below = Append(@, kids)])
        ELSE IF t.below # <<>> THEN Turned(p, [t EXCEPT !.at = "child"])
        ELSE EndTurn(p)
     /\ UNCHANGED <<units, born, crossed, asked>>

\* ... saves one of them with its new path, and goes on with the children of that one first.
SaveChild(p) ==
  LET t    == turns[p]
      last == t.below[Len(t.below)]
      rest == SubSeq(t.below, 1, Len(t.below) - 1)
  IN /\ t.at = "child"
     /\ \E kid \in last :
          IF kid.parent \notin DOMAIN units THEN EndTurn(p) /\ UNCHANGED units
          ELSE LET path == Append(kid.above, kid.slug)
               IN /\ Len(path) <= MaxPath
                  /\ units' = Written(kid.unit, [slug |-> kid.slug, parent |-> kid.parent,
                                                 path |-> path])
                  /\ Turned(p, [t EXCEPT !.at = "find", !.node = kid.unit, !.above = path,
                                         !.below = IF last = {kid} THEN rest
                                                   ELSE Append(rest, last \ {kid})])
     /\ UNCHANGED <<born, crossed, asked>>

\* An error or a restart between two statements.
BreakTurn(p) ==
  /\ EndTurn(p)
  /\ UNCHANGED <<units, born, crossed, asked>>

\* ... and then deletes, whatever children there are by now: they become roots.
DeleteUnit(p) ==
  LET u == turns[p].unit
  IN /\ turns[p].at = "delete"
     /\ units' = [v \in DOMAIN units \ {u} |->
                    [slug |-> units[v].slug, path |-> units[v].path,
                     parent |-> IF units[v].parent = u THEN NoUnit ELSE units[v].parent]]
     /\ EndTurn(p)
     /\ UNCHANGED <<born, crossed, asked>>

-----------------------------------------------------------------------------

OrgInit ==
  /\ units \in FirstUnits
  /\ born = DOMAIN units
  /\ turns = [p \in {} |-> 0]
  /\ crossed = FALSE
  /\ asked = 0

OrgNext ==
  \/ \E p \in Slots :
       \/ \E u \in Units : \/ \E slug \in Slugs : RenameUnit(p, u, slug)
                           \/ MoveToRoot(p, u)
                           \/ \E parent \in Units : MoveUnit(p, u, parent)
                           \/ RemoveUnit(p, u)
       \/ \E slug \in Slugs, parent \in Parent : CreateUnit(p, slug, parent)
  \/ \E p \in Turning : \/ Climb(p) \/ SaveUnit(p) \/ FindChildren(p) \/ SaveChild(p)
                        \/ DeleteUnit(p) \/ BreakTurn(p)

OrgSpec == OrgInit /\ [][OrgNext]_orgVars

-----------------------------------------------------------------------------

OrgTypeOK ==
  /\ DOMAIN units \subseteq born /\ born \subseteq Units
  /\ \A u \in DOMAIN units : units[u] \in UnitRow
  /\ Turning \subseteq Slots
  /\ \A p \in Turning :
       /\ turns[p].kind \in {"update", "create", "remove"}
       /\ turns[p].at \in {"parent", "climb", "save", "find", "child", "delete"}
       /\ turns[p].slug \in Slugs /\ turns[p].parent \in Parent /\ turns[p].alone \in BOOLEAN
  /\ crossed \in BOOLEAN /\ asked \in 0..MaxTurns

\* A unit and the units below it.
Below(u) ==
  {v \in Units : \A S \in SUBSET Units : u \in S /\ (\A w \in S : KidsOf(w) \subseteq S) => v \in S}

IsPath(u) == units[u].path = Append(PathAbove(units[u].parent), units[u].slug)

\* As long as no two updates overlap, whatever is created and deleted meanwhile and wherever
\* requests fail, no unit gets below itself; on a cycle neither the climb of a later update nor
\* the refreshing of the paths would ever end.
NoCycle == crossed \/ \A u \in DOMAIN units : \A v \in KidsOf(u) : u \notin Below(v)

\* assertNoCycle, refreshDescendantPaths, remove.  No step makes a cycle; an update that nobody
\* disturbed leaves every path at and below its unit right, also those that an earlier update broke
\* when it failed half way, or that a removal left behind; and only a removal that overlapped with
\* another request leaves units behind, without their parent.
TreeIsKept ==
  [][/\ NoCycle'
     /\ \A p \in Turning, u \in Units :
          FindChildren(p) /\ p \notin Turning' /\ turns[p].alone /\ u = turns[p].unit
            => (u \in DOMAIN units /\ \A v \in Below(u) : IsPath(v))
     /\ \A u \in DOMAIN units \cap DOMAIN units' :
          units[u].parent \notin DOMAIN units' \cup {NoUnit} =>
            \A p \in Turning \ Turning' : ~turns[p].alone]_orgVars
=============================================================================
