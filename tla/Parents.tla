------------------------------- MODULE Parents -------------------------------
(***************************************************************************)
(* The loops of types.rs along the parents. All of them have the form      *)
(* `while let Some(info) = self.types.get(&cur)`, and go on with           *)
(* cur = info.parent. up is the function from what has a parent to its     *)
(* parent. That the loops end is not theirs to see to: a loop that has not *)
(* ended after as many turns as up has members never does.                 *)
(***************************************************************************)
EXTENDS Integers, FiniteSets

\* cur after each turn of a loop that starts at t.
Cur(t, up) ==
  LET cur[k \in 0 .. Cardinality(DOMAIN up)] ==
        IF k = 0 THEN t
        ELSE IF cur[k - 1] \in DOMAIN up THEN up[cur[k - 1]] ELSE cur[k - 1]
  IN  cur

\* What cur comes by, and the first of it that is in S, if there is one.
OnWay(cur) == { cur[k] : k \in DOMAIN cur }

FirstAt(cur, found) == IF found = {} THEN <<>> ELSE <<cur[CHOOSE k \in found : \A j \in found : k <= j]>>
FirstIn(cur, S)      == FirstAt(cur, { k \in DOMAIN cur : cur[k] \in S })

\* Mutant: the last.
LastAt(cur, found) == IF found = {} THEN <<>> ELSE <<cur[CHOOSE k \in found : \A j \in found : j <= k]>>
LastIn(cur, S)     == LastAt(cur, { k \in DOMAIN cur : cur[k] \in S })

Passed(t, up) == OnWay(Cur(t, up))

\* Mutant: one turn.
InheritsDirectly(t, target, up) == t \in DOMAIN up /\ up[t] = target

\* conforms: some parent on the way is the target.
InheritsFrom(t, target, up) == \E u \in Passed(t, up) \intersect DOMAIN up : up[u] = target

Nearest(t, S, up) == FirstIn(Cur(t, up), S)

\* lookup_type_method: what the nearest on the way from t says of n, in what all say.
Said(owner, n, says)   == [k \in DOMAIN owner |-> says[owner[k]][n]]
Lookup(t, n, says, up) == Said(Nearest(t, { u \in DOMAIN says : n \in DOMAIN says[u] }, up), n, says)

\* Mutant: of what a and b have above them the last.
FarthestCommon(a, b, up) == LastIn(Cur(b, up), Passed(a, up))

\* lca: the first on the way from b that is on the way from a.
NearestCommon(a, b, up) == Nearest(b, Passed(a, up), up)
==============================================================================
