----------------------------- MODULE OrderProofs -----------------------------
(***************************************************************************)
(* Proofs about one order.  Copies are ordered by Leq, and OnUpdate takes  *)
(* the least upper bound of the two copies it merges.  So the copies of an *)
(* order form a join semilattice, and it does not matter in which order,   *)
(* how often and by which way packets arrive: nodes that have merged the   *)
(* same copies hold the same order.                                        *)
(***************************************************************************)
EXTENDS Order, TLAPS

Equivalent(a, b) == Leq(a, b) /\ Leq(b, a)

-----------------------------------------------------------------------------
(* Leq is a preorder. *)

LEMMA LeqReflexive ==
    ASSUME NEW a \in OrderRec
    PROVE  Leq(a, a)
BY DEF Leq, OrderRec, ElevId, NoElev, kElevs

LEMMA LeqTransitive ==
    ASSUME NEW a \in OrderRec, NEW b \in OrderRec, NEW c \in OrderRec,
           Leq(a, b), Leq(b, c)
    PROVE  Leq(a, c)
BY DEF Leq, OrderRec, OrderStatus, None, Requested, Confirmed, Clear, ElevId, NoElev, kElevs

(* Copies that are equivalent agree on everything that matters. *)
LEMMA EquivalentSame ==
    ASSUME NEW a \in OrderRec, NEW b \in OrderRec, Equivalent(a, b)
    PROVE  SameOrder(a, b) /\ a.mask = b.mask
BY DEF Equivalent, SameOrder, Leq, OrderRec, OrderStatus, None, Requested, Confirmed, Clear,
       ElevId, NoElev, kElevs

-----------------------------------------------------------------------------
(* Every operation returns an order. *)

LEMMA OnUpdateType ==
    ASSUME NEW o \in OrderRec, NEW r \in OrderRec
    PROVE  OnUpdate(o, r) \in OrderRec
BY DEF OnUpdate, Adopt, OrderRec

LEMMA ObserveType ==
    ASSUME NEW o \in OrderRec, NEW e \in ElevId
    PROVE  Observe(o, e) \in OrderRec
BY DEF Observe, OrderRec

LEMMA NextVersion ==
    ASSUME NEW o \in OrderRec
    PROVE  o.version + 1 \in Nat
<1>1. o.version \in Nat
    BY DEF OrderRec
<1> QED BY <1>1

LEMMA OnRequestType ==
    ASSUME NEW o \in OrderRec, NEW e \in ElevId
    PROVE  OnRequest(o, e) \in OrderRec
BY NextVersion DEF OnRequest, Observe, OrderRec, OrderStatus

LEMMA OnConfirmType ==
    ASSUME NEW o \in OrderRec, NEW e \in ElevId
    PROVE  OnConfirm(o, e) \in OrderRec
BY NextVersion DEF OnConfirm, OrderRec, OrderStatus

LEMMA OnClearType ==
    ASSUME NEW o \in OrderRec
    PROVE  OnClear(o) \in OrderRec
BY NextVersion DEF OnClear, OrderRec, OrderStatus

LEMMA OnResetType ==
    ASSUME NEW o \in OrderRec
    PROVE  OnReset(o) \in OrderRec
BY NextVersion DEF OnReset, OrderRec, OrderStatus

LEMMA OnReassignmentType ==
    ASSUME NEW o \in OrderRec, NEW e \in ElevId \cup {NoElev}
    PROVE  OnReassignment(o, e) \in OrderRec
BY NextVersion DEF OnReassignment, OrderRec

(* A node's own operations only ever make its copy larger. *)
LEMMA OperationsGrow ==
    ASSUME NEW o \in OrderRec, NEW e
    PROVE  /\ Leq(o, Observe(o, e))
           /\ Leq(o, OnRequest(o, e))
           /\ Leq(o, OnConfirm(o, e))
           /\ Leq(o, OnClear(o))
           /\ Leq(o, OnReset(o))
           /\ Leq(o, OnReassignment(o, e))
<1>1. Leq(o, o)
    BY LeqReflexive
<1>2. Leq(o, Observe(o, e))
    BY DEF Leq, Observe, OrderRec, ElevId, NoElev, kElevs
<1>3. Leq(o, OnRequest(o, e))
    BY <1>1 DEF Leq, OnRequest, Observe, OrderRec
<1>4. Leq(o, OnConfirm(o, e))
    BY <1>1 DEF Leq, OnConfirm, OrderRec
<1>5. Leq(o, OnClear(o)) /\ Leq(o, OnReset(o)) /\ Leq(o, OnReassignment(o, e))
    BY <1>1 DEF Leq, OnClear, OnReset, OnReassignment, OrderRec
<1> QED BY <1>2, <1>3, <1>4, <1>5

-----------------------------------------------------------------------------
(* The merge of two copies is an upper bound of both: neither what a node  *)
(* knew nor what it was told is lost.                                      *)
THEOREM MergeIsUpperBound ==
    ASSUME NEW o \in OrderRec, NEW r \in OrderRec
    PROVE  Leq(o, OnUpdate(o, r)) /\ Leq(r, OnUpdate(o, r))
<1> USE DEF OrderRec, OrderStatus, None, Requested, Confirmed, Clear, ElevId, NoElev, kElevs
<1>1. CASE r.version > o.version
    BY <1>1, LeqReflexive DEF OnUpdate, Leq
<1>2. CASE r.version < o.version
    BY <1>2, LeqReflexive DEF OnUpdate, Leq
<1>3. CASE r.version = o.version
    <2>1. CASE r.status > o.status \/ LowerIdWins(o, r)
        <3>1. OnUpdate(o, r) = Adopt(o, r)
            BY <1>3, <2>1 DEF OnUpdate
        <3> QED BY <1>3, <2>1, <3>1 DEF Adopt, LowerIdWins, Leq
    <2>2. CASE ~ (r.status > o.status \/ LowerIdWins(o, r))
        <3>1. OnUpdate(o, r) = [o EXCEPT !.mask = @ \cup r.mask]
            BY <1>3, <2>2 DEF OnUpdate
        <3> QED BY <1>3, <2>2, <3>1 DEF LowerIdWins, Leq
    <2> QED BY <2>1, <2>2
<1> QED BY <1>1, <1>2, <1>3

(* It is the least one: merging invents nothing. *)
THEOREM MergeIsLeast ==
    ASSUME NEW o \in OrderRec, NEW r \in OrderRec, NEW c \in OrderRec, Leq(o, c), Leq(r, c)
    PROVE  Leq(OnUpdate(o, r), c)
<1> USE DEF OrderRec, OrderStatus, None, Requested, Confirmed, Clear, ElevId, NoElev, kElevs
<1>1. CASE r.version > o.version
    BY <1>1 DEF OnUpdate
<1>2. CASE r.version < o.version
    BY <1>2 DEF OnUpdate
<1>3. CASE r.version = o.version
    <2>1. CASE r.status > o.status \/ LowerIdWins(o, r)
        <3>1. OnUpdate(o, r) = Adopt(o, r)
            BY <1>3, <2>1 DEF OnUpdate
        <3> QED BY <1>3, <2>1, <3>1 DEF Adopt, Leq
    <2>2. CASE ~ (r.status > o.status \/ LowerIdWins(o, r))
        <3>1. OnUpdate(o, r) = [o EXCEPT !.mask = @ \cup r.mask]
            BY <1>3, <2>2 DEF OnUpdate
        <3> QED BY <1>3, <3>1 DEF Leq
    <2> QED BY <2>1, <2>2
<1> QED BY <1>1, <1>2, <1>3

(* Two nodes that exchange their copies end up with the same order, *)
(* whichever of the two copies was there first.                     *)
THEOREM MergeCommutes ==
    ASSUME NEW o \in OrderRec, NEW r \in OrderRec
    PROVE  SameOrder(OnUpdate(o, r), OnUpdate(r, o))
<1>1. OnUpdate(o, r) \in OrderRec /\ OnUpdate(r, o) \in OrderRec
    BY OnUpdateType
<1>2. Leq(OnUpdate(o, r), OnUpdate(r, o))
    BY <1>1, MergeIsUpperBound, MergeIsLeast
<1>3. Leq(OnUpdate(r, o), OnUpdate(o, r))
    BY <1>1, MergeIsUpperBound, MergeIsLeast
<1> QED BY <1>1, <1>2, <1>3, EquivalentSame DEF Equivalent

(* Copies may arrive in any grouping and any order. *)
THEOREM MergeAssociates ==
    ASSUME NEW o \in OrderRec, NEW r \in OrderRec, NEW s \in OrderRec
    PROVE  SameOrder(OnUpdate(OnUpdate(o, r), s), OnUpdate(o, OnUpdate(r, s)))
<1> DEFINE or == OnUpdate(o, r)
           rs == OnUpdate(r, s)
           x  == OnUpdate(or, s)
           y  == OnUpdate(o, rs)
<1>1. or \in OrderRec /\ rs \in OrderRec
    BY OnUpdateType
<1>2. x \in OrderRec /\ y \in OrderRec
    <2> HIDE DEF or, rs
    <2> QED BY <1>1, OnUpdateType
<1>3. Leq(o, or) /\ Leq(r, or) /\ Leq(r, rs) /\ Leq(s, rs)
    BY MergeIsUpperBound
<1>4. Leq(or, x) /\ Leq(s, x) /\ Leq(o, y) /\ Leq(rs, y)
    <2> HIDE DEF or, rs
    <2> QED BY <1>1, MergeIsUpperBound
<1>5. Leq(x, y)
    <2>1. Leq(r, y) /\ Leq(s, y)
        <3> HIDE DEF or, rs, x, y
        <3> QED BY <1>1, <1>2, <1>3, <1>4, LeqTransitive
    <2>2. Leq(or, y)
        <3> HIDE DEF y
        <3> QED BY <1>2, <1>4, <2>1, MergeIsLeast
    <2> HIDE DEF or, y
    <2> QED BY <1>1, <1>2, <2>1, <2>2, MergeIsLeast
<1>6. Leq(y, x)
    <2>1. Leq(o, x) /\ Leq(r, x)
        <3> HIDE DEF or, rs, x, y
        <3> QED BY <1>1, <1>2, <1>3, <1>4, LeqTransitive
    <2>2. Leq(rs, x)
        <3> HIDE DEF x
        <3> QED BY <1>2, <1>4, <2>1, MergeIsLeast
    <2> HIDE DEF rs, x
    <2> QED BY <1>1, <1>2, <2>1, <2>2, MergeIsLeast
<1>7. SameOrder(x, y)
    <2> HIDE DEF x, y
    <2> QED BY <1>2, <1>5, <1>6, EquivalentSame DEF Equivalent
<1> QED BY <1>7

(* A packet that arrives twice, or whose content the node has overtaken, *)
(* changes nothing that matters.                                         *)
THEOREM MergeAbsorbs ==
    ASSUME NEW o \in OrderRec, NEW r \in OrderRec, Leq(r, o)
    PROVE  SameOrder(OnUpdate(o, r), o) /\ OnUpdate(o, r).mask = o.mask
<1>1. OnUpdate(o, r) \in OrderRec
    BY OnUpdateType
<1>2. Leq(o, OnUpdate(o, r))
    BY MergeIsUpperBound
<1>3. Leq(OnUpdate(o, r), o)
    BY LeqReflexive, MergeIsLeast
<1> QED BY <1>1, <1>2, <1>3, EquivalentSame DEF Equivalent

-----------------------------------------------------------------------------
(***************************************************************************)
(* The copies of one order read as one call, among nodes N that all wait   *)
(* for each other: o[n] is the copy that n holds, K are all copies, those  *)
(* in packets included.                                                    *)
(*                                                                         *)
(* Copies of the same version need not agree.  But every version that was  *)
(* reached has a kind, which says what its copies may be, and T[v] is the  *)
(* kind of version v up to the latest, top:                                *)
(*    "rest"    not requested, or requested by a node that did not reset   *)
(*    "ask"     requested by a node that had reset, or confirmed by one    *)
(*              that had not                                               *)
(*    "given"   confirmed                                                  *)
(*    "served"  cleared                                                    *)
(* What follows an "ask" is decided once: if one of its copies is          *)
(* confirmed, it can only be served, and the node that confirmed it is     *)
(* missing for good from the mask of the copies that still ask (Blocked).  *)
(* If all nodes were marked on it, nobody is left who could still confirm  *)
(* the version before (Granted).                                           *)
(***************************************************************************)
Kind == {"rest", "ask", "given", "served"}

Suits(s, k) == \/ k = "rest"   /\ s \in {None, Requested}
               \/ k = "ask"    /\ s \in {Requested, Confirmed}
               \/ k = "given"  /\ s = Confirmed
               \/ k = "served" /\ s = Clear

Follows(k, l) == \/ k = "rest"   /\ l = "ask"
                 \/ k = "ask"    /\ l \in {"given", "served"}
                 \/ k = "given"  /\ l = "served"
                 \/ k = "served" /\ l = "rest"

Asks(a, v)   == a.version = v /\ a.status = Requested
Grants(a, v) == a.version = v /\ a.status = Confirmed

Reached(a, v) == a.version > v \/ (a.version = v /\ a.status >= Requested)
Passed(a, v)  == a.version > v \/ (a.version = v /\ a.status > Requested)

Blocked(T, top, N, o, K, v) ==
    /\ v < top => T[v + 1] = "served"
    /\ \E c \in N : Passed(o[c], v) /\ \A a \in K : Asks(a, v) => c \notin a.mask

Granted(T, top, N, o, K, v) ==
    /\ v < top /\ T[v + 1] = "given"
    /\ \A a \in K : ~Grants(a, v)
    /\ \A n \in N : Reached(o[n], v)

Pending(top, K, v) == v = top /\ \A a \in K : ~Grants(a, v)

Decided(T, top, N, o, K) ==
    \A v \in 0 .. top : T[v] = "ask" =>
        Blocked(T, top, N, o, K, v) \/ Granted(T, top, N, o, K, v) \/ Pending(top, K, v)

(* Where the kind of the version is "ask", a marked node has seen it.      *)
Marked(T, N, o, K) ==
    \A a \in K : a.status = Requested /\ T[a.version] = "ask" =>
        \A e \in a.mask \cap N : Reached(o[e], a.version)

Leads(K, a) == a \in K /\ \A b \in K : NotBehind(a, b)

Copied(N, o, K) == /\ o \in [N -> OrderRec] /\ K \in SUBSET OrderRec
                   /\ \A n \in N : o[n] \in K

History(T, top, N, o, K) ==
    /\ Copied(N, o, K)
    /\ T \in [Nat -> Kind] /\ top \in Nat
    /\ \A v \in Nat : v < top => Follows(T[v], T[v + 1])
    /\ \A a \in K : a.version <= top /\ Suits(a.status, T[a.version])
    /\ Marked(T, N, o, K)
    /\ Decided(T, top, N, o, K)
    /\ \E n \in N : o[n].version = top /\ Leads(K, o[n])

CallInv(N, o, K) == \E T, top : History(T, top, N, o, K)

(* The call as the leading copy shows it, and what may become of it.       *)
Reading(s) == CASE s \in {None, Clear} -> "idle"
                [] s = Requested       -> "called"
                [] s = Confirmed       -> "accepted"

CallMoves(i, j) == i = j \/ <<i, j>> \in {<<"idle", "called">>, <<"called", "accepted">>,
                                          <<"accepted", "idle">>}

ReadingMoves(K, K2) ==
    \A a, b : Leads(K, a) /\ Leads(K2, b) => CallMoves(Reading(a.status), Reading(b.status))

(* An accepted call is answered only by a node that clears the latest      *)
(* copy; a is that node's copy before, x the one after.                    *)
AnsweredBy(K, K2, a, x) ==
    (\E b, c : /\ Leads(K, b)  /\ Reading(b.status) = "accepted"
               /\ Leads(K2, c) /\ Reading(c.status) = "idle")
        => /\ a.status = Confirmed /\ x.status = Clear
           /\ \A d \in K : d.version < x.version

LEMMA NotBehindTransitive ==
    ASSUME NEW a \in OrderRec, NEW b \in OrderRec, NEW c \in OrderRec,
           NotBehind(a, b), NotBehind(b, c)
    PROVE  NotBehind(a, c)
BY DEF NotBehind, OrderRec, OrderStatus, None, Requested, Confirmed, Clear

LEMMA StillReached ==
    ASSUME NEW a \in OrderRec, NEW b \in OrderRec, NotBehind(b, a), NEW v \in Nat
    PROVE  /\ Reached(a, v) => Reached(b, v)
           /\ Passed(a, v) => Passed(b, v)
BY DEF NotBehind, Reached, Passed, OrderRec, OrderStatus, None, Requested, Confirmed, Clear

(* Copies that lead are equal as far as version and status go.             *)
LEMMA LeadersAgree ==
    ASSUME NEW K \in SUBSET OrderRec, NEW a, NEW b, Leads(K, a), Leads(K, b)
    PROVE  a.version = b.version /\ a.status = b.status
BY DEF Leads, NotBehind, OrderRec, OrderStatus, None, Requested, Confirmed, Clear

(* Node n replaces its copy by x; some copies may disappear.               *)
Replaces(N, o, K, n, x, o2, K2) ==
    /\ n \in N /\ x \in OrderRec
    /\ o2 = [o EXCEPT ![n] = x]
    /\ K2 \subseteq K \cup {x} /\ \A m \in N : o2[m] \in K2

(* x is a copy of a version that was reached before, and takes nothing     *)
(* back that was decided about that version.                               *)
Fits(T, top, N, o, K, n, x) ==
    /\ x.version <= top /\ Suits(x.status, T[x.version])
    /\ NotBehind(x, o[n])
    /\ T[x.version] = "ask" /\ x.status = Requested =>
            \A e \in x.mask \cap N : e = n \/ \E a \in K : Asks(a, x.version) /\ e \in a.mask
    /\ T[x.version] = "ask" /\ x.status = Confirmed =>
            ~Reached(o[n], x.version) \/ \E a \in K : Grants(a, x.version)

LEMMA InsertKept ==
    ASSUME NEW N, NEW T, NEW top, NEW o, NEW K, History(T, top, N, o, K),
           NEW n, NEW x, NEW o2, NEW K2,
           Replaces(N, o, K, n, x, o2, K2), Fits(T, top, N, o, K, n, x)
    PROVE  History(T, top, N, o2, K2) /\ ReadingMoves(K, K2) /\ AnsweredBy(K, K2, o[n], x)
<1>1. /\ o \in [N -> OrderRec] /\ K \in SUBSET OrderRec /\ K2 \in SUBSET OrderRec
      /\ o2 \in [N -> OrderRec] /\ K2 \subseteq K \cup {x}
      /\ \A m \in N : o[m] \in K /\ o2[m] \in K2
      /\ T \in [Nat -> Kind] /\ top \in Nat
      /\ n \in N /\ x \in OrderRec
    BY DEF History, Copied, Replaces
<1>2. o2[n] = x /\ \A m \in N : m # n => o2[m] = o[m]
    BY <1>1 DEF Replaces
<1>3. Copied(N, o2, K2)
    BY <1>1 DEF Copied
<1>4. \A m \in N : NotBehind(o2[m], o[m])
    BY <1>1, <1>2 DEF Fits, NotBehind, OrderRec, OrderStatus, None, Requested, Confirmed, Clear
<1>5. ASSUME NEW m \in N, NEW v \in Nat
      PROVE  (Reached(o[m], v) => Reached(o2[m], v)) /\ (Passed(o[m], v) => Passed(o2[m], v))
    BY <1>1, <1>4, StillReached
<1>6. \A a \in K2 : a.version <= top /\ Suits(a.status, T[a.version])
    BY <1>1 DEF History, Fits
<1>7. x.version \in Nat /\ \A a \in K : a.version \in Nat
    BY <1>1 DEF OrderRec
<1>8. Marked(T, N, o2, K2)
    <2> SUFFICES ASSUME NEW a \in K2, a.status = Requested, T[a.version] = "ask",
                        NEW e \in a.mask \cap N
                 PROVE  Reached(o2[e], a.version)
        BY DEF Marked
    <2>1. CASE \E b \in K : Asks(b, a.version) /\ e \in b.mask
        <3>1. PICK b \in K : Asks(b, a.version) /\ e \in b.mask
            BY <2>1
        <3>2. Reached(o[e], b.version) /\ b.version = a.version /\ b.version \in Nat
            BY <3>1, <1>7 DEF History, Marked, Asks
        <3>3. Reached(o2[e], b.version)
            BY <3>2, <1>5
        <3> QED BY <3>2, <3>3
    <2>2. CASE ~ \E b \in K : Asks(b, a.version) /\ e \in b.mask
        <3>1. a = x /\ e = n
            BY <1>1, <2>2 DEF Asks, Fits
        <3> QED BY <3>1, <1>2, <1>7 DEF Reached, Requested
    <2> QED BY <2>1, <2>2
<1>9. ASSUME NEW v \in 0 .. top, T[v] = "ask"
      PROVE  Blocked(T, top, N, o2, K2, v) \/ Granted(T, top, N, o2, K2, v) \/ Pending(top, K2, v)
    <2>1. v \in Nat
        BY <1>1
    <2>2. CASE Blocked(T, top, N, o, K, v)
        <3>1. PICK c \in N : Passed(o[c], v) /\ \A a \in K : Asks(a, v) => c \notin a.mask
            BY <2>2 DEF Blocked
        <3>2. Passed(o2[c], v)
            BY <2>1, <3>1, <1>5
        <3>3. Asks(x, v) => c # n
            BY <2>1, <3>2, <1>2, <1>7 DEF Asks, Passed, Requested
        <3>4. Asks(x, v) => c \notin x.mask
            BY <1>9, <3>1, <3>3 DEF Asks, Fits
        <3>5. \A a \in K2 : Asks(a, v) => c \notin a.mask
            BY <1>1, <3>1, <3>4
        <3> QED BY <2>2, <3>2, <3>5 DEF Blocked
    <2>3. CASE Granted(T, top, N, o, K, v)
        <3>1. ~Grants(x, v)
            BY <1>1, <1>9, <2>3 DEF Granted, Grants, Fits
        <3> QED BY <2>1, <2>3, <3>1, <1>1, <1>5 DEF Granted
    <2>4. CASE Pending(top, K, v)
        <3>1. CASE ~Grants(x, v)
            BY <1>1, <2>4, <3>1 DEF Pending
        <3>2. CASE Grants(x, v)
            <4>1. ~Reached(o[n], v)
                BY <1>9, <2>4, <3>2 DEF Pending, Grants, Fits
            <4>2. \A a \in K : Asks(a, v) => n \notin a.mask
                BY <1>1, <4>1, <1>9 DEF History, Marked, Asks
            <4>3. Passed(o2[n], v)
                BY <3>2, <1>2 DEF Grants, Passed, Requested, Confirmed
            <4>4. ~Asks(x, v)
                BY <3>2 DEF Grants, Asks, Requested, Confirmed
            <4> QED BY <2>1, <2>4, <4>2, <4>3, <4>4, <1>1 DEF Blocked, Pending
        <3> QED BY <3>1, <3>2
    <2> QED BY <1>9, <2>2, <2>3, <2>4 DEF History, Decided
<1>10. PICK m \in N : o[m].version = top /\ Leads(K, o[m])
    BY DEF History
<1>11. \A b \in K : NotBehind(o2[m], b)
    BY <1>1, <1>4, <1>10, NotBehindTransitive DEF Leads
<1>12. PICK l \in N : o2[l].version = top /\ Leads(K2, o2[l])
    <2>1. CASE NotBehind(o2[m], x)
        <3>1. o2[m].version = top
            BY <1>1, <1>4, <1>6, <1>10 DEF NotBehind, OrderRec
        <3> QED BY <1>1, <1>11, <2>1, <3>1 DEF Leads
    <2>2. CASE ~NotBehind(o2[m], x)
        <3>1. NotBehind(x, o2[m]) /\ x.version >= o2[m].version
            <4>1. x \in OrderRec /\ o2[m] \in OrderRec
                BY <1>1
            <4> QED BY <2>2, <4>1 DEF NotBehind, OrderRec, OrderStatus, None, Requested, Confirmed, Clear
        <3>2. o2[m].version >= top
            BY <1>1, <1>4, <1>10 DEF NotBehind, OrderRec
        <3>3. x.version = top
            <4>1. x.version <= top /\ x.version \in Nat /\ o2[m].version \in Nat /\ top \in Nat
                BY <1>1 DEF Fits, OrderRec
            <4> QED BY <3>1, <3>2, <4>1
        <3>4. \A b \in K : NotBehind(x, b)
            BY <1>1, <1>11, <3>1, NotBehindTransitive
        <3>5. NotBehind(x, x)
            BY <1>1 DEF NotBehind, OrderRec, OrderStatus, None, Requested, Confirmed, Clear
        <3> QED BY <1>1, <1>2, <3>3, <3>4, <3>5 DEF Leads
    <2> QED BY <2>1, <2>2
<1>13. ReadingMoves(K, K2) /\ AnsweredBy(K, K2, o[n], x)
    <2> SUFFICES ASSUME NEW a, NEW b, Leads(K, a), Leads(K2, b)
                 PROVE  /\ CallMoves(Reading(a.status), Reading(b.status))
                        /\ ~(Reading(a.status) = "accepted" /\ Reading(b.status) = "idle")
        BY DEF ReadingMoves, AnsweredBy
    <2>1. a \in OrderRec /\ b \in OrderRec /\ a.version = top /\ b.version = top
        BY <1>1, <1>10, <1>12, LeadersAgree DEF Leads
    <2>2. NotBehind(b, o2[m]) /\ NotBehind(o2[m], a)
        BY <1>1, <1>11 DEF Leads
    <2>3. b.status >= a.status
        BY <1>1, <2>1, <2>2, NotBehindTransitive DEF NotBehind, OrderRec
    <2>4. Suits(a.status, T[top]) /\ Suits(b.status, T[top])
        BY <1>6, <2>1 DEF History, Leads
    <2> QED BY <2>3, <2>4 DEF Suits, Reading, CallMoves, None, Requested, Confirmed, Clear
<1> QED BY <1>1, <1>3, <1>6, <1>8, <1>9, <1>12, <1>13 DEF History, Decided

(* x is the first copy of a new version, of kind k, which its node made    *)
(* from a copy of the latest version.                                      *)
Extends(T, top, N, o, K, n, x, k) ==
    /\ o[n].version = top /\ x.version = top + 1
    /\ k \in Kind /\ Follows(T[top], k) /\ Suits(x.status, k)
    /\ x.status = Requested => x.mask \subseteq {n}
    /\ T[top] = "ask" /\ k = "served" => \E a \in K : Grants(a, top)
    /\ T[top] = "ask" /\ k = "given" => /\ \A a \in K : ~Grants(a, top)
                                        /\ \A m \in N : Reached(o[m], top)

LEMMA ExtendKept ==
    ASSUME NEW N, NEW T, NEW top, NEW o, NEW K, History(T, top, N, o, K),
           NEW n, NEW x, NEW o2, NEW K2, NEW k,
           Replaces(N, o, K, n, x, o2, K2), Extends(T, top, N, o, K, n, x, k)
    PROVE  /\ CallInv(N, o2, K2)
           /\ \A b : Leads(K2, b) => b.version = top + 1 /\ b.status = x.status
<1>1. /\ o \in [N -> OrderRec] /\ K \in SUBSET OrderRec /\ K2 \in SUBSET OrderRec
      /\ o2 \in [N -> OrderRec] /\ K2 \subseteq K \cup {x}
      /\ \A m \in N : o[m] \in K /\ o2[m] \in K2
      /\ T \in [Nat -> Kind] /\ top \in Nat
      /\ n \in N /\ x \in OrderRec
    BY DEF History, Copied, Replaces
<1>2. o2[n] = x /\ \A m \in N : m # n => o2[m] = o[m]
    BY <1>1 DEF Replaces
<1>3. Copied(N, o2, K2)
    BY <1>1 DEF Copied
<1>4. /\ o[n].version = top /\ x.version = top + 1
      /\ k \in Kind /\ Follows(T[top], k) /\ Suits(x.status, k)
      /\ x.status = Requested => x.mask \subseteq {n}
    BY DEF Extends
<1>5. \A a \in K : a.version \in Nat /\ a.version <= top
    BY <1>1 DEF History, OrderRec
<1>6. \A m \in N : NotBehind(o2[m], o[m])
    BY <1>1, <1>2, <1>4 DEF NotBehind, OrderRec, OrderStatus, None, Requested, Confirmed, Clear
<1>7. ASSUME NEW m \in N, NEW v \in Nat
      PROVE  (Reached(o[m], v) => Reached(o2[m], v)) /\ (Passed(o[m], v) => Passed(o2[m], v))
    BY <1>1, <1>6, StillReached
<1> DEFINE T2 == [T EXCEPT ![top + 1] = k]
<1>8. /\ T2 \in [Nat -> Kind] /\ T2[top + 1] = k
      /\ \A v \in Nat : v <= top => T2[v] = T[v]
    BY <1>1, <1>4
<1> HIDE DEF T2
<1>9. \A v \in Nat : v < top + 1 => Follows(T2[v], T2[v + 1])
    <2> SUFFICES ASSUME NEW v \in Nat, v < top + 1
                 PROVE  Follows(T2[v], T2[v + 1])
        OBVIOUS
    <2>1. CASE v = top
        BY <1>1, <1>4, <1>8, <2>1
    <2>2. CASE v < top
        <3>1. T2[v] = T[v] /\ T2[v + 1] = T[v + 1]
            BY <1>1, <1>8, <2>2
        <3> QED BY <2>2, <3>1 DEF History
    <2> QED BY <1>1, <2>1, <2>2
<1>10. \A a \in K2 : a.version <= top + 1 /\ Suits(a.status, T2[a.version])
    <2> SUFFICES ASSUME NEW a \in K2
                 PROVE  a.version <= top + 1 /\ Suits(a.status, T2[a.version])
        OBVIOUS
    <2>1. CASE a = x
        BY <1>1, <1>4, <1>8, <2>1
    <2>2. CASE a \in K
        <3>1. T2[a.version] = T[a.version]
            BY <1>5, <1>8, <2>2
        <3> QED BY <1>1, <1>5, <2>2, <3>1 DEF History
    <2> QED BY <1>1, <2>1, <2>2
<1>11. Marked(T2, N, o2, K2)
    <2> SUFFICES ASSUME NEW a \in K2, a.status = Requested, T2[a.version] = "ask",
                        NEW e \in a.mask \cap N
                 PROVE  Reached(o2[e], a.version)
        BY DEF Marked
    <2>1. CASE a = x
        <3>1. e = n
            BY <1>4, <2>1
        <3> QED BY <1>1, <1>2, <1>4, <2>1, <3>1 DEF Reached, Requested
    <2>2. CASE a \in K
        <3>1. a.version \in Nat /\ T[a.version] = "ask"
            BY <1>5, <1>8, <2>2
        <3>2. Reached(o[e], a.version)
            BY <2>2, <3>1 DEF History, Marked
        <3> QED BY <1>7, <3>1, <3>2
    <2> QED BY <1>1, <2>1, <2>2
<1>12. ASSUME NEW v \in 0 .. top + 1, T2[v] = "ask"
       PROVE  \/ Blocked(T2, top + 1, N, o2, K2, v) \/ Granted(T2, top + 1, N, o2, K2, v)
              \/ Pending(top + 1, K2, v)
    <2>1. v \in Nat
        BY <1>1
    <2>2. CASE v = top + 1
        <3>1. \A a \in K : ~Asks(a, v) /\ ~Grants(a, v)
            BY <1>1, <1>5, <2>2 DEF Asks, Grants
        <3>2. x.status \in {Requested, Confirmed}
            BY <1>4, <1>8, <1>12, <2>2 DEF Suits
        <3>3. CASE x.status = Requested
            BY <1>1, <2>2, <3>1, <3>3 DEF Pending, Grants, Requested, Confirmed
        <3>4. CASE x.status = Confirmed
            <4>1. Passed(o2[n], v) /\ ~Asks(x, v)
                BY <1>2, <1>4, <2>2, <3>4 DEF Passed, Asks, Requested, Confirmed
            <4>2. \A a \in K2 : Asks(a, v) => n \notin a.mask
                BY <1>1, <3>1, <4>1
            <4>3. ~ (v < top + 1)
                BY <1>1, <2>2
            <4> QED BY <1>1, <4>1, <4>2, <4>3 DEF Blocked
        <3> QED BY <3>2, <3>3, <3>4
    <2>3. CASE v <= top
        <3>1. T[v] = "ask" /\ v \in 0 .. top
            BY <1>1, <1>8, <1>12, <2>1, <2>3
        <3>2. ~Asks(x, v) /\ ~Grants(x, v)
            BY <1>1, <1>4, <2>1, <2>3 DEF Asks, Grants
        <3>3. v < top => T2[v + 1] = T[v + 1]
            BY <1>1, <1>8, <2>1
        <3>4. v < top + 1
            BY <1>1, <2>1, <2>3
        <3>5. CASE Blocked(T, top, N, o, K, v) /\ (v = top => k = "served")
            <4>1. PICK c \in N : Passed(o[c], v) /\ \A a \in K : Asks(a, v) => c \notin a.mask
                BY <3>5 DEF Blocked
            <4>2. Passed(o2[c], v) /\ \A a \in K2 : Asks(a, v) => c \notin a.mask
                BY <1>1, <1>7, <2>1, <3>2, <4>1
            <4>3. T2[v + 1] = "served"
                <5>1. CASE v = top
                    BY <1>8, <3>5, <5>1
                <5>2. CASE v < top
                    BY <3>3, <3>5, <5>2 DEF Blocked
                <5> QED BY <1>1, <2>1, <2>3, <5>1, <5>2
            <4> QED BY <4>2, <4>3 DEF Blocked
        <3>6. CASE Granted(T, top, N, o, K, v)
            <4>1. T2[v + 1] = "given"
                BY <3>3, <3>6 DEF Granted
            <4>2. (\A a \in K2 : ~Grants(a, v)) /\ \A m \in N : Reached(o2[m], v)
                BY <1>1, <1>7, <2>1, <3>2, <3>6 DEF Granted
            <4> QED BY <3>4, <4>1, <4>2 DEF Granted
        <3>7. CASE v = top /\ k = "given"
            <4>1. (\A a \in K : ~Grants(a, v)) /\ \A m \in N : Reached(o[m], v)
                BY <3>1, <3>7 DEF Extends
            <4>2. (\A a \in K2 : ~Grants(a, v)) /\ \A m \in N : Reached(o2[m], v)
                BY <1>1, <1>7, <2>1, <3>2, <4>1
            <4> QED BY <1>8, <3>4, <3>7, <4>2 DEF Granted
        <3>8. CASE v = top /\ k = "served" /\ Pending(top, K, v)
            BY <3>1, <3>8 DEF Extends, Pending
        <3>9. v = top => k \in {"given", "served"}
            BY <1>4, <3>1 DEF Follows
        <3>10. Blocked(T, top, N, o, K, v) \/ Granted(T, top, N, o, K, v) \/ Pending(top, K, v)
            BY <3>1 DEF History, Decided
        <3> QED BY <3>5, <3>6, <3>7, <3>8, <3>9, <3>10 DEF Pending
    <2> QED BY <1>1, <2>1, <2>2, <2>3
<1>13. Leads(K2, o2[n])
    <2>1. \A b \in K : NotBehind(x, b)
        BY <1>1, <1>4, <1>5 DEF NotBehind
    <2>2. NotBehind(x, x)
        BY <1>1 DEF NotBehind, OrderRec, OrderStatus, None, Requested, Confirmed, Clear
    <2> QED BY <1>1, <1>2, <2>1, <2>2 DEF Leads
<1>14. \A b : Leads(K2, b) => b.version = top + 1 /\ b.status = x.status
    BY <1>1, <1>2, <1>4, <1>13, LeadersAgree
<1>15. top + 1 \in Nat
    BY <1>1
<1>16. History(T2, top + 1, N, o2, K2)
    BY <1>1, <1>2, <1>3, <1>4, <1>8, <1>9, <1>10, <1>11, <1>12, <1>13, <1>15 DEF History, Decided
<1> QED BY <1>14, <1>16 DEF CallInv

(* A node takes its copy a one version further.                            *)
Advances(N, n, a, x) ==
    /\ x.version = a.version + 1
    /\ \/ a.status \in {None, Clear} /\ x.status = Requested /\ x.mask = {n}
       \/ a.status = Requested /\ x.status = Confirmed /\ N \subseteq a.mask \cup {n}
       \/ a.status = Confirmed /\ x.status = Clear
       \/ a.status = Clear /\ x.status = None

LEMMA BehindCatchesUp ==
    ASSUME NEW N, NEW T, NEW top, NEW o, NEW K, History(T, top, N, o, K),
           NEW n \in N, NEW x \in OrderRec, Advances(N, n, o[n], x), o[n].version < top
    PROVE  Fits(T, top, N, o, K, n, x)
<1> DEFINE a == o[n]
           v == a.version
<1>1. /\ a \in K /\ a \in OrderRec /\ v \in Nat /\ x.version = v + 1 /\ top \in Nat
      /\ v < top /\ T \in [Nat -> Kind] /\ K \in SUBSET OrderRec
    BY DEF History, Copied, OrderRec, Advances
<1>2. Suits(a.status, T[v]) /\ Follows(T[v], T[v + 1])
    BY <1>1 DEF History
<1>3. \/ a.status \in {None, Clear} /\ x.status = Requested /\ x.mask = {n}
      \/ a.status = Requested /\ x.status = Confirmed /\ N \subseteq a.mask \cup {n}
      \/ a.status = Confirmed /\ x.status = Clear
      \/ a.status = Clear /\ x.status = None
    BY DEF Advances
<1>4. T[v] = "ask" => Blocked(T, top, N, o, K, v) \/ Granted(T, top, N, o, K, v)
    <2>1. v \in 0 .. top /\ v # top
        BY <1>1
    <2> QED BY <2>1 DEF History, Decided, Pending
<1>5. T[v] = "ask" /\ a.status = Requested => T[v + 1] = "given"
    <2> SUFFICES ASSUME T[v] = "ask", a.status = Requested, Blocked(T, top, N, o, K, v)
                 PROVE  FALSE
        BY <1>4 DEF Granted
    <2>1. PICK c \in N : Passed(o[c], v) /\ \A b \in K : Asks(b, v) => c \notin b.mask
        BY DEF Blocked
    <2>2. c = n
        BY <1>1, <1>3, <2>1 DEF Asks, Requested, Confirmed, Clear, None
    <2>3. a.version = v /\ a.status = 1 /\ Passed(a, v)
        BY <1>1, <2>1, <2>2 DEF Requested
    <2> QED BY <1>1, <2>3 DEF Passed, Requested
<1>6. T[v] = "ask" /\ a.status = Confirmed => T[v + 1] = "served"
    BY <1>1, <1>4 DEF Blocked, Granted, Grants
<1>7. Suits(x.status, T[v + 1])
    BY <1>2, <1>3, <1>5, <1>6 DEF Suits, Follows, None, Requested, Confirmed, Clear
<1>8. NotBehind(x, a) /\ ~Reached(a, v + 1)
    BY <1>1 DEF NotBehind, Reached
<1>9. x.status = Requested => x.mask = {n}
    BY <1>3 DEF None, Requested, Confirmed, Clear
<1> QED BY <1>1, <1>7, <1>8, <1>9 DEF Fits

LEMMA LatestGoesOn ==
    ASSUME NEW N, NEW T, NEW top, NEW o, NEW K, History(T, top, N, o, K),
           NEW n \in N, NEW x \in OrderRec, Advances(N, n, o[n], x), o[n].version = top
    PROVE  /\ \E k \in Kind : Extends(T, top, N, o, K, n, x, k)
           /\ \A b : Leads(K, b) =>
                /\ CallMoves(Reading(b.status), Reading(x.status))
                /\ Reading(b.status) = "accepted" /\ Reading(x.status) = "idle"
                        => o[n].status = Confirmed /\ x.status = Clear
<1> DEFINE a == o[n]
<1>1. /\ a \in K /\ a \in OrderRec /\ a.version = top /\ x.version = top + 1 /\ top \in Nat
      /\ T \in [Nat -> Kind] /\ K \in SUBSET OrderRec
    BY DEF History, Copied, Advances
<1>2. Suits(a.status, T[top]) /\ T[top] \in Kind
    BY <1>1 DEF History
<1>3. \/ a.status \in {None, Clear} /\ x.status = Requested /\ x.mask = {n}
      \/ a.status = Requested /\ x.status = Confirmed /\ N \subseteq a.mask \cup {n}
      \/ a.status = Confirmed /\ x.status = Clear
      \/ a.status = Clear /\ x.status = None
    BY DEF Advances
<1>4. ASSUME T[top] = "ask", a.status = Requested
      PROVE  (\A b \in K : ~Grants(b, top)) /\ \A m \in N : Reached(o[m], top)
    <2>1. N \subseteq a.mask \cup {n}
        BY <1>3, <1>4 DEF None, Requested, Confirmed, Clear
    <2>2. ~Blocked(T, top, N, o, K, top)
        <3> SUFFICES ASSUME Blocked(T, top, N, o, K, top) PROVE FALSE
            OBVIOUS
        <3>1. PICK c \in N : Passed(o[c], top) /\ \A b \in K : Asks(b, top) => c \notin b.mask
            BY DEF Blocked
        <3>2. c = n
            BY <1>1, <1>4, <2>1, <3>1 DEF Asks
        <3>3. a.version = top /\ a.status = 1 /\ Passed(a, top)
            BY <1>1, <1>4, <3>1, <3>2 DEF Requested
        <3> QED BY <1>1, <3>3 DEF Passed, Requested
    <2>3. Pending(top, K, top)
        <3>1. top \in 0 .. top /\ ~ (top < top)
            BY <1>1
        <3> QED BY <1>4, <2>2, <3>1 DEF History, Decided, Granted
    <2>4. \A m \in N : Reached(o[m], top)
        <3>1. \A e \in a.mask \cap N : Reached(o[e], top)
            BY <1>1, <1>4 DEF History, Marked
        <3>2. Reached(a, top)
            BY <1>1, <1>4 DEF Reached, Requested
        <3> QED BY <2>1, <3>1, <3>2
    <2> QED BY <2>3, <2>4 DEF Pending
<1>5. a.status = Confirmed => \E b \in K : Grants(b, top)
    BY <1>1 DEF Grants
<1>6. \E k \in Kind : Extends(T, top, N, o, K, n, x, k)
    <2>1. CASE T[top] = "rest"
        <3>1. Suits(x.status, "ask") /\ (x.status = Requested => x.mask \subseteq {n})
            BY <1>2, <1>3, <2>1 DEF Suits, None, Requested, Confirmed, Clear
        <3>2. Extends(T, top, N, o, K, n, x, "ask")
            BY <1>1, <2>1, <3>1 DEF Extends, Kind, Follows
        <3> QED BY <3>2 DEF Kind
    <2>2. CASE T[top] = "ask" /\ a.status = Requested
        <3>1. x.status = Confirmed
            BY <1>3, <2>2 DEF None, Requested, Confirmed, Clear
        <3>2. Extends(T, top, N, o, K, n, x, "given")
            BY <1>1, <1>4, <2>2, <3>1 DEF Extends, Kind, Follows, Suits, Requested, Confirmed
        <3> QED BY <3>2 DEF Kind
    <2>3. CASE T[top] = "ask" /\ a.status # Requested
        <3>1. a.status = Confirmed /\ x.status = Clear
            BY <1>2, <1>3, <2>3 DEF Suits, None, Requested, Confirmed, Clear
        <3>2. Extends(T, top, N, o, K, n, x, "served")
            BY <1>1, <1>5, <2>3, <3>1 DEF Extends, Kind, Follows, Suits, Requested, Clear
        <3> QED BY <3>2 DEF Kind
    <2>4. CASE T[top] = "given"
        <3>1. x.status = Clear
            BY <1>2, <1>3, <2>4 DEF Suits, None, Requested, Confirmed, Clear
        <3>2. Extends(T, top, N, o, K, n, x, "served")
            BY <1>1, <2>4, <3>1 DEF Extends, Kind, Follows, Suits, Requested, Clear
        <3> QED BY <3>2 DEF Kind
    <2>5. CASE T[top] = "served"
        <3>1. Suits(x.status, "rest") /\ (x.status = Requested => x.mask \subseteq {n})
            BY <1>2, <1>3, <2>5 DEF Suits, None, Requested, Confirmed, Clear
        <3>2. Extends(T, top, N, o, K, n, x, "rest")
            BY <1>1, <2>5, <3>1 DEF Extends, Kind, Follows
        <3> QED BY <3>2 DEF Kind
    <2> QED BY <1>2, <2>1, <2>2, <2>3, <2>4, <2>5 DEF Kind
<1>7. ASSUME NEW b, Leads(K, b)
      PROVE  /\ CallMoves(Reading(b.status), Reading(x.status))
             /\ Reading(b.status) = "accepted" /\ Reading(x.status) = "idle"
                    => a.status = Confirmed /\ x.status = Clear
    <2>1. b \in K /\ b \in OrderRec /\ NotBehind(b, a)
        BY <1>1, <1>7 DEF Leads
    <2>2. b.version <= top /\ b.version \in Nat
        BY <2>1 DEF History, OrderRec
    <2>3. b.version = top /\ b.status >= a.status
        BY <1>1, <2>1, <2>2 DEF NotBehind
    <2>4. Suits(b.status, T[top])
        BY <2>1, <2>3 DEF History
    <2> QED BY <1>2, <1>3, <2>3, <2>4
            DEF Suits, Reading, CallMoves, None, Requested, Confirmed, Clear
<1> QED BY <1>6, <1>7

(* What a node may do to its copy: nothing, mark itself on a request,      *)
(* merge another copy, or advance.                                         *)
Moves(N, K, n, a, x) ==
    \/ x = a
    \/ a.status = Requested /\ x = Observe(a, n)
    \/ \E r \in K : x = OnUpdate(a, r)
    \/ Advances(N, n, a, x)

LEMMA RepeatFits ==
    ASSUME NEW N, NEW T, NEW top, NEW o, NEW K, History(T, top, N, o, K),
           NEW n \in N, NEW x \in OrderRec,
           x = o[n] \/ (o[n].status = Requested /\ x = Observe(o[n], n))
    PROVE  Fits(T, top, N, o, K, n, x)
<1>1. o[n] \in K /\ o[n] \in OrderRec
    BY DEF History, Copied
<1>2. /\ x.version = o[n].version /\ x.status = o[n].status /\ x.mask \subseteq o[n].mask \cup {n}
    BY <1>1 DEF Observe, OrderRec
<1>3. NotBehind(x, o[n])
    BY <1>1, <1>2 DEF NotBehind, OrderRec, OrderStatus, None, Requested, Confirmed, Clear
<1>4. o[n].version <= top /\ Suits(o[n].status, T[o[n].version])
    BY <1>1 DEF History
<1> QED BY <1>1, <1>2, <1>3, <1>4 DEF Fits, Asks, Grants

LEMMA MergeFits ==
    ASSUME NEW N, NEW T, NEW top, NEW o, NEW K, History(T, top, N, o, K),
           NEW n \in N, NEW r \in K
    PROVE  Fits(T, top, N, o, K, n, OnUpdate(o[n], r))
<1> DEFINE a == o[n]
           x == OnUpdate(a, r)
<1>1. a \in K /\ a \in OrderRec /\ r \in OrderRec /\ x \in OrderRec
    BY OnUpdateType DEF History, Copied
<1>2. /\ a.version <= top /\ Suits(a.status, T[a.version])
      /\ r.version <= top /\ Suits(r.status, T[r.version])
    BY <1>1 DEF History
<1>3. \/ x = r /\ r.version > a.version
      \/ x = a
      \/ /\ x.version = a.version /\ r.version = a.version /\ x.mask = a.mask \cup r.mask
         /\ \/ x.status = r.status /\ r.status > a.status
            \/ x.status = r.status /\ r.status = Confirmed /\ a.status = Confirmed
            \/ x.status = a.status /\ r.status <= a.status
    BY <1>1 DEF OnUpdate, Adopt, LowerIdWins, OrderRec, OrderStatus, None, Requested, Confirmed, Clear
<1> SUFFICES Fits(T, top, N, o, K, n, x)
    OBVIOUS
<1> HIDE DEF x
<1>4. CASE x = a
    BY <1>1, <1>4, RepeatFits
<1>5. CASE x = r /\ r.version > a.version
    BY <1>1, <1>2, <1>5 DEF Fits, Asks, Grants, NotBehind
<1>6. CASE /\ x.version = a.version /\ r.version = a.version /\ x.mask = a.mask \cup r.mask
           /\ \/ x.status = r.status /\ r.status > a.status
              \/ x.status = r.status /\ r.status = Confirmed /\ a.status = Confirmed
              \/ x.status = a.status /\ r.status <= a.status
    <2>1. NotBehind(x, a) /\ (x.status = a.status \/ x.status = r.status)
        BY <1>1, <1>6 DEF NotBehind, OrderRec, OrderStatus, None, Requested, Confirmed, Clear
    <2>2. T[x.version] = "ask" /\ x.status = Requested => a.status = Requested /\ r.status = Requested
        BY <1>1, <1>2, <1>6 DEF Suits, None, Requested, Confirmed, Clear
    <2>3. T[x.version] = "ask" /\ x.status = Requested =>
            \A e \in x.mask \cap N : \E b \in K : Asks(b, x.version) /\ e \in b.mask
        BY <1>1, <1>6, <2>2 DEF Asks
    <2>4. x.status = Confirmed => \E b \in K : Grants(b, x.version)
        BY <1>1, <1>6, <2>1 DEF Grants
    <2> QED BY <1>2, <1>6, <2>1, <2>3, <2>4 DEF Fits
<1> QED BY <1>3, <1>4, <1>5, <1>6

(* The copies go on to read as one call, which at most moves on.           *)
LEMMA MoveKept ==
    ASSUME NEW N, NEW o, NEW K, CallInv(N, o, K),
           NEW n \in N, NEW x \in OrderRec, NEW o2, NEW K2,
           Replaces(N, o, K, n, x, o2, K2), Moves(N, K, n, o[n], x)
    PROVE  CallInv(N, o2, K2) /\ ReadingMoves(K, K2) /\ AnsweredBy(K, K2, o[n], x)
<1>1. PICK T, top : History(T, top, N, o, K)
    BY DEF CallInv
<1>2. CASE Fits(T, top, N, o, K, n, x)
    BY <1>1, <1>2, InsertKept DEF CallInv
<1>3. CASE Advances(N, n, o[n], x) /\ o[n].version = top
    <2>1. PICK k \in Kind : Extends(T, top, N, o, K, n, x, k)
        BY <1>1, <1>3, LatestGoesOn
    <2>2. /\ CallInv(N, o2, K2)
          /\ \A b : Leads(K2, b) => b.version = top + 1 /\ b.status = x.status
        BY <1>1, <2>1, ExtendKept
    <2>3. \A b : Leads(K, b) =>
            /\ CallMoves(Reading(b.status), Reading(x.status))
            /\ Reading(b.status) = "accepted" /\ Reading(x.status) = "idle"
                    => o[n].status = Confirmed /\ x.status = Clear
        BY <1>1, <1>3, LatestGoesOn
    <2>4. \A d \in K : d.version < x.version
        BY <1>1, <1>3 DEF History, Copied, OrderRec, Advances
    <2>5. ReadingMoves(K, K2) /\ AnsweredBy(K, K2, o[n], x)
        BY <2>2, <2>3, <2>4 DEF ReadingMoves, AnsweredBy
    <2> QED BY <2>2, <2>5
<1>4. CASE Advances(N, n, o[n], x) /\ o[n].version # top
    <2>1. o[n].version < top
        BY <1>1, <1>4 DEF History, Copied, OrderRec
    <2> QED BY <1>1, <1>2, <1>4, <2>1, BehindCatchesUp
<1>5. CASE ~Advances(N, n, o[n], x)
    BY <1>1, <1>2, <1>5, RepeatFits, MergeFits DEF Moves
<1> QED BY <1>3, <1>4, <1>5
=============================================================================
