------------------------ MODULE SplitsReceiversProofs ------------------------
(* Proofs, for any accounts, weights and documents, that rows say what the   *)
(* last accepted document says, within the rules, and that is_valid is right *)
(* for the splits it was computed for.                                       *)
(*                                                                           *)
(* An INSERT that is not refused has given each entry a key of its own, so a *)
(* receiver has one row, or two in a project.  If no receiver has two, the   *)
(* sorted pairs are a list that ids increase along, as in a configuration,   *)
(* and two such lists with the same pairs are equal.                         *)
EXTENDS SplitsReceivers, TLAPS, FiniteSetTheorems, SequenceTheorems, WellFoundedInduction

-----------------------------------------------------------------------------
(* Induction is by the least number that is an exception.                    *)
LEMMA LeastNumber ==
  ASSUME NEW T, T \subseteq Nat, T # {}
  PROVE  \E m \in T : \A k \in T : ~(k < m)
<1>1. PICK m \in T : \A k \in T : <<k, m>> \notin OpToRel(<, Nat)
  BY WFMin, NatLessThanWellFounded, Zenon
<1> QED BY <1>1, Zenon DEF OpToRel

-----------------------------------------------------------------------------
(* Sums over sets of two elements at most.                                   *)

(* The folds of MapThenSumSet, with the weights in a function.               *)
Any(s) == CHOOSE x \in s : TRUE
Sums(w, S, f) ==
  f = [s \in SUBSET S |-> IF s = {} THEN 0 ELSE w[Any(s)] + f[s \ {Any(s)}]]
SumOf(w, S) == LET f == CHOOSE f : Sums(w, S, f) IN f[S]

LEMMA RowSum ==
  ASSUME NEW S
  PROVE  MapThenSumSet(LAMBDA r : r.weight, S) = SumOf([r \in S |-> r.weight], S)
<1> DEFINE w == [r \in S |-> r.weight]
           Plain(f) == f = [s \in SUBSET S |->
             IF s = {} THEN 0 ELSE (Any(s).weight) + f[s \ {Any(s)}]]
<1>1. MapThenSumSet(LAMBDA r : r.weight, S) = (CHOOSE f : Plain(f))[S]
  BY DEF MapThenSumSet, MapThenFoldSet, Any
<1>2. \A f : Plain(f) <=> Sums(w, S, f)
  <2>1. \A s \in SUBSET S : s # {} => w[Any(s)] = Any(s).weight
    BY DEF Any
  <2> HIDE DEF w
  <2> TAKE f
  <2>2. [s \in SUBSET S |-> IF s = {} THEN 0 ELSE (Any(s).weight) + f[s \ {Any(s)}]] =
        [s \in SUBSET S |-> IF s = {} THEN 0 ELSE w[Any(s)] + f[s \ {Any(s)}]]
    BY <2>1
  <2> QED BY <2>2 DEF Sums
<1> HIDE DEF Plain, w
<1>3. (CHOOSE f : Plain(f)) = CHOOSE f : Sums(w, S, f)
  BY <1>2
<1> QED BY <1>1, <1>3 DEF SumOf, w

LEMMA ListSum ==
  ASSUME NEW c, NEW S
  PROVE  MapThenSumSet(LAMBDA i : c[i].weight, S) = SumOf([i \in S |-> c[i].weight], S)
<1> DEFINE w == [i \in S |-> c[i].weight]
           Plain(f) == f = [s \in SUBSET S |->
             IF s = {} THEN 0 ELSE (c[Any(s)].weight) + f[s \ {Any(s)}]]
<1>1. MapThenSumSet(LAMBDA i : c[i].weight, S) = (CHOOSE f : Plain(f))[S]
  BY DEF MapThenSumSet, MapThenFoldSet, Any
<1>2. \A f : Plain(f) <=> Sums(w, S, f)
  <2>1. \A s \in SUBSET S : s # {} => w[Any(s)] = c[Any(s)].weight
    BY DEF Any
  <2> HIDE DEF w
  <2> TAKE f
  <2>2. [s \in SUBSET S |-> IF s = {} THEN 0 ELSE (c[Any(s)].weight) + f[s \ {Any(s)}]] =
        [s \in SUBSET S |-> IF s = {} THEN 0 ELSE w[Any(s)] + f[s \ {Any(s)}]]
    BY <2>1
  <2> QED BY <2>2 DEF Sums
<1> HIDE DEF Plain, w
<1>3. (CHOOSE f : Plain(f)) = CHOOSE f : Sums(w, S, f)
  BY <1>2
<1> QED BY <1>1, <1>3 DEF SumOf, w

LEMMA EmptySum ==
  ASSUME NEW w
  PROVE  SumOf(w, {}) = 0
<1> DEFINE h == [s \in SUBSET {} |-> 0]
<1>1. Sums(w, {}, h)
  BY DEF Sums
<1>2. \A f : Sums(w, {}, f) => f[{}] = 0
  BY DEF Sums
<1> QED BY <1>1, <1>2 DEF SumOf

LEMMA PairSum ==
  ASSUME NEW w, NEW a, NEW b, w[a] \in Int, w[b] \in Int
  PROVE  SumOf(w, {a, b}) = IF a = b THEN w[a] ELSE w[a] + w[b]
<1> DEFINE S == {a, b}
           of(s) == (IF a \in s THEN w[a] ELSE 0) + (IF b \in s /\ b # a THEN w[b] ELSE 0)
           h == [s \in SUBSET S |-> of(s)]
<1>1. ASSUME NEW s \in SUBSET S, s # {}
      PROVE  Any(s) \in s /\ Any(s) \in {a, b} /\ s \ {Any(s)} \in SUBSET S
  BY <1>1 DEF Any
<1>2. Sums(w, S, h)
  <2>1. ASSUME NEW s \in SUBSET S
        PROVE  of(s) = IF s = {} THEN 0 ELSE w[Any(s)] + h[s \ {Any(s)}]
    <3>1. CASE s = {}
      BY <3>1
    <3>2. CASE s # {}
      <4>1. h[s \ {Any(s)}] = of(s \ {Any(s)})
        BY <1>1, <3>2
      <4>2. CASE Any(s) = a
        <5>1. a \in s
          BY <1>1, <3>2, <4>2
        <5> QED BY <3>2, <4>1, <4>2, <5>1
      <4>3. CASE Any(s) = b /\ a # b
        <5>1. b \in s
          BY <1>1, <3>2, <4>3
        <5> QED BY <3>2, <4>1, <4>3, <5>1
      <4> QED BY <1>1, <3>2, <4>2, <4>3
    <3> QED BY <3>1, <3>2
  <2>2. h = [s \in SUBSET S |-> IF s = {} THEN 0 ELSE w[Any(s)] + h[s \ {Any(s)}]]
    BY <2>1
  <2> HIDE DEF h
  <2> QED BY <2>2 DEF Sums
<1>3. ASSUME NEW f, Sums(w, S, f)
      PROVE  f[S] = IF a = b THEN w[a] ELSE w[a] + w[b]
  <2>1. \A s \in SUBSET S : f[s] = IF s = {} THEN 0 ELSE w[Any(s)] + f[s \ {Any(s)}]
    BY <1>3 DEF Sums
  <2>2. f[{}] = 0
    BY <2>1
  <2>3. \A x \in {a, b} : f[{x}] = w[x]
    <3> TAKE x \in {a, b}
    <3>1. Any({x}) = x /\ {x} \ {x} = {} /\ {x} \in SUBSET S /\ {x} # {}
      BY DEF Any
    <3>2. f[{x}] = w[x] + f[{}]
      BY <2>1, <3>1
    <3> QED BY <2>2, <3>2
  <2>4. CASE a = b
    BY <2>3, <2>4
  <2>5. CASE a # b
    <3>1. f[S] = w[Any(S)] + f[S \ {Any(S)}] /\ Any(S) \in {a, b}
      BY <1>1, <2>1
    <3>2. S \ {a} = {b} /\ S \ {b} = {a}
      BY <2>5
    <3>3. CASE Any(S) = a
      <4>1. f[S] = w[a] + f[{b}]
        BY <3>1, <3>2, <3>3
      <4> QED BY <2>3, <2>5, <4>1
    <3>4. CASE Any(S) = b
      <4>1. f[S] = w[b] + f[{a}]
        BY <3>1, <3>2, <3>4
      <4> QED BY <2>3, <2>5, <4>1
    <3> QED BY <3>1, <3>3, <3>4
  <2> QED BY <2>4, <2>5
<1>4. Sums(w, S, CHOOSE f : Sums(w, S, f))
  <2> HIDE DEF h
  <2> QED BY <1>2
<1> QED BY <1>3, <1>4 DEF SumOf

-----------------------------------------------------------------------------
(* Documents.                                                                *)

Accepted(kind, doc) ==
  doc \in Seq(Entries(kind)) /\ Admissible(doc) /\ ~DocumentRefused(kind, doc)
RowsOf(kind, doc) == {RowOf(kind, doc[i]) : i \in DOMAIN doc}

LEMMA EntryType ==
  ASSUME NEW kind \in SenderTypes, NEW e \in Entries(kind)
  PROVE  /\ e.id \in Ids /\ e.weight \in Weights /\ e.weight \in Nat
         /\ TypeOf[e.id] \in AccountTypes \ {"ecosystem_main_account"}
         /\ kind = "project" => e.list \in {"maintainers", "dependencies"}
         /\ kind # "project" => e.list = "recipients"
<1>1. /\ e.id \in Ids /\ e.weight \in Weights
      /\ kind = "project" => e.list \in {"maintainers", "dependencies"}
      /\ kind # "project" => e.list = "recipients"
  BY DEF Entries
<1> QED BY <1>1, SplitsAssumption

LEMMA RelationshipIs ==
  ASSUME NEW kind \in SenderTypes, NEW e
  PROVE  /\ kind = "project" => Relationship(kind, e) =
              IF e.list = "maintainers" THEN "project_maintainer" ELSE "project_dependency"
         /\ kind = "drip_list" => Relationship(kind, e) = "drip_list_receiver"
         /\ kind = "ecosystem_main_account" => Relationship(kind, e) =
              IF TypeOf[e.id] = "sub_list" THEN "sub_list_link" ELSE "ecosystem_receiver"
         /\ kind = "sub_list" => Relationship(kind, e) =
              IF TypeOf[e.id] = "sub_list" THEN "sub_list_link" ELSE "sub_list_receiver"
<1>1. CASE kind = "project"
  BY <1>1 DEF Relationship
<1>2. CASE kind = "drip_list"
  BY <1>2 DEF Relationship
<1>3. CASE kind = "ecosystem_main_account"
  BY <1>3 DEF Relationship
<1>4. CASE kind = "sub_list"
  BY <1>4 DEF Relationship
<1> QED BY <1>1, <1>2, <1>3, <1>4 DEF SenderTypes

(* An entry that is not refused becomes a row that keeps to the rules.       *)
LEMMA RowObeys ==
  ASSUME NEW kind \in SenderTypes, NEW e \in Entries(kind), ~EntryRefused(kind, e)
  PROVE  /\ RowOf(kind, e) \in Row
         /\ RowOf(kind, e).receiver = e.id /\ RowOf(kind, e).weight = e.weight
         /\ RowOf(kind, e).relationship = Relationship(kind, e)
         /\ <<kind, RowOf(kind, e).type, RowOf(kind, e).relationship>> \in SplitRules
<1> DEFINE type == IF e.list = "maintainers" THEN "address" ELSE TypeOf[e.id]
<1>1. /\ RowOf(kind, e).receiver = e.id /\ RowOf(kind, e).weight = e.weight
      /\ RowOf(kind, e).relationship = Relationship(kind, e)
      /\ RowOf(kind, e).type = type
  BY DEF RowOf
<1>2. /\ kind \in {"project", "drip_list", "ecosystem_main_account", "sub_list"}
      /\ e.id \in Ids /\ e.weight \in Weights
      /\ TypeOf[e.id] \in AccountTypes \ {"ecosystem_main_account"}
  BY EntryType DEF SenderTypes
<1>3. e.list # "maintainers" => AllowedReceiver(kind, TypeOf[e.id])
  BY DEF EntryRefused
<1>4. <<kind, type, Relationship(kind, e)>> \in SplitRules
  <2>1. CASE e.list = "maintainers"
    <3>1. kind = "project"
      BY <2>1, EntryType
    <3>2. Relationship(kind, e) = "project_maintainer"
      BY <2>1, <3>1, RelationshipIs
    <3> QED BY <2>1, <3>1, <3>2 DEF SplitRules
  <2>2. CASE e.list # "maintainers"
    <3>1. PICK r \in SplitRules : r[1] = kind /\ r[2] = TypeOf[e.id]
      BY <1>3, <2>2 DEF AllowedReceiver
    <3> DEFINE four == {"project", "address", "drip_list", "linked_identity"}
    <3>2. \/ kind = "project" /\ TypeOf[e.id] \in four
          \/ kind = "drip_list" /\ TypeOf[e.id] \in four
          \/ kind = "sub_list" /\ TypeOf[e.id] \in four \union {"sub_list"}
          \/ kind = "ecosystem_main_account" /\ TypeOf[e.id] \in {"project", "sub_list"}
      BY <1>2, <3>1 DEF SplitRules
    <3>3. CASE kind = "project" /\ TypeOf[e.id] \in four
      <4>1. Relationship(kind, e) = "project_dependency"
        BY <2>2, <3>3, RelationshipIs
      <4> QED BY <2>2, <3>3, <4>1 DEF SplitRules
    <3>4. CASE kind = "drip_list" /\ TypeOf[e.id] \in four
      <4>1. Relationship(kind, e) = "drip_list_receiver"
        BY <3>4, RelationshipIs
      <4> QED BY <2>2, <3>4, <4>1 DEF SplitRules
    <3>5. CASE kind = "sub_list" /\ TypeOf[e.id] \in four \union {"sub_list"}
      <4>1. Relationship(kind, e) =
              IF TypeOf[e.id] = "sub_list" THEN "sub_list_link" ELSE "sub_list_receiver"
        BY <3>5, RelationshipIs
      <4> QED BY <2>2, <3>5, <4>1 DEF SplitRules
    <3>6. CASE kind = "ecosystem_main_account" /\ TypeOf[e.id] \in {"project", "sub_list"}
      <4>1. Relationship(kind, e) =
              IF TypeOf[e.id] = "sub_list" THEN "sub_list_link" ELSE "ecosystem_receiver"
        BY <3>6, RelationshipIs
      <4> QED BY <2>2, <3>6, <4>1 DEF SplitRules
    <3> QED BY <3>2, <3>3, <3>4, <3>5, <3>6
  <2> QED BY <2>1, <2>2
<1>5. RowOf(kind, e) \in Row
  <2>1. Relationship(kind, e) \in Relationships
    BY <1>2, RelationshipIs DEF Relationships
  <2>2. type \in AccountTypes
    BY <1>2 DEF AccountTypes
  <2> QED BY <1>2, <2>1, <2>2 DEF RowOf, Row
<1> HIDE DEF type
<1> QED BY <1>1, <1>4, <1>5

(* Each entry of an accepted document has a row, with a key of its own.      *)
LEMMA AcceptedRows ==
  ASSUME NEW kind \in SenderTypes, NEW doc, Accepted(kind, doc)
  PROVE  /\ ReplacedRows(kind, doc) = RowsOf(kind, doc)
         /\ \A i \in DOMAIN doc : doc[i] \in Entries(kind) /\ ~EntryRefused(kind, doc[i])
         /\ \A i, j \in DOMAIN doc :
              Key(RowOf(kind, doc[i])) = Key(RowOf(kind, doc[j])) => i = j
<1>1. \A i \in DOMAIN doc : doc[i] \in Entries(kind) /\ ~EntryRefused(kind, doc[i])
  BY DEF Accepted, DocumentRefused
<1>2. \A i, j \in DOMAIN doc : Key(RowOf(kind, doc[i])) = Key(RowOf(kind, doc[j])) => i = j
  BY DEF Accepted, DocumentRefused, InsertRefused
<1>3. DOMAIN doc \subseteq Nat
  BY DEF Accepted
<1>4. {k \in DOMAIN doc : \A j \in DOMAIN doc :
         j > k => Key(RowOf(kind, doc[j])) # Key(RowOf(kind, doc[k]))} = DOMAIN doc
  BY <1>2, <1>3
<1>5. ReplacedRows(kind, doc) = RowsOf(kind, doc)
  BY <1>4 DEF ReplacedRows, RowsOf
<1> QED BY <1>1, <1>2, <1>5

(* Two entries may name one receiver in a project alone, and in its two      *)
(* lists.                                                                    *)
LEMMA NamedTwice ==
  ASSUME NEW kind \in SenderTypes, NEW doc, Accepted(kind, doc),
         NEW i \in DOMAIN doc, NEW j \in DOMAIN doc, i # j, doc[i].id = doc[j].id
  PROVE  /\ doc[i].list # doc[j].list
         /\ doc[i].list \in {"maintainers", "dependencies"}
         /\ doc[j].list \in {"maintainers", "dependencies"}
<1>1. /\ doc[i] \in Entries(kind) /\ doc[j] \in Entries(kind)
      /\ Key(RowOf(kind, doc[i])) # Key(RowOf(kind, doc[j]))
  BY AcceptedRows
<1>2. Relationship(kind, doc[i]) # Relationship(kind, doc[j])
  BY <1>1 DEF Key, RowOf
<1>3. kind = "project" /\ doc[i].list # doc[j].list
  BY <1>2, RelationshipIs DEF SenderTypes
<1> QED BY <1>1, <1>3, EntryType

-----------------------------------------------------------------------------
(* Payments.                                                                 *)

(* What a receiver is paid by rows, or by entries, that name it once or not  *)
(* at all.                                                                   *)
LEMMA RowPayment ==
  ASSUME NEW rs, rs \subseteq Row, NEW x \in Ids
  PROVE  /\ (\A r \in rs : r.receiver # x) => RowPayments(rs)[x] = 0
         /\ \A r, q \in rs : {s \in rs : s.receiver = x} = {r, q} =>
              RowPayments(rs)[x] = IF r = q THEN r.weight ELSE r.weight + q.weight
<1> DEFINE T == {s \in rs : s.receiver = x}
           w == [s \in T |-> s.weight]
<1>1. RowPayments(rs)[x] = SumOf(w, T)
  BY RowSum DEF RowPayments
<1>2. ASSUME \A r \in rs : r.receiver # x
      PROVE  RowPayments(rs)[x] = 0
  <2>1. T = {}
    BY <1>2
  <2> QED BY <1>1, <2>1, EmptySum
<1>3. ASSUME NEW r \in rs, NEW q \in rs, T = {r, q}
      PROVE  RowPayments(rs)[x] = IF r = q THEN r.weight ELSE r.weight + q.weight
  <2>1. w[r] = r.weight /\ w[q] = q.weight /\ r.weight \in Int /\ q.weight \in Int
    <3>1. r \in T /\ q \in T
      BY <1>3
    <3>2. r.weight \in Weights /\ q.weight \in Weights
      BY DEF Row
    <3>3. \A y \in Weights : y \in Int
      BY SplitsAssumption
    <3>4. w[r] = r.weight /\ w[q] = q.weight
      BY <3>1
    <3> QED BY <3>2, <3>3, <3>4
  <2> HIDE DEF w, T
  <2>2. SumOf(w, {r, q}) = IF r = q THEN w[r] ELSE w[r] + w[q]
    <3>1. w[r] \in Int /\ w[q] \in Int
      BY <2>1
    <3> QED BY <3>1, PairSum, Zenon
  <2> QED BY <1>1, <1>3, <2>1, <2>2
<1> QED BY <1>2, <1>3

LEMMA ListPayment ==
  ASSUME NEW c, NEW x \in Ids, \A i \in DOMAIN c : c[i].weight \in Nat
  PROVE  /\ (\A i \in DOMAIN c : c[i].id # x) => ListPayments(c)[x] = 0
         /\ \A i, j \in DOMAIN c : {k \in DOMAIN c : c[k].id = x} = {i, j} =>
              ListPayments(c)[x] = IF i = j THEN c[i].weight ELSE c[i].weight + c[j].weight
<1> DEFINE T == {k \in DOMAIN c : c[k].id = x}
           w == [k \in T |-> c[k].weight]
<1>1. ListPayments(c)[x] = SumOf(w, T)
  BY ListSum DEF ListPayments
<1>2. ASSUME \A i \in DOMAIN c : c[i].id # x
      PROVE  ListPayments(c)[x] = 0
  <2>1. T = {}
    BY <1>2
  <2> QED BY <1>1, <2>1, EmptySum
<1>3. ASSUME NEW i \in DOMAIN c, NEW j \in DOMAIN c, T = {i, j}
      PROVE  ListPayments(c)[x] = IF i = j THEN c[i].weight ELSE c[i].weight + c[j].weight
  <2>1. w[i] = c[i].weight /\ w[j] = c[j].weight /\ c[i].weight \in Int /\ c[j].weight \in Int
    BY <1>3
  <2> HIDE DEF w, T
  <2>2. SumOf(w, {i, j}) = IF i = j THEN w[i] ELSE w[i] + w[j]
    <3>1. w[i] \in Int /\ w[j] \in Int
      BY <2>1
    <3> QED BY <3>1, PairSum, Zenon
  <2> QED BY <1>1, <1>3, <2>1, <2>2
<1> QED BY <1>2, <1>3

(* The rows of an accepted document pay what it says.                        *)
LEMMA DocumentPaid ==
  ASSUME NEW kind \in SenderTypes, NEW doc, Accepted(kind, doc)
  PROVE  RowPayments(RowsOf(kind, doc)) = ListPayments(doc)
<1> DEFINE rs == RowsOf(kind, doc)
           row(i) == RowOf(kind, doc[i])
<1>1. /\ rs \subseteq Row
      /\ \A i \in DOMAIN doc : /\ row(i) \in rs
                               /\ row(i).receiver = doc[i].id /\ row(i).weight = doc[i].weight
                               /\ doc[i].weight \in Nat
      /\ \A r \in rs : \E i \in DOMAIN doc : r = row(i)
      /\ \A i, j \in DOMAIN doc : row(i) = row(j) => i = j
  <2>1. ASSUME NEW i \in DOMAIN doc
        PROVE  /\ row(i) \in Row /\ row(i).receiver = doc[i].id
               /\ row(i).weight = doc[i].weight /\ doc[i].weight \in Nat
    <3>1. doc[i] \in Entries(kind) /\ ~EntryRefused(kind, doc[i])
      BY AcceptedRows
    <3>2. /\ row(i) \in Row /\ row(i).receiver = doc[i].id
          /\ row(i).weight = doc[i].weight
      BY <3>1, RowObeys
    <3>3. doc[i].weight \in Nat
      BY <3>1, EntryType
    <3> QED BY <3>2, <3>3
  <2>2. \A i, j \in DOMAIN doc : row(i) = row(j) => i = j
    BY AcceptedRows
  <2> QED BY <2>1, <2>2 DEF RowsOf
<1> HIDE DEF rs, row
<1>2. ASSUME NEW x \in Ids
      PROVE  RowPayments(rs)[x] = ListPayments(doc)[x]
  <2>1. CASE \A i \in DOMAIN doc : doc[i].id # x
    <3>1. \A r \in rs : r.receiver # x
      BY <1>1, <2>1
    <3> QED BY <1>1, <2>1, <3>1, RowPayment, ListPayment
  <2>2. ASSUME NEW i \in DOMAIN doc, doc[i].id = x
        PROVE  RowPayments(rs)[x] = ListPayments(doc)[x]
    <3>1. \E j \in DOMAIN doc : {k \in DOMAIN doc : doc[k].id = x} = {i, j}
      <4>1. CASE \A k \in DOMAIN doc : doc[k].id = x => k = i
        <5>1. {k \in DOMAIN doc : doc[k].id = x} = {i, i}
          BY <2>2, <4>1
        <5> QED BY <5>1
      <4>2. ASSUME NEW j \in DOMAIN doc, doc[j].id = x, j # i
            PROVE  {k \in DOMAIN doc : doc[k].id = x} = {i, j}
        <5>1. ASSUME NEW k \in DOMAIN doc, doc[k].id = x, k # i, k # j
              PROVE  FALSE
          <6>1. doc[i].list # doc[j].list /\ doc[i].list # doc[k].list /\ doc[j].list # doc[k].list
            BY <2>2, <4>2, <5>1, NamedTwice
          <6>2. \A y \in {i, j, k} : doc[y].list \in {"maintainers", "dependencies"}
            BY <2>2, <4>2, <5>1, NamedTwice
          <6> QED BY <6>1, <6>2
        <5> QED BY <2>2, <4>2, <5>1
      <4> QED BY <4>1, <4>2
    <3>2. PICK j \in DOMAIN doc : {k \in DOMAIN doc : doc[k].id = x} = {i, j}
      BY <3>1
    <3>3. {r \in rs : r.receiver = x} = {row(i), row(j)}
      <4>1. \A k \in DOMAIN doc : doc[k].id = x <=> k = i \/ k = j
        BY <3>2
      <4> QED BY <1>1, <4>1
    <3>4. RowPayments(rs)[x] = IF row(i) = row(j) THEN row(i).weight
                                                   ELSE row(i).weight + row(j).weight
      BY <1>1, <3>3, RowPayment
    <3>5. ListPayments(doc)[x] = IF i = j THEN doc[i].weight
                                           ELSE doc[i].weight + doc[j].weight
      BY <1>1, <3>2, ListPayment
    <3> QED BY <1>1, <3>4, <3>5
  <2> QED BY <2>1, <2>2
<1>3. /\ RowPayments(rs) = [x \in Ids |-> RowPayments(rs)[x]]
      /\ ListPayments(doc) = [x \in Ids |-> ListPayments(doc)[x]]
  BY DEF RowPayments, ListPayments
<1>4. RowPayments(rs) = ListPayments(doc)
  BY <1>2, <1>3
<1> QED BY <1>4 DEF rs

-----------------------------------------------------------------------------
(* The comparison with the chain, when no receiver is named twice and no     *)
(* weight is zero.                                                           *)

Thin(rs) ==
  /\ rs \subseteq Row
  /\ \A r, q \in rs : r.receiver = q.receiver => r = q
  /\ \A r \in rs : r.weight > 0
  /\ IsFiniteSet(Pairs(rs))

LEMMA AcceptedThin ==
  ASSUME EnvAssumptions = Assumptions, NEW kind \in SenderTypes, NEW doc, Accepted(kind, doc)
  PROVE  Thin(RowsOf(kind, doc))
<1> DEFINE rs == RowsOf(kind, doc)
           row(i) == RowOf(kind, doc[i])
           pair(i) == [id |-> doc[i].id, weight |-> doc[i].weight]
<1>1. ASSUME NEW i \in DOMAIN doc
      PROVE  /\ row(i) \in Row /\ row(i).receiver = doc[i].id
             /\ row(i).weight = doc[i].weight /\ doc[i].weight > 0
  <2>1. doc[i] \in Entries(kind) /\ ~EntryRefused(kind, doc[i])
    BY AcceptedRows
  <2>2. doc[i].weight > 0
    BY DEF Accepted, Admissible, Assumptions
  <2> QED BY <2>1, <2>2, RowObeys
<1>2. ASSUME NEW i \in DOMAIN doc, NEW j \in DOMAIN doc, doc[i].id = doc[j].id
      PROVE  i = j
  <2>1. doc[i].list = doc[j].list
    BY <1>2 DEF Accepted, Admissible, Assumptions
  <2> QED BY <1>2, <2>1, NamedTwice
<1>3. DOMAIN doc = 1..Len(doc) /\ Len(doc) \in Nat
  BY DEF Accepted
<1> HIDE DEF row
<1>4. \A r : r \in rs <=> \E i \in DOMAIN doc : r = row(i)
  BY DEF RowsOf, row
<1> HIDE DEF rs
<1>5. IsFiniteSet(Pairs(rs))
  <2>1. \A p : p \in Pairs(rs) <=> \E i \in DOMAIN doc : p = pair(i)
    BY <1>1, <1>4 DEF Pairs
  <2> DEFINE f == [i \in 1..Len(doc) |-> pair(i)]
  <2>2. f \in Surjection(1..Len(doc), Pairs(rs))
    BY <1>3, <2>1 DEF Surjection
  <2>3. IsFiniteSet(1..Len(doc))
    BY <1>3, FS_Interval
  <2> HIDE DEF f
  <2> QED BY <2>2, <2>3, FS_Surjection
<1>6. Thin(rs)
  BY <1>1, <1>2, <1>4, <1>5 DEF Thin
<1> QED BY <1>6 DEF rs

(* The list holds the pairs, each once, by id.                               *)
LEMMA FormattedSorted ==
  ASSUME NEW rs, Thin(rs), NEW list \in Formatted(rs)
  PROVE  /\ Cardinality(Pairs(rs)) \in Nat
         /\ list \in [1..Cardinality(Pairs(rs)) -> Pairs(rs)]
         /\ \A i, j \in DOMAIN list : i < j => list[i].id < list[j].id
         /\ \A p \in Pairs(rs) : \E i \in DOMAIN list : list[i] = p
<1> DEFINE n == Cardinality(Pairs(rs))
<1>1. n \in Nat /\ IsFiniteSet(Pairs(rs)) /\ IsFiniteSet(1..n) /\ Cardinality(1..n) = n
  <2>1. n \in Nat /\ IsFiniteSet(Pairs(rs))
    BY FS_CardinalityType DEF Thin
  <2> HIDE DEF n
  <2> QED BY <2>1, FS_Interval
<1>2. /\ list \in [1..n -> Pairs(rs)]
      /\ \A i, j \in 1..n : i < j => list[i] # list[j] /\ list[i].id <= list[j].id
  BY DEF Formatted
<1>3. ASSUME NEW p \in Pairs(rs), NEW q \in Pairs(rs)
      PROVE  p.id \in Nat /\ (p.id = q.id => p = q)
  <2>1. PICK r \in rs : p = [id |-> r.receiver, weight |-> r.weight]
    BY DEF Pairs
  <2>2. PICK s \in rs : q = [id |-> s.receiver, weight |-> s.weight]
    BY DEF Pairs
  <2>3. r.receiver \in Ids
    BY DEF Thin, Row
  <2>4. p.id \in Nat
    BY <2>1, <2>3, SplitsAssumption
  <2> QED BY <2>1, <2>2, <2>4 DEF Thin
<1> HIDE DEF n
<1>4. \A i, j \in 1..n : i < j => list[i].id < list[j].id
  <2> TAKE i, j \in 1..n
  <2> HAVE i < j
  <2>1. list[i] \in Pairs(rs) /\ list[j] \in Pairs(rs)
    BY <1>2
  <2>2. list[i].id # list[j].id /\ list[i].id <= list[j].id
    BY <1>2, <1>3, <2>1
  <2>3. list[i].id \in Nat /\ list[j].id \in Nat
    BY <1>3, <2>1
  <2> QED BY <2>2, <2>3
<1>5. list \in Injection(1..n, Pairs(rs))
  <2>1. \A i, j \in 1..n : list[i] = list[j] => i = j
    BY <1>1, <1>2
  <2> QED BY <1>2, <2>1 DEF Injection, IsInjective
<1>6. list \in Surjection(1..n, Pairs(rs))
  <2>1. Cardinality(1..n) = Cardinality(Pairs(rs))
    BY <1>1 DEF n
  <2> QED BY <1>1, <1>5, <2>1, FS_Injection
<1>7. \A p \in Pairs(rs) : \E i \in 1..n : list[i] = p
  BY <1>6 DEF Surjection
<1>8. DOMAIN list = 1..n
  BY <1>2
<1> QED BY <1>1, <1>2, <1>4, <1>7, <1>8 DEF n

LEMMA ConfigSorted ==
  ASSUME NEW c \in Configs
  PROVE  \E n \in 0..MaxReceivers :
           /\ c \in [1..n -> [id : Ids, weight : Weights \ {0}]]
           /\ \A i, j \in 1..n : i < j => c[i].id < c[j].id
<1>1. /\ c \in UNION {[1..n -> [id : Ids, weight : Weights \ {0}]] : n \in 0..MaxReceivers}
      /\ \A i, j \in DOMAIN c : i < j => c[i].id < c[j].id
  BY DEF Configs
<1>2. PICK n \in 0..MaxReceivers : c \in [1..n -> [id : Ids, weight : Weights \ {0}]]
  BY <1>1
<1> QED BY <1>1, <1>2

(* A payment that is not zero is one of the pairs.                           *)
LEMMA RowsPay ==
  ASSUME NEW rs, Thin(rs), NEW x \in Ids, NEW v
  PROVE  v # 0 /\ RowPayments(rs)[x] = v <=> [id |-> x, weight |-> v] \in Pairs(rs)
<1>1. rs \subseteq Row /\ \A r \in rs : r.weight # 0
  BY DEF Thin
<1>2. [id |-> x, weight |-> v] \in Pairs(rs) <=> \E r \in rs : r.receiver = x /\ r.weight = v
  BY DEF Pairs
<1>3. CASE \A r \in rs : r.receiver # x
  BY <1>1, <1>2, <1>3, RowPayment
<1>4. ASSUME NEW r \in rs, r.receiver = x
      PROVE  v # 0 /\ RowPayments(rs)[x] = v <=> [id |-> x, weight |-> v] \in Pairs(rs)
  <2>1. \A q \in rs : q.receiver = x <=> q = r
    BY <1>4 DEF Thin
  <2>2. {q \in rs : q.receiver = x} = {r, r}
    BY <2>1
  <2>3. RowPayments(rs)[x] = r.weight
    BY <1>1, <2>2, RowPayment
  <2> QED BY <1>1, <1>2, <2>1, <2>3
<1> QED BY <1>3, <1>4

LEMMA ConfigPays ==
  ASSUME NEW c \in Configs, NEW x \in Ids, NEW v
  PROVE  v # 0 /\ ListPayments(c)[x] = v <=>
           \E i \in DOMAIN c : c[i] = [id |-> x, weight |-> v]
<1>1. PICK n \in 0..MaxReceivers :
        /\ c \in [1..n -> [id : Ids, weight : Weights \ {0}]]
        /\ \A i, j \in 1..n : i < j => c[i].id < c[j].id
  BY ConfigSorted
<1>2. DOMAIN c = 1..n /\ n \in Nat
  BY <1>1, SplitsAssumption
<1>3. \A i \in DOMAIN c : /\ c[i] = [id |-> c[i].id, weight |-> c[i].weight]
                          /\ c[i].weight \in Nat /\ c[i].weight # 0 /\ c[i].id \in Nat
  <2> TAKE i \in DOMAIN c
  <2>1. c[i] \in [id : Ids, weight : Weights \ {0}]
    BY <1>1
  <2>2. c[i].id \in Ids /\ c[i].weight \in Weights \ {0}
    BY <2>1
  <2> QED BY <2>1, <2>2, SplitsAssumption
<1>4. CASE \A i \in DOMAIN c : c[i].id # x
  BY <1>3, <1>4, ListPayment
<1>5. ASSUME NEW i \in DOMAIN c, c[i].id = x
      PROVE  v # 0 /\ ListPayments(c)[x] = v <=>
               \E k \in DOMAIN c : c[k] = [id |-> x, weight |-> v]
  <2>1. \A k \in DOMAIN c : c[k].id = x => k = i
    <3> TAKE k \in DOMAIN c
    <3>1. i < k => c[i].id < c[k].id
      BY <1>1, <1>2
    <3>2. k < i => c[k].id < c[i].id
      BY <1>1, <1>2
    <3>3. i \in Nat /\ k \in Nat /\ c[i].id \in Nat
      BY <1>2, <1>3
    <3> QED BY <1>5, <3>1, <3>2, <3>3
  <2>2. {k \in DOMAIN c : c[k].id = x} = {i, i}
    BY <1>5, <2>1
  <2>3. ListPayments(c)[x] = c[i].weight
    BY <1>3, <2>2, ListPayment
  <2> QED BY <1>3, <1>5, <2>1, <2>3
<1> QED BY <1>4, <1>5

(* Lists of the same pairs are the same list.                                *)
LEMMA SamePairs ==
  ASSUME NEW rs, Thin(rs), NEW list \in Formatted(rs), NEW c \in Configs
  PROVE  list = c <=> \A p : p \in Pairs(rs) <=> \E i \in DOMAIN c : c[i] = p
<1> DEFINE n == Cardinality(Pairs(rs))
<1>1. /\ n \in Nat /\ list \in [1..n -> Pairs(rs)] /\ DOMAIN list = 1..n
      /\ \A i, j \in 1..n : i < j => list[i].id < list[j].id
      /\ \A p \in Pairs(rs) : \E i \in 1..n : list[i] = p
  BY FormattedSorted
<1>2. PICK m \in 0..MaxReceivers :
        /\ c \in [1..m -> [id : Ids, weight : Weights \ {0}]]
        /\ \A i, j \in 1..m : i < j => c[i].id < c[j].id
  BY ConfigSorted
<1>3. m \in Nat /\ DOMAIN c = 1..m
  BY <1>2, SplitsAssumption
<1>4. ASSUME list = c
      PROVE  \A p : p \in Pairs(rs) <=> \E i \in DOMAIN c : c[i] = p
  BY <1>1, <1>4
<1>5. ASSUME \A p : p \in Pairs(rs) <=> \E i \in DOMAIN c : c[i] = p
      PROVE  list = c
  <2>1. \A i \in 1..m : c[i].id \in Nat
    BY <1>2, SplitsAssumption
  <2>2. c \in Bijection(1..m, Pairs(rs))
    <3>1. c \in [1..m -> Pairs(rs)]
      BY <1>2, <1>3, <1>5
    <3>2. \A i, j \in 1..m : c[i] = c[j] => i = j
      <4> TAKE i, j \in 1..m
      <4>1. i < j => c[i].id < c[j].id
        BY <1>2
      <4>2. j < i => c[j].id < c[i].id
        BY <1>2
      <4>3. i \in Nat /\ j \in Nat /\ c[i].id \in Nat
        BY <1>3, <2>1
      <4> QED BY <4>1, <4>2, <4>3
    <3>3. \A p \in Pairs(rs) : \E i \in 1..m : c[i] = p
      BY <1>3, <1>5
    <3> QED BY <3>1, <3>2, <3>3 DEF Bijection, Injection, IsInjective, Surjection
  <2>3. n = m
    BY <1>3, <2>2, FS_CountingElements DEF ExistsBijection
  <2> HIDE DEF n
  <2> DEFINE T == {i \in 1..n : list[i] # c[i]}
  <2>4. ASSUME T # {} PROVE FALSE
    <3>1. T \subseteq Nat
      OBVIOUS
    <3>2. PICK i \in T : \A k \in T : ~(k < i)
      <4> HIDE DEF T
      <4> QED BY <2>4, <3>1, LeastNumber
    <3>3. i \in 1..n /\ i \in Nat /\ list[i] # c[i]
      BY <1>1, <3>2
    <3>4. \A k \in 1..n : k < i => list[k] = c[k]
      BY <3>2
    <3>5. PICK j \in 1..n : c[j] = list[i]
      BY <1>1, <1>3, <1>5, <2>3, <3>3
    <3>6. PICK k \in 1..n : list[k] = c[i]
      BY <1>1, <1>3, <1>5, <2>3, <3>3
    <3>7. \A a, b \in 1..n : list[a] = list[b] => a = b
      <4> TAKE a, b \in 1..n
      <4>1. list[a].id \in Nat
        BY <1>1, <1>3, <1>5, <2>1
      <4>2. (a < b => list[a].id < list[b].id) /\ (b < a => list[b].id < list[a].id)
        BY <1>1
      <4>3. a \in Nat /\ b \in Nat
        BY <1>1
      <4> QED BY <4>1, <4>2, <4>3
    <3>8. \A a, b \in 1..n : c[a] = c[b] => a = b
      BY <2>2, <2>3 DEF Bijection, Injection, IsInjective
    <3>9. i < j /\ i < k
      <4>1. j # i /\ k # i
        BY <3>3, <3>5, <3>6
      <4>2. ~(j < i)
        BY <3>3, <3>4, <3>5, <3>7, <4>1
      <4>3. ~(k < i)
        BY <3>3, <3>4, <3>6, <3>8, <4>1
      <4>4. i \in Nat /\ j \in Nat /\ k \in Nat
        BY <1>1, <3>3
      <4> QED BY <4>1, <4>2, <4>3, <4>4
    <3>10. c[i].id < c[j].id /\ list[i].id < list[k].id
      BY <1>1, <1>2, <2>3, <3>3, <3>9
    <3>11. c[i].id \in Nat /\ c[j].id \in Nat
      BY <2>1, <2>3, <3>3
    <3> QED BY <3>5, <3>6, <3>10, <3>11
  <2>5. \A i \in 1..n : list[i] = c[i]
    BY <2>4
  <2> QED BY <1>1, <1>2, <2>3, <2>5
<1> QED BY <1>4, <1>5

(* The list is the configuration exactly when they pay the same.             *)
LEMMA VerdictRight ==
  ASSUME NEW rs, Thin(rs), NEW list \in Formatted(rs), NEW c \in Configs
  PROVE  list = c <=> RowPayments(rs) = ListPayments(c)
<1>1. /\ RowPayments(rs) = [x \in Ids |-> RowPayments(rs)[x]]
      /\ ListPayments(c) = [x \in Ids |-> ListPayments(c)[x]]
  BY DEF RowPayments, ListPayments
<1> DEFINE pair(x, v) == [id |-> x, weight |-> v]
           listed(p) == \E i \in DOMAIN c : c[i] = p
<1>2. \A x \in Ids : \A v : v # 0 /\ RowPayments(rs)[x] = v <=> pair(x, v) \in Pairs(rs)
  BY RowsPay
<1>3. \A x \in Ids : \A v : v # 0 /\ ListPayments(c)[x] = v <=> listed(pair(x, v))
  BY ConfigPays
<1>4. \A p : p \in Pairs(rs) \/ listed(p) => \E x \in Ids : \E v : p = pair(x, v)
  <2> TAKE p
  <2>1. ASSUME p \in Pairs(rs)
        PROVE  \E x \in Ids : \E v : p = pair(x, v)
    <3>1. PICK r \in rs : p = pair(r.receiver, r.weight)
      BY <2>1 DEF Pairs
    <3>2. r.receiver \in Ids
      BY DEF Thin, Row
    <3> QED BY <3>1, <3>2
  <2>2. ASSUME listed(p)
        PROVE  \E x \in Ids : \E v : p = pair(x, v)
    <3>1. PICK i \in DOMAIN c : c[i] = p
      BY <2>2
    <3>2. p \in [id : Ids, weight : Weights \ {0}]
      BY <3>1, ConfigSorted
    <3>3. p = pair(p.id, p.weight) /\ p.id \in Ids
      BY <3>2
    <3> QED BY <3>3
  <2> QED BY <2>1, <2>2
<1>5. list = c <=> \A p : p \in Pairs(rs) <=> listed(p)
  BY SamePairs
<1> HIDE DEF pair, listed
<1>6. (\A p : p \in Pairs(rs) <=> listed(p)) <=>
        \A x \in Ids : \A v : pair(x, v) \in Pairs(rs) <=> listed(pair(x, v))
  BY <1>4
<1>7. (\A x \in Ids : \A v : pair(x, v) \in Pairs(rs) <=> listed(pair(x, v))) <=>
        \A x \in Ids : RowPayments(rs)[x] = ListPayments(c)[x]
  BY <1>2, <1>3
<1> QED BY <1>1, <1>5, <1>6, <1>7

-----------------------------------------------------------------------------
(* The invariant: rows are always those of the last accepted document.       *)

Inv ==
  /\ sender \in SenderTypes
  /\ Accepted(sender, document)
  /\ rows = RowsOf(sender, document)
  /\ chain \in Configs
  /\ verdict \in [valid : BOOLEAN, against : Configs]
  /\ EnvAssumptions = Assumptions => ValidExactlyWhenPaid
  /\ steps \in 0..MaxSteps

LEMMA NoSplits == <<>> \in Configs
<1>1. <<>> \in [1..0 -> [id : Ids, weight : Weights \ {0}]] /\ 0 \in 0..MaxReceivers
  BY SplitsAssumption
<1> DEFINE none == <<>>
<1>2. DOMAIN none = {} /\ none \in [1..0 -> [id : Ids, weight : Weights \ {0}]]
  BY <1>1
<1> HIDE DEF none
<1>3. MapThenSumSet(LAMBDA i : none[i].weight, DOMAIN none) = 0
  <2> DEFINE w == [i \in DOMAIN none |-> none[i].weight]
  <2>1. MapThenSumSet(LAMBDA i : none[i].weight, DOMAIN none) = SumOf(w, DOMAIN none)
    BY ListSum
  <2> HIDE DEF w
  <2>2. SumOf(w, {}) = 0
    BY EmptySum
  <2> QED BY <1>2, <2>1, <2>2
<1>4. MapThenSumSet(LAMBDA i : none[i].weight, DOMAIN none) <= TotalWeight
  BY <1>3, SplitsAssumption
<1>5. none \in Configs
  BY <1>1, <1>2, <1>4 DEF Configs
<1> QED BY <1>5 DEF none

LEMMA Initial ==
  ASSUME Init
  PROVE  Inv
<1>1. /\ sender \in SenderTypes /\ rows = {} /\ chain = <<>> /\ document = <<>> /\ steps = 0
      /\ verdict = [valid |-> TRUE, against |-> <<>>]
  BY DEF Init, Undecided
<1>2. Accepted(sender, document)
  BY <1>1 DEF Accepted, Admissible, DocumentRefused, InsertRefused
<1>3. rows = RowsOf(sender, document)
  BY <1>1 DEF RowsOf
<1>4. verdict \in [valid : BOOLEAN, against : Configs] /\ chain \in Configs
  BY <1>1, NoSplits
<1>5. RowPayments(rows) = ListPayments(verdict.against)
  <2>1. RowPayments(rows) = ListPayments(document)
    BY <1>1, <1>2, <1>3, DocumentPaid
  <2> QED BY <1>1, <2>1
<1>6. verdict.valid
  BY <1>1
<1> QED BY <1>1, <1>2, <1>3, <1>4, <1>5, <1>6, SplitsAssumption DEF Inv, ValidExactlyWhenPaid

(* A verdict is right when it is given.                                      *)
LEMMA Validated ==
  ASSUME chain \in Configs, NEW kind \in SenderTypes, NEW doc, Accepted(kind, doc),
         Validate(RowsOf(kind, doc))
  PROVE  /\ verdict' \in [valid : BOOLEAN, against : Configs]
         /\ EnvAssumptions = Assumptions =>
              (verdict'.valid <=> RowPayments(RowsOf(kind, doc)) = ListPayments(verdict'.against))
<1> DEFINE rs == RowsOf(kind, doc)
<1>1. PICK list \in Formatted(rs) : verdict' = [valid |-> list = chain, against |-> chain]
  BY DEF Validate
<1>2. (list = chain) \in BOOLEAN
  OBVIOUS
<1>3. verdict' \in [valid : BOOLEAN, against : Configs]
  BY <1>1, <1>2
<1>4. verdict'.valid = (list = chain) /\ verdict'.against = chain
  BY <1>1
<1>5. ASSUME EnvAssumptions = Assumptions
      PROVE  list = chain <=> RowPayments(rs) = ListPayments(chain)
  <2>1. Thin(rs)
    BY <1>5, AcceptedThin
  <2> QED BY <2>1, VerdictRight
<1> HIDE DEF rs
<1>6. ASSUME EnvAssumptions = Assumptions
      PROVE  verdict'.valid <=> RowPayments(rs) = ListPayments(verdict'.against)
  BY <1>4, <1>5, <1>6
<1> QED BY <1>3, <1>6 DEF rs

LEMMA NextStep ==
  ASSUME Inv, [Next]_vars
  PROVE  Inv'
<1> USE DEF Inv
<1>1. CASE SetSplits
  <2>1. /\ chain' \in Configs /\ steps < MaxSteps /\ steps' = steps + 1
        /\ UNCHANGED <<sender, rows, verdict, document>>
    BY <1>1 DEF SetSplits
  <2>2. steps' \in 0..MaxSteps
    BY <2>1, SplitsAssumption
  <2> QED BY <2>1, <2>2 DEF ValidExactlyWhenPaid
<1>2. ASSUME NEW doc \in Documents, Admissible(doc), DescribeSplits(doc)
      PROVE  Inv'
  <2>1. Accepted(sender, doc)
    <3>1. PICK n \in 0..MaxReceivers : doc \in [1..n -> Entries(sender)]
      BY DEF Documents
    <3>2. doc \in Seq(Entries(sender))
      BY <3>1, SplitsAssumption
    <3> QED BY <1>2, <3>2 DEF Accepted, DescribeSplits
  <2>2. /\ rows' = RowsOf(sender, doc) /\ Validate(rows')
        /\ document' = doc /\ UNCHANGED <<sender, chain, steps>>
    BY <1>2, <2>1, AcceptedRows DEF DescribeSplits
  <2>3. Validate(RowsOf(sender, doc))
    BY <2>2 DEF Validate
  <2> QED BY <2>1, <2>2, <2>3, Validated DEF ValidExactlyWhenPaid
<1>3. CASE CheckSplits
  <2>1. Validate(RowsOf(sender, document)) /\ UNCHANGED <<sender, rows, chain, document, steps>>
    BY <1>3 DEF CheckSplits
  <2> QED BY <2>1, Validated DEF ValidExactlyWhenPaid
<1>4. CASE UNCHANGED vars
  BY <1>4 DEF vars, ValidExactlyWhenPaid
<1> QED BY <1>1, <1>2, <1>3, <1>4 DEF Next

LEMMA Invariant == Spec => []Inv
<1>1. Init => Inv
  BY Initial
<1>2. Inv /\ [Next]_vars => Inv'
  BY NextStep
<1> QED BY <1>1, <1>2, PTL DEF Spec

-----------------------------------------------------------------------------
(* The theorems.                                                             *)

(* Every variable stays in its set, and a key has one row.                   *)
THEOREM TypesStay == Spec => []TypeOK
<1>1. ASSUME Inv
      PROVE  TypeOK
  <2>1. \A r \in rows : \E i \in DOMAIN document : r = RowOf(sender, document[i])
    BY <1>1 DEF Inv, RowsOf
  <2>2. rows \subseteq Row
    <3> SUFFICES ASSUME NEW i \in DOMAIN document PROVE RowOf(sender, document[i]) \in Row
      BY <2>1
    <3>1. document[i] \in Entries(sender) /\ ~EntryRefused(sender, document[i])
      BY <1>1, AcceptedRows DEF Inv
    <3> QED BY <1>1, <3>1, RowObeys DEF Inv
  <2>3. \A r1, r2 \in rows :
          r1.receiver = r2.receiver /\ r1.relationship = r2.relationship => r1 = r2
    BY <1>1, <2>1, AcceptedRows DEF Inv, Key
  <2> QED BY <1>1, <2>2, <2>3 DEF Inv, TypeOK
<1> QED BY <1>1, Invariant, PTL

(* No handler stores a combination of types and relationship that            *)
(* splitRules.ts does not list.                                              *)
THEOREM RulesObeyed == Spec => []RowsObeyRules
<1>1. ASSUME Inv, NEW r \in rows
      PROVE  <<sender, r.type, r.relationship>> \in SplitRules
  <2>1. PICK i \in DOMAIN document : r = RowOf(sender, document[i])
    BY <1>1 DEF Inv, RowsOf
  <2>2. document[i] \in Entries(sender) /\ ~EntryRefused(sender, document[i])
    BY <1>1, AcceptedRows DEF Inv
  <2> QED BY <1>1, <2>1, <2>2, RowObeys DEF Inv
<1>2. Inv => RowsObeyRules
  BY <1>1 DEF RowsObeyRules
<1> QED BY <1>2, Invariant, PTL

(* The rows pay each receiver what the last accepted document says.          *)
THEOREM DocumentsPaid == Spec => []NothingMerged
<1>1. Inv => NothingMerged
  BY DocumentPaid DEF Inv, NothingMerged
<1> QED BY <1>1, Invariant, PTL

(* When no document names a receiver twice or a weight of zero, is_valid is  *)
(* right for the splits that it was computed for, whatever order the rows    *)
(* are read in.                                                              *)
THEOREM VerdictsRight ==
  ASSUME EnvAssumptions = Assumptions
  PROVE  Spec => []ValidExactlyWhenPaid
<1>1. Inv => ValidExactlyWhenPaid
  BY DEF Inv
<1> QED BY <1>1, Invariant, PTL
===============================================================================
