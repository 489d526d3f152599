---------------------------- MODULE ApprovalsProofs ----------------------------
(***************************************************************************)
(* Proofs about Approvals, for any limit, time to live, number of clients  *)
(* and of restarts.  The argument rests on the numbers: an item is used at *)
(* most once because a used item stays used and its number is never drawn  *)
(* again.  Within a run of the daemon that follows from the counter alone; *)
(* across a restart it needs the file, which is written after each change  *)
(* of the list and carries the counter with it.                            *)
(***************************************************************************)
EXTENDS Approvals, WellFoundedInduction, TLAPS

Unique(list) == \A i, j \in DOMAIN list : list[i].id = list[j].id => i = j

Below(list, n) == \A i \in DOMAIN list : list[i].id <= n

\* The types that TypeOK leaves open: the file, the bounds and the histories.
MoreTypes ==
    /\ file \in [counter : Nat, items : Seq(Item)]
    /\ requests \in 0 .. MaxRequests /\ counter <= requests
    /\ failures \in Nat /\ restarts \in Nat
    /\ granted \in [Id -> Nat] /\ named \in [Id -> Nat]
    /\ recent \in Seq(Id)

\* The numbers in the list were drawn and differ; so do those in the file.
NumbersOfItems ==
    /\ Unique(items) /\ Below(items, counter)
    /\ Unique(file.items) /\ Below(file.items, file.counter)

\* A number that a request has drawn and not used yet is nobody else's.
NumbersDrawn ==
    \A c \in Client :
        /\ drawn[c].id <= counter
        /\ drawn[c].id # 0 => /\ \A i \in DOMAIN items : items[i].id # drawn[c].id
                              /\ \A d \in Client : drawn[d].id = drawn[c].id => d = c

UsedIn(list, id) == \A i \in DOMAIN list : list[i].id = id => list[i].status = "used"

NotDrawn(id) == \A c \in Client : drawn[c].id # id

\* What was used in this run of the daemon is marked in the list.
RecentAreUsed ==
    \A k \in DOMAIN recent : recent[k] <= counter /\ NotDrawn(recent[k]) /\ UsedIn(items, recent[k])

\* As long as saving works the file is the list, and knows every number that
\* was returned or used.
FileIsCurrent ==
    failures = 0 => /\ file.items = items
                    /\ \A i \in Id : granted[i] > 0 \/ named[i] > 0
                                        => i <= file.counter /\ NotDrawn(i)

GrantedAreUsed == failures = 0 => \A i \in Id : granted[i] > 0 => UsedIn(items, i)

Inv ==
    /\ TypeOK /\ MoreTypes
    /\ NumbersOfItems /\ NumbersDrawn
    /\ RecentAreUsed /\ FileIsCurrent /\ GrantedAreUsed
    /\ OneGrantPerApproval /\ NumbersNotReused /\ OneGrantPerRun

-----------------------------------------------------------------------------
\* The helpers of the model.

\* A set of positions has a first one.
LEMMA LeastExists ==
    ASSUME NEW S \in SUBSET Nat, S # {}
    PROVE  \E x \in S : \A y \in S : x <= y
  <1> DEFINE R == OpToRel(<, Nat)
  <1>1. IsWellFoundedOn(R, Nat)
      BY NatLessThanWellFounded
  <1>2. \A p, q \in Nat : p < q => <<p, q>> \in R
      BY DEF OpToRel
  <1> HIDE DEF R
  <1>3. PICK x \in S : \A y \in S : ~ (<<y, x>> \in R)
      BY <1>1, WFMin
  <1>4. ASSUME NEW y \in S PROVE x <= y
    <2>1. x \in Nat /\ y \in Nat
        OBVIOUS
    <2>2. ~(y < x)
        BY <1>2, <1>3, <2>1
    <2> QED  BY <2>1, <2>2
  <1> QED  BY <1>4

\* The least index exists where there is one at all.
LEMMA MinIsLeast ==
    ASSUME NEW S \in SUBSET Nat, S # {}
    PROVE  Min(S) \in S
  BY LeastExists DEF Min

\* Where the loops of resolve and of consumeApproved stop.
FoundId(list, id) == SelectInSeq(list, LAMBDA x : x.id = id)

FoundApproved(list, a) == SelectInSeq(list, LAMBDA x : x.status = "approved" /\ x.action = a)

\* The loop of resolve stops at the item with the number, if there is one.
LEMMA ResolveFinds ==
    ASSUME NEW list, Len(list) \in Nat, NEW id
    PROVE  FoundId(list, id) # 0 => FoundId(list, id) \in 1 .. Len(list)
  <1> DEFINE I == {i \in 1 .. Len(list) : list[i].id = id}
  <1>1. FoundId(list, id) = IF I # {} THEN Min(I) ELSE 0
      BY DEF FoundId, SelectInSeq
  <1>2. I \subseteq Nat
      OBVIOUS
  <1> HIDE DEF I
  <1>3. I # {} => Min(I) \in I
      BY <1>2, MinIsLeast
  <1> QED  BY <1>1, <1>3 DEF I

\* The loop of consumeApproved stops at an approved item of the action.
LEMMA ConsumeFinds ==
    ASSUME NEW list, Len(list) \in Nat, NEW a
    PROVE  LET i == FoundApproved(list, a) IN
           i # 0 => i \in 1 .. Len(list) /\ list[i].status = "approved" /\ list[i].action = a
  <1> DEFINE I == {i \in 1 .. Len(list) : list[i].status = "approved" /\ list[i].action = a}
  <1>1. FoundApproved(list, a) = IF I # {} THEN Min(I) ELSE 0
      BY DEF FoundApproved, SelectInSeq
  <1>2. I \subseteq Nat
      OBVIOUS
  <1> HIDE DEF I
  <1>3. I # {} => Min(I) \in I
      BY <1>2, MinIsLeast
  <1> QED  BY <1>1, <1>3 DEF I

\* A list with the items of the present one, in the same places, of which those
\* that were used still are.
SameItems(list) ==
    /\ list \in Seq(Item) /\ Len(list) = Len(items)
    /\ \A i \in 1 .. Len(items) :
          /\ list[i].id = items[i].id
          /\ items[i].status = "used" => list[i].status = "used"

\* What TypeOK says of the list, in the form the proofs need.
LEMMA ItemsType ==
    ASSUME TypeOK
    PROVE  /\ items \in Seq(Item) /\ Len(items) \in Nat /\ Len(items) <= Limit
           /\ DOMAIN items = 1 .. Len(items)
           /\ \A i \in 1 .. Len(items) : items[i] \in Item
  <1>1. items \in Seq(Item) /\ Len(items) <= Limit
      BY DEF TypeOK
  <1> QED  BY <1>1

\* expireLocked changes nothing but the status of items that wait for a
\* resolution or a use and have run out.
LEMMA ExpireLockedItems ==
    ASSUME TypeOK, NEW t
    PROVE  /\ SameItems(ExpireLocked(t))
           /\ \A i \in 1 .. Len(items) :
                 ExpireLocked(t)[i].status = "approved"
                    => items[i].status = "approved" /\ ~Expires(items[i], t)
  <1> DEFINE E == ExpireLocked(t)
  <1>1. /\ items \in Seq(Item) /\ Len(items) \in Nat /\ DOMAIN items = 1 .. Len(items)
        /\ \A i \in 1 .. Len(items) : items[i] \in Item
      BY ItemsType
  <1>2. E = [i \in 1 .. Len(items) |-> Expired(items[i], t)]
      BY <1>1 DEF ExpireLocked
  <1>3. \A x \in Item : /\ Expired(x, t) \in Item /\ Expired(x, t).id = x.id
                        /\ x.status = "used" => Expired(x, t).status = "used"
                        /\ Expired(x, t).status = "approved" => x.status = "approved" /\ ~Expires(x, t)
      BY DEF Expired, Item
  <1> HIDE DEF E
  <1>4. E \in Seq(Item) /\ Len(E) = Len(items)
      BY <1>1, <1>2, <1>3
  <1> QED  BY <1>1, <1>2, <1>3, <1>4 DEF SameItems, E

\* A change of the status of one item that was not used.
LEMMA StatusChange ==
    ASSUME TypeOK, NEW list, SameItems(list), NEW i \in 1 .. Len(list), list[i].status # "used",
           NEW s \in {"approved", "rejected", "used"}
    PROVE  LET new == [list EXCEPT ![i].status = s] IN
           /\ SameItems(new)
           /\ new[i].status = s
  <1> DEFINE new == [list EXCEPT ![i].status = s]
  <1>1. /\ list \in Seq(Item) /\ Len(list) = Len(items) /\ Len(items) \in Nat
        /\ DOMAIN list = 1 .. Len(list) /\ list[i] \in Item
      BY ItemsType DEF SameItems
  <1>2. [list[i] EXCEPT !.status = s] \in Item
      BY <1>1 DEF Item
  <1>3. new = [list EXCEPT ![i] = [list[i] EXCEPT !.status = s]]
      OBVIOUS
  <1>4. /\ new \in Seq(Item) /\ Len(new) = Len(list)
        /\ new[i].status = s /\ new[i].id = list[i].id
        /\ \A k \in 1 .. Len(list) : k # i => new[k] = list[k]
      BY <1>1, <1>2, <1>3 DEF Item
  <1>5. items[i].status # "used"
      BY <1>1 DEF SameItems
  <1> HIDE DEF new
  <1> QED  BY <1>1, <1>4, <1>5 DEF SameItems, new

-----------------------------------------------------------------------------
\* What saveLocked writes.

\* A list that may become the list of the store.
Good(list) ==
    /\ list \in Seq(Item) /\ Len(list) <= Limit
    /\ Unique(list) /\ Below(list, counter)

\* A list with the same items in the same places, such as the one expiry leaves,
\* is as good as the list, and forgets no use.
LEMMA SameItemsAreGood ==
    ASSUME Inv, NEW list, SameItems(list)
    PROVE  /\ Good(list)
           /\ \A k \in DOMAIN list : \A n : list[k].id = n => items[k].id = n /\ k \in DOMAIN items
           /\ \A n : UsedIn(items, n) => UsedIn(list, n)
  <1>1. /\ Len(items) \in Nat /\ Len(items) <= Limit /\ DOMAIN items = 1 .. Len(items)
        /\ list \in Seq(Item) /\ Len(list) = Len(items) /\ DOMAIN list = 1 .. Len(items)
        /\ \A i \in 1 .. Len(items) : /\ list[i].id = items[i].id
                                      /\ items[i].status = "used" => list[i].status = "used"
      BY ItemsType DEF Inv, SameItems
  <1>2. Unique(list) /\ Below(list, counter)
      BY <1>1 DEF Inv, NumbersOfItems, Unique, Below
  <1> QED  BY <1>1, <1>2 DEF Good, UsedIn

\* After a change of the list, with or without a failing save: the file holds a
\* good list and a counter that is not older, and without any failure it holds
\* the new list, with the counter if the list has changed.
LEMMA BecomesSaves ==
    ASSUME Inv, NEW list, NEW expired, Good(list), Good(expired), Becomes(list, expired),
           UNCHANGED counter
    PROVE  /\ items' = list
           /\ file' \in [counter : Nat, items : Seq(Item)]
           /\ file'.counter \in {file.counter, counter}
           /\ Len(file'.items) <= Limit /\ Unique(file'.items) /\ Below(file'.items, file'.counter)
           /\ failures' \in Nat
           /\ failures' = 0 => /\ failures = 0 /\ file'.items = items'
                               /\ list # items => file'.counter = counter
  <1> USE DEF Becomes
  <1>0. /\ counter \in Nat /\ failures \in Nat /\ failures + 1 # 0
        /\ file \in [counter : Nat, items : Seq(Item)] /\ Len(file.items) <= Limit
        /\ Unique(file.items) /\ Below(file.items, file.counter)
        /\ failures = 0 => file.items = items
      BY DEF Inv, TypeOK, MoreTypes, NumbersOfItems, FileIsCurrent
  <1>1. ASSUME NEW l, Good(l), file' = [counter |-> counter, items |-> l]
        PROVE  /\ file' \in [counter : Nat, items : Seq(Item)]
               /\ file'.counter = counter /\ file'.items = l
               /\ Len(file'.items) <= Limit /\ Unique(file'.items) /\ Below(file'.items, file'.counter)
      BY <1>0, <1>1 DEF Good
  <1>2. CASE list = items
      BY <1>0, <1>2
  <1>3. CASE list # items /\ file' = [counter |-> counter, items |-> list] /\ failures' = failures
      BY <1>0, <1>1, <1>3
  <1>4. CASE list # items /\ failures' = failures + 1 /\ file' = file
      BY <1>0, <1>4
  <1>5. CASE list # items /\ failures' = failures + 1 /\ file' = [counter |-> counter, items |-> expired]
      BY <1>0, <1>1, <1>5
  <1> QED  BY <1>2, <1>3, <1>4, <1>5 DEF Save

\* Replacing the list, and saving it or failing to, keeps the types and the
\* numbers.
LEMMA BecomesTypes ==
    ASSUME Inv, NEW list, NEW expired, Good(list), Good(expired), Becomes(list, expired),
           UNCHANGED <<counter, now, requests, restarts>>,
           drawn' \in [Client -> [id : 0 .. MaxRequests, at : 0 .. MaxTime]],
           granted' \in [Id -> Nat], named' \in [Id -> Nat], recent' \in Seq(Id)
    PROVE  TypeOK' /\ MoreTypes' /\ NumbersOfItems'
  <1>1. /\ items' = list
        /\ file' \in [counter : Nat, items : Seq(Item)]
        /\ file'.counter \in {file.counter, counter}
        /\ Len(file'.items) <= Limit /\ Unique(file'.items) /\ Below(file'.items, file'.counter)
        /\ failures' \in Nat
      BY BecomesSaves
  <1>2. MoreTypes'
      BY <1>1 DEF Inv, MoreTypes
  <1>3. NumbersOfItems'
      BY <1>1 DEF Good, NumbersOfItems
  <1>4. counter \in 0 .. MaxRequests /\ file'.counter \in 0 .. counter
      BY <1>1 DEF Inv, TypeOK
  <1>5. TypeOK'
      BY <1>1, <1>4 DEF Inv, TypeOK, Good
  <1> QED  BY <1>2, <1>3, <1>5

\* A step that keeps the numbers, the grants and the items: resolve, status, or
\* a consumeApproved that finds nothing.
LEMMA KeepingStep ==
    ASSUME Inv, NEW list, NEW expired, SameItems(list), SameItems(expired), Becomes(list, expired),
           UNCHANGED <<counter, drawn, now, requests, restarts, granted, recent, named>>
    PROVE  Inv'
  <1>1. /\ Good(list) /\ Good(expired)
        /\ \A k \in DOMAIN list : \A n : list[k].id = n => items[k].id = n /\ k \in DOMAIN items
        /\ \A n : UsedIn(items, n) => UsedIn(list, n)
      BY SameItemsAreGood
  <1>2. /\ items' = list
        /\ file'.counter \in {file.counter, counter}
        /\ failures' = 0 => failures = 0 /\ file'.items = items'
      BY <1>1, BecomesSaves
  <1>3. TypeOK' /\ MoreTypes' /\ NumbersOfItems'
      BY <1>1, BecomesTypes DEF Inv, TypeOK, MoreTypes
  <1>4. NumbersDrawn'
      BY <1>1, <1>2 DEF Inv, NumbersDrawn
  <1>5. RecentAreUsed'
      BY <1>1, <1>2 DEF Inv, RecentAreUsed, UsedIn, NotDrawn
  <1>6. FileIsCurrent'
    <2>1. file.counter \in Nat /\ counter \in Nat /\ file.counter <= counter
        BY DEF Inv, TypeOK
    <2>2. Id \subseteq Nat
        BY DEF Id
    <2> QED  BY <1>2, <2>1, <2>2 DEF Inv, FileIsCurrent, NotDrawn
  <1>7. GrantedAreUsed'
      BY <1>1, <1>2 DEF Inv, GrantedAreUsed, UsedIn
  <1>8. OneGrantPerApproval' /\ NumbersNotReused' /\ OneGrantPerRun'
      BY <1>2 DEF Inv, OneGrantPerApproval, NumbersNotReused, OneGrantPerRun
  <1> QED  BY <1>3, <1>4, <1>5, <1>6, <1>7, <1>8 DEF Inv

-----------------------------------------------------------------------------
\* The inductive invariant, method by method.

\* The invariant holds for a new store.
LEMMA ApprovalsInit == Init => Inv
  <1> SUFFICES ASSUME Init PROVE Inv
      OBVIOUS
  <1>1. TypeOK /\ MoreTypes
      BY ApprovalsAssumption DEF Init, TypeOK, MoreTypes, NoRequest, Id
  <1>2. NumbersOfItems /\ NumbersDrawn
      BY DEF Init, NumbersOfItems, NumbersDrawn, Unique, Below, NoRequest
  <1>3. RecentAreUsed /\ FileIsCurrent /\ GrantedAreUsed
      BY DEF Init, RecentAreUsed, FileIsCurrent, GrantedAreUsed, NotDrawn, UsedIn
  <1>4. OneGrantPerApproval /\ NumbersNotReused /\ OneGrantPerRun
      BY DEF Init, OneGrantPerApproval, NumbersNotReused, OneGrantPerRun
  <1> QED  BY <1>1, <1>2, <1>3, <1>4 DEF Inv

\* The first half of request: a number that nobody has.
LEMMA DrawNumberStep ==
    ASSUME Inv, NEW c \in Client, DrawNumber(c)
    PROVE  Inv'
  <1>1. /\ requests' = requests + 1 /\ counter' = counter + 1
        /\ drawn' = [drawn EXCEPT ![c] = [id |-> counter', at |-> now]]
        /\ UNCHANGED <<items, file, now, restarts, failures, granted, recent, named>>
        /\ requests < MaxRequests
      BY DEF DrawNumber
  <1>2. /\ counter \in Nat /\ requests \in Nat /\ counter <= requests
        /\ counter' \in 1 .. MaxRequests /\ requests' \in 0 .. MaxRequests /\ counter' <= requests'
        /\ file.counter \in 0 .. counter
      BY <1>1, ApprovalsAssumption DEF Inv, TypeOK, MoreTypes
  <1>3. /\ drawn' \in [Client -> [id : 0 .. MaxRequests, at : 0 .. MaxTime]]
        /\ drawn'[c].id = counter + 1
        /\ \A d \in Client : d # c => drawn'[d] = drawn[d]
      BY <1>1, <1>2 DEF Inv, TypeOK
  <1>4. \A d \in Client : drawn[d].id \in Nat /\ drawn[d].id <= counter
      BY DEF Inv, TypeOK, NumbersDrawn
  <1>5. TypeOK' /\ MoreTypes'
      BY <1>1, <1>2, <1>3 DEF Inv, TypeOK, MoreTypes
  <1>6. \A i \in DOMAIN items : items[i].id \in Nat /\ items[i].id <= counter
      BY ItemsType DEF Inv, NumbersOfItems, Below, Item, Id
  <1>7. NumbersOfItems'
      BY <1>1, <1>2, <1>6 DEF Inv, NumbersOfItems, Below, Unique
  <1>8. NumbersDrawn'
      BY <1>1, <1>2, <1>3, <1>4, <1>6 DEF Inv, NumbersDrawn
  <1>9. RecentAreUsed'
    <2> SUFFICES ASSUME NEW k \in DOMAIN recent
                 PROVE  recent[k] <= counter' /\ NotDrawn(recent[k])' /\ UsedIn(items, recent[k])
        BY <1>1 DEF RecentAreUsed, UsedIn, NotDrawn
    <2>0. recent[k] \in Id
        BY DEF Inv, MoreTypes
    <2>1. recent[k] \in Nat /\ recent[k] <= counter /\ NotDrawn(recent[k]) /\ UsedIn(items, recent[k])
        BY <2>0 DEF Inv, RecentAreUsed, Id
    <2> QED  BY <1>1, <1>2, <1>3, <2>1 DEF NotDrawn
  <1>10. FileIsCurrent'
    <2> SUFFICES ASSUME failures = 0
                 PROVE  /\ file.items = items
                        /\ \A i \in Id : granted[i] > 0 \/ named[i] > 0
                               => i <= file.counter /\ NotDrawn(i)'
        BY <1>1 DEF FileIsCurrent, NotDrawn
    <2>1. file.items = items /\ \A i \in Id : granted[i] > 0 \/ named[i] > 0
                                                => i <= file.counter /\ NotDrawn(i)
        BY DEF Inv, FileIsCurrent
    <2>2. ASSUME NEW i \in Id, i <= file.counter, NotDrawn(i) PROVE NotDrawn(i)'
        BY <1>2, <1>3, <2>2 DEF NotDrawn, Id
    <2> QED  BY <2>1, <2>2
  <1>11. GrantedAreUsed' /\ OneGrantPerApproval' /\ NumbersNotReused' /\ OneGrantPerRun'
      BY <1>1 DEF Inv, GrantedAreUsed, UsedIn, OneGrantPerApproval, NumbersNotReused, OneGrantPerRun
  <1> QED  BY <1>5, <1>7, <1>8, <1>9, <1>10, <1>11 DEF Inv

\* Trimming keeps the newest items, as they are.
LEMMA TrimKeeps ==
    ASSUME NEW list \in Seq(Item)
    PROVE  LET new == Trim(list) IN
           /\ new \in Seq(Item) /\ Len(new) <= Limit /\ Len(new) <= Len(list)
           /\ Len(list) > 0 => Len(new) > 0
           /\ Len(list) <= Limit => new = list
           /\ \A i \in 1 .. Len(new) : new[i] = list[i]
  <1> DEFINE n == IF Len(list) > Limit THEN Limit ELSE Len(list)
  <1>1. n \in Nat /\ n <= Len(list) /\ n <= Limit /\ (Len(list) > 0 => n > 0)
      BY ApprovalsAssumption
  <1>2. Trim(list) = SubSeq(list, 1, n)
      BY DEF Trim
  <1>3. Len(list) <= Limit => n = Len(list)
      BY ApprovalsAssumption
  <1> HIDE DEF n
  <1>4. /\ SubSeq(list, 1, n) \in Seq(Item) /\ Len(SubSeq(list, 1, n)) = n
        /\ \A i \in 1 .. n : SubSeq(list, 1, n)[i] = list[i]
      BY <1>1
  <1>5. n = Len(list) => SubSeq(list, 1, n) = list
      BY <1>4
  <1> QED  BY <1>1, <1>2, <1>3, <1>4, <1>5

\* The list that request makes: the new item in front, the others as
\* expireLocked left them, the oldest ones possibly dropped.
LEMMA RequestList ==
    ASSUME Inv, NEW item \in Item, item.id <= counter, item.status = "pending",
           \A i \in DOMAIN items : items[i].id # item.id,
           NEW expired, SameItems(expired)
    PROVE  LET list == Trim(<<item>> \o expired) IN
           /\ Good(list) /\ list # items
           /\ \A k \in DOMAIN list : list[k].id = item.id \/ \E i \in DOMAIN items : items[i].id = list[k].id
           /\ \A n : n # item.id /\ UsedIn(items, n) => UsedIn(list, n)
  <1> DEFINE big == <<item>> \o expired
             list == Trim(big)
  <1>1. /\ Len(items) \in Nat /\ DOMAIN items = 1 .. Len(items)
        /\ expired \in Seq(Item) /\ Len(expired) = Len(items) /\ DOMAIN expired = 1 .. Len(items)
        /\ \A i \in 1 .. Len(items) : /\ expired[i].id = items[i].id
                                      /\ items[i].status = "used" => expired[i].status = "used"
      BY ItemsType DEF Inv, SameItems
  <1>2. /\ big \in Seq(Item) /\ Len(big) = Len(items) + 1
        /\ big[1] = item
        /\ \A k \in 2 .. Len(items) + 1 : big[k] = expired[k - 1]
      BY <1>1
  <1> HIDE DEF big
  <1>3. /\ list \in Seq(Item) /\ Len(list) \in Nat /\ Len(list) <= Limit /\ Len(list) <= Len(items) + 1
        /\ Len(list) > 0 /\ DOMAIN list = 1 .. Len(list)
        /\ \A k \in 1 .. Len(list) : list[k] = big[k]
      BY <1>1, <1>2, TrimKeeps
  <1> HIDE DEF list
  <1>4. /\ list[1] = item
        /\ \A k \in 2 .. Len(list) : /\ k - 1 \in DOMAIN items /\ list[k] = expired[k - 1]
                                     /\ list[k].id = items[k - 1].id
                                     /\ items[k - 1].status = "used" => list[k].status = "used"
      BY <1>1, <1>2, <1>3
  <1>5. \A k \in DOMAIN list : k = 1 \/ k \in 2 .. Len(list)
      BY <1>3
  <1>6. Unique(list)
    <2> SUFFICES ASSUME NEW i \in DOMAIN list, NEW j \in DOMAIN list, list[i].id = list[j].id
                 PROVE  i = j
        BY DEF Unique
    <2>1. CASE i = 1 \/ j = 1
        BY <1>4, <1>5, <2>1
    <2>2. CASE i \in 2 .. Len(list) /\ j \in 2 .. Len(list)
      <3>1. i - 1 = j - 1
          BY <1>4, <2>2 DEF Inv, NumbersOfItems, Unique
      <3> QED  BY <2>2, <3>1
    <2> QED  BY <1>5, <2>1, <2>2
  <1>7. Below(list, counter)
      BY <1>4, <1>5 DEF Inv, NumbersOfItems, Below
  <1>8. list # items
      BY <1>3, <1>4
  <1>9. \A k \in DOMAIN list : list[k].id = item.id \/ \E i \in DOMAIN items : items[i].id = list[k].id
      BY <1>4, <1>5
  <1>10. \A n : n # item.id /\ UsedIn(items, n) => UsedIn(list, n)
      BY <1>4, <1>5 DEF UsedIn
  <1> QED  BY <1>3, <1>6, <1>7, <1>8, <1>9, <1>10 DEF Good, list, big

\* The rest of request, which may drop the oldest items.
LEMMA RequestStep ==
    ASSUME Inv, NEW c \in Client, NEW a \in Action, Request(c, a)
    PROVE  Inv'
  <1> DEFINE id == drawn[c].id
             item == [id |-> id, action |-> a, status |-> "pending", expires |-> drawn[c].at + TTL]
             expired == ExpireLocked(drawn[c].at)
             list == Trim(<<item>> \o expired)
  <1>1. /\ id # 0 /\ Becomes(list, expired)
        /\ drawn' = [drawn EXCEPT ![c] = NoRequest]
        /\ named' = [named EXCEPT ![id] = @ + 1]
        /\ UNCHANGED <<counter, now, requests, restarts, granted, recent>>
      BY DEF Request
  <1>2. /\ id \in Id /\ id <= counter /\ counter \in Nat
        /\ \A i \in DOMAIN items : items[i].id # id
        /\ \A d \in Client : drawn[d].id = id => d = c
      BY <1>1 DEF Inv, TypeOK, NumbersDrawn, Id
  <1>3. item \in Item
    <2>1. drawn[c].at + TTL \in 0 .. MaxTime + TTL
        BY ApprovalsAssumption DEF Inv, TypeOK
    <2> QED  BY <1>2, <2>1 DEF Item
  <1>4. SameItems(expired)
      BY ExpireLockedItems DEF Inv
  <1>5. /\ Good(expired) /\ Good(list) /\ list # items
        /\ \A k \in DOMAIN list : list[k].id = id \/ \E i \in DOMAIN items : items[i].id = list[k].id
        /\ \A n : n # id /\ UsedIn(items, n) => UsedIn(list, n)
      BY <1>2, <1>3, <1>4, RequestList, SameItemsAreGood
  <1> HIDE DEF list, expired, item
  <1>6. /\ items' = list
        /\ file'.counter \in {file.counter, counter}
        /\ failures' = 0 => failures = 0 /\ file'.items = items' /\ file'.counter = counter
      BY <1>1, <1>5, BecomesSaves
  <1>7. /\ drawn' \in [Client -> [id : 0 .. MaxRequests, at : 0 .. MaxTime]]
        /\ drawn'[c].id = 0
        /\ \A d \in Client : d # c => drawn'[d] = drawn[d]
      BY <1>1, ApprovalsAssumption DEF Inv, TypeOK, NoRequest
  <1>8. /\ named' \in [Id -> Nat] /\ named'[id] = named[id] + 1
        /\ \A i \in Id : i # id => named'[i] = named[i]
      BY <1>1, <1>2 DEF Inv, MoreTypes
  <1>9. TypeOK' /\ MoreTypes' /\ NumbersOfItems'
      BY <1>1, <1>5, <1>7, <1>8, BecomesTypes DEF Inv, MoreTypes
  <1>10. \A d \in Client : /\ drawn'[d].id = 0 \/ (d # c /\ drawn'[d] = drawn[d] /\ drawn[d].id # id)
                           /\ drawn'[d].id <= counter
      BY <1>2, <1>7 DEF Inv, NumbersDrawn
  <1>11. NumbersDrawn'
      BY <1>1, <1>5, <1>6, <1>10 DEF Inv, NumbersDrawn
  <1>12. ASSUME NEW n \in Id, NotDrawn(n)
         PROVE  n # id /\ \A d \in Client : drawn'[d].id # n
      BY <1>10, <1>12 DEF NotDrawn, Id
  <1>13. RecentAreUsed'
    <2> SUFFICES ASSUME NEW k \in DOMAIN recent
                 PROVE  /\ recent[k] <= counter /\ UsedIn(list, recent[k])
                        /\ \A d \in Client : drawn'[d].id # recent[k]
        BY <1>1, <1>6 DEF RecentAreUsed, UsedIn, NotDrawn
    <2>1. recent[k] \in Id
        BY DEF Inv, MoreTypes
    <2>2. recent[k] <= counter /\ NotDrawn(recent[k]) /\ UsedIn(items, recent[k])
        BY DEF Inv, RecentAreUsed
    <2> QED  BY <1>5, <1>12, <2>1, <2>2
  <1>14. FileIsCurrent'
    <2> SUFFICES ASSUME failures = 0, file'.items = items', file'.counter = counter,
                        NEW i \in Id, granted[i] > 0 \/ named'[i] > 0
                 PROVE  i <= counter /\ \A d \in Client : drawn'[d].id # i
        BY <1>1, <1>6 DEF FileIsCurrent, NotDrawn
    <2>1. CASE i = id
        BY <1>2, <1>10, <2>1 DEF Id
    <2>2. CASE i # id
      <3>1. i <= file.counter /\ NotDrawn(i)
          BY <1>8, <2>2 DEF Inv, FileIsCurrent
      <3>2. file.counter \in 0 .. counter
          BY DEF Inv, TypeOK
      <3> QED  BY <1>2, <1>12, <3>1, <3>2 DEF Id
    <2> QED  BY <2>1, <2>2
  <1>15. GrantedAreUsed'
    <2> SUFFICES ASSUME failures = 0, NEW i \in Id, granted[i] > 0 PROVE UsedIn(list, i)
        BY <1>1, <1>6 DEF GrantedAreUsed, UsedIn
    <2>1. NotDrawn(i) /\ UsedIn(items, i)
        BY DEF Inv, FileIsCurrent, GrantedAreUsed
    <2> QED  BY <1>5, <1>12, <2>1
  <1>16. NumbersNotReused'
    <2> SUFFICES ASSUME failures = 0, NEW i \in Id PROVE named'[i] <= 1
        BY <1>6 DEF NumbersNotReused
    <2>1. named[i] \in Nat /\ named[i] <= 1
        BY DEF Inv, MoreTypes, NumbersNotReused
    <2>2. CASE i = id
      <3>1. ~NotDrawn(id)
          BY DEF NotDrawn
      <3>2. ~(named[id] > 0)
          BY <1>2, <3>1 DEF Inv, FileIsCurrent
      <3> QED  BY <1>8, <2>1, <2>2, <3>2
    <2>3. CASE i # id
        BY <1>8, <2>1, <2>3
    <2> QED  BY <2>2, <2>3
  <1>17. OneGrantPerApproval' /\ OneGrantPerRun'
      BY <1>1, <1>6 DEF Inv, OneGrantPerApproval, OneGrantPerRun
  <1> QED  BY <1>9, <1>11, <1>13, <1>14, <1>15, <1>16, <1>17 DEF Inv

\* resolve: it never touches an item that is used.
LEMMA ResolveStep ==
    ASSUME Inv, NEW id \in Id, NEW status \in {"approved", "rejected"}, Resolve(id, status)
    PROVE  Inv'
  <1> DEFINE expired == ExpireLocked(now)
             i == FoundId(expired, id)
             list == IF i # 0 /\ Resolves(expired[i]) THEN [expired EXCEPT ![i].status = status] ELSE expired
  <1>1. /\ Becomes(list, expired)
        /\ UNCHANGED <<counter, drawn, now, requests, restarts, granted, recent, named>>
      BY DEF Resolve, FoundId
  <1>2. SameItems(expired) /\ TypeOK
      BY ExpireLockedItems DEF Inv
  <1>3. Len(expired) \in Nat
      BY <1>2 DEF SameItems
  <1>4. i # 0 => i \in 1 .. Len(expired)
      BY <1>3, ResolveFinds
  <1> HIDE DEF i, expired
  <1>5. SameItems(list)
    <2>1. CASE i # 0 /\ Resolves(expired[i])
      <3>1. expired[i].status # "used"
          BY <2>1 DEF Resolves
      <3>2. SameItems([expired EXCEPT ![i].status = status])
          BY <1>2, <1>4, <2>1, <3>1, StatusChange
      <3> QED  BY <2>1, <3>2
    <2>2. CASE ~(i # 0 /\ Resolves(expired[i]))
        BY <1>2, <2>2
    <2> QED  BY <2>1, <2>2
  <1> QED  BY <1>1, <1>2, <1>5, KeepingStep

\* What consumeApproved finds is an approved item whose time has not come.
LEMMA ConsumedItem ==
    ASSUME Inv, NEW a,
           FoundApproved(ExpireLocked(now), a) # 0
    PROVE  LET i == FoundApproved(ExpireLocked(now), a) IN
           /\ i \in DOMAIN items /\ i \in 1 .. Len(ExpireLocked(now))
           /\ items[i].id \in Id /\ items[i].status = "approved" /\ now < items[i].expires
           /\ ExpireLocked(now)[i].status = "approved" /\ ExpireLocked(now)[i].id = items[i].id
  <1> DEFINE expired == ExpireLocked(now)
             i == FoundApproved(expired, a)
  <1>1. /\ SameItems(expired)
        /\ \A k \in 1 .. Len(items) :
              expired[k].status = "approved" => items[k].status = "approved" /\ ~Expires(items[k], now)
      BY ExpireLockedItems DEF Inv
  <1>2. /\ Len(expired) \in Nat /\ Len(expired) = Len(items) /\ DOMAIN items = 1 .. Len(items)
        /\ \A k \in 1 .. Len(items) : expired[k].id = items[k].id /\ items[k] \in Item
      BY <1>1, ItemsType DEF SameItems, Inv
  <1>3. i \in 1 .. Len(expired) /\ expired[i].status = "approved"
      BY <1>2, ConsumeFinds
  <1> HIDE DEF i, expired
  <1>4. items[i] \in Item /\ items[i].id \in Id /\ items[i].expires \in Nat /\ now \in Nat
      BY <1>2, <1>3, ApprovalsAssumption DEF Item, Inv, TypeOK
  <1>5. now < items[i].expires
      BY <1>1, <1>2, <1>3, <1>4 DEF Expires
  <1> QED  BY <1>1, <1>2, <1>3, <1>4, <1>5 DEF i, expired

\* consumeApproved: the item it finds is not used yet, and is used afterwards.
LEMMA ConsumeStep ==
    ASSUME Inv, NEW a \in Action, ConsumeApproved(a)
    PROVE  Inv'
  <1> DEFINE expired == ExpireLocked(now)
             i == FoundApproved(expired, a)
             list == MarkUsed(expired, i)
             n == items[i].id
  <1>0. SameItems(expired) /\ TypeOK
      BY ExpireLockedItems DEF Inv
  <1>1. UNCHANGED <<counter, drawn, now, requests, restarts, named>>
      BY DEF ConsumeApproved, FoundApproved
  <1>2. CASE i = 0
    <2>1. Becomes(expired, expired) /\ UNCHANGED <<granted, recent>>
        BY <1>2 DEF ConsumeApproved, FoundApproved
    <2> HIDE DEF expired
    <2> QED  BY <1>0, <1>1, <2>1, KeepingStep
  <1>3. CASE i # 0
    <2>1. /\ Becomes(list, expired)
          /\ granted' = [granted EXCEPT ![n] = @ + 1]
          /\ recent' = Append(recent, n)
        BY <1>3 DEF ConsumeApproved, FoundApproved
    <2>2. /\ i \in DOMAIN items /\ i \in 1 .. Len(expired)
          /\ n \in Id /\ items[i].status = "approved"
          /\ expired[i].status = "approved"
        BY <1>3, ConsumedItem
    <2> HIDE DEF i, expired
    <2>3. SameItems(list) /\ list[i].status = "used"
      <3>1. expired[i].status # "used"
          BY <2>2
      <3>2. "used" \in {"approved", "rejected", "used"}
          OBVIOUS
      <3>3. SameItems([expired EXCEPT ![i].status = "used"])
          BY <1>0, <2>2, <3>1, <3>2, StatusChange
      <3>4. [expired EXCEPT ![i].status = "used"][i].status = "used"
          BY <1>0, <2>2, <3>1, <3>2, StatusChange
      <3> QED  BY <3>3, <3>4 DEF MarkUsed
    <2> HIDE DEF list
    <2>4. /\ Good(list) /\ Good(expired)
          /\ \A k \in DOMAIN list : \A m : list[k].id = m => items[k].id = m /\ k \in DOMAIN items
          /\ \A m : UsedIn(items, m) => UsedIn(list, m)
        BY <1>0, <2>3, SameItemsAreGood
    <2>5. /\ items' = list
          /\ file'.counter \in {file.counter, counter}
          /\ failures' = 0 => failures = 0 /\ file'.items = items' /\ file'.counter = counter
      <3>1. list # items
          BY <2>2, <2>3
      <3> QED  BY <1>1, <2>1, <2>4, <3>1, BecomesSaves
    <2>6. UsedIn(list, n)
        BY <2>2, <2>3, <2>4 DEF UsedIn, Inv, NumbersOfItems, Unique
    <2>7. ~UsedIn(items, n)
        BY <2>2 DEF UsedIn
    <2>8. n <= counter /\ NotDrawn(n)
        BY <2>2 DEF Inv, NumbersOfItems, Below, NumbersDrawn, NotDrawn, Id
    <2>9. /\ granted' \in [Id -> Nat] /\ granted'[n] = granted[n] + 1
          /\ \A m \in Id : m # n => granted'[m] = granted[m]
        BY <2>1, <2>2 DEF Inv, MoreTypes
    <2>10. /\ recent \in Seq(Id) /\ Len(recent) \in Nat /\ recent' \in Seq(Id)
           /\ DOMAIN recent = 1 .. Len(recent) /\ DOMAIN recent' = 1 .. Len(recent) + 1
           /\ recent'[Len(recent) + 1] = n
           /\ \A k \in 1 .. Len(recent) : recent'[k] = recent[k]
        BY <2>1, <2>2 DEF Inv, MoreTypes
    <2>11. \A k \in DOMAIN recent' : k = Len(recent) + 1 \/ k \in DOMAIN recent
        BY <2>10
    <2>12. TypeOK' /\ MoreTypes' /\ NumbersOfItems'
        BY <1>1, <2>1, <2>4, <2>9, <2>10, BecomesTypes DEF Inv, TypeOK, MoreTypes
    <2>13. NumbersDrawn'
        BY <1>1, <2>4, <2>5 DEF Inv, NumbersDrawn
    <2>14. RecentAreUsed'
      <3> SUFFICES ASSUME NEW k \in DOMAIN recent'
                   PROVE  /\ recent'[k] <= counter /\ UsedIn(list, recent'[k])
                          /\ \A d \in Client : drawn[d].id # recent'[k]
          BY <1>1, <2>5 DEF RecentAreUsed, UsedIn, NotDrawn
      <3>1. CASE k = Len(recent) + 1
          BY <2>6, <2>8, <2>10, <3>1 DEF NotDrawn
      <3>2. CASE k \in DOMAIN recent
          BY <2>4, <2>10, <3>2 DEF Inv, RecentAreUsed, NotDrawn
      <3> QED  BY <2>11, <3>1, <3>2
    <2>15. OneGrantPerRun'
      <3>1. \A k \in DOMAIN recent : recent[k] # n
          BY <2>7 DEF Inv, RecentAreUsed
      <3> QED  BY <2>10, <2>11, <3>1 DEF Inv, OneGrantPerRun
    <2>16. ASSUME failures' = 0
           PROVE  /\ FileIsCurrent' /\ GrantedAreUsed' /\ OneGrantPerApproval' /\ NumbersNotReused'
      <3>1. failures = 0 /\ file'.items = items' /\ file'.counter = counter
          BY <2>5, <2>16
      <3>2. \A m \in Id : /\ granted[m] > 0 => UsedIn(items, m)
                          /\ granted[m] > 0 \/ named[m] > 0 => m <= file.counter /\ NotDrawn(m)
                          /\ granted[m] <= 1 /\ named[m] <= 1
          BY <3>1 DEF Inv, GrantedAreUsed, FileIsCurrent, OneGrantPerApproval, NumbersNotReused
      <3>3. ~(granted[n] > 0)
          BY <2>2, <2>7, <3>2
      <3>4. \A m \in Id : m \in Nat /\ granted[m] \in Nat
          BY DEF Inv, MoreTypes, Id
      <3>5. \A m \in Id : granted'[m] > 0 => m = n \/ granted[m] > 0
          BY <2>9
      <3>6. FileIsCurrent'
        <4> SUFFICES ASSUME NEW m \in Id, granted'[m] > 0 \/ named[m] > 0
                     PROVE  m <= counter /\ NotDrawn(m)
            BY <1>1, <3>1 DEF FileIsCurrent, NotDrawn
        <4>1. file.counter \in 0 .. counter /\ counter \in Nat
            BY DEF Inv, TypeOK
        <4> QED  BY <2>8, <3>2, <3>4, <3>5, <4>1
      <3>7. GrantedAreUsed'
          BY <2>4, <2>5, <2>6, <3>2, <3>5 DEF GrantedAreUsed, UsedIn
      <3>8. OneGrantPerApproval'
          BY <2>2, <2>9, <3>2, <3>3, <3>4 DEF OneGrantPerApproval
      <3>9. NumbersNotReused'
          BY <1>1, <3>2 DEF NumbersNotReused
      <3> QED  BY <3>6, <3>7, <3>8, <3>9
    <2>17. FileIsCurrent' /\ GrantedAreUsed' /\ OneGrantPerApproval' /\ NumbersNotReused'
        BY <2>16 DEF FileIsCurrent, GrantedAreUsed, OneGrantPerApproval, NumbersNotReused
    <2> QED  BY <2>12, <2>13, <2>14, <2>15, <2>17 DEF Inv
  <1> QED  BY <1>2, <1>3

\* newPersistentApprovalStore: the list and the counter are those of the file,
\* and what was drawn and not saved is forgotten.
LEMMA RestartStep ==
    ASSUME Inv, Restart
    PROVE  Inv'
  <1>1. /\ restarts' = restarts + 1 /\ counter' = file.counter /\ items' = Trim(file.items)
        /\ drawn' = [c \in Client |-> NoRequest] /\ recent' = <<>>
        /\ UNCHANGED <<file, now, requests, failures, granted, named>>
      BY DEF Restart, LoadedCounter
  <1>2. /\ file \in [counter : Nat, items : Seq(Item)] /\ Len(file.items) <= Limit
        /\ file.counter \in 0 .. counter /\ counter \in 0 .. MaxRequests /\ counter <= requests
        /\ requests \in 0 .. MaxRequests
      BY DEF Inv, TypeOK, MoreTypes
  <1>3. items' = file.items
      BY <1>1, <1>2, TrimKeeps
  <1>4. /\ drawn' \in [Client -> [id : 0 .. MaxRequests, at : 0 .. MaxTime]]
        /\ \A c \in Client : drawn'[c].id = 0
      BY <1>1, ApprovalsAssumption DEF NoRequest
  <1>5. TypeOK'
    <2>1. file.counter \in 0 .. MaxRequests /\ file.counter \in 0 .. file.counter
        BY <1>2, ApprovalsAssumption
    <2> QED  BY <1>1, <1>2, <1>3, <1>4, <2>1 DEF Inv, TypeOK
  <1>6. MoreTypes'
    <2>1. counter' <= requests'
        BY <1>1, <1>2
    <2> QED  BY <1>1, <2>1 DEF Inv, MoreTypes
  <1>7. NumbersOfItems' /\ NumbersDrawn'
      BY <1>1, <1>2, <1>3, <1>4 DEF Inv, NumbersOfItems, NumbersDrawn, Unique, Below
  <1>8. RecentAreUsed' /\ OneGrantPerRun'
      BY <1>1 DEF RecentAreUsed, OneGrantPerRun
  <1>9. FileIsCurrent'
    <2> SUFFICES ASSUME failures = 0, NEW i \in Id, granted[i] > 0 \/ named[i] > 0
                 PROVE  i <= file.counter /\ \A c \in Client : drawn'[c].id # i
        BY <1>1, <1>3 DEF FileIsCurrent, NotDrawn
    <2> QED  BY <1>4 DEF Inv, FileIsCurrent, Id
  <1>10. GrantedAreUsed'
      BY <1>1, <1>3 DEF Inv, FileIsCurrent, GrantedAreUsed, UsedIn
  <1>11. OneGrantPerApproval' /\ NumbersNotReused'
      BY <1>1 DEF Inv, OneGrantPerApproval, NumbersNotReused
  <1> QED  BY <1>5, <1>6, <1>7, <1>8, <1>9, <1>10, <1>11 DEF Inv

\* Every method, the clock and a restart keep the invariant.
LEMMA ApprovalsStep == Inv /\ [Next]_vars => Inv'
  <1> SUFFICES ASSUME Inv, [Next]_vars PROVE Inv'
      OBVIOUS
  <1>1. CASE Status
    <2>1. /\ Becomes(ExpireLocked(now), ExpireLocked(now))
          /\ UNCHANGED <<counter, drawn, now, requests, restarts, granted, recent, named>>
        BY <1>1 DEF Status
    <2>2. SameItems(ExpireLocked(now))
        BY ExpireLockedItems DEF Inv
    <2> QED  BY <2>1, <2>2, KeepingStep
  <1>2. CASE Clock
    <2>1. /\ now' \in 0 .. MaxTime
          /\ UNCHANGED <<items, counter, file, drawn, requests, restarts, failures, granted, recent, named>>
        BY <1>2, ApprovalsAssumption DEF Clock, Inv, TypeOK
    <2> QED
        BY <2>1 DEF Inv, TypeOK, MoreTypes, NumbersOfItems, NumbersDrawn, RecentAreUsed, FileIsCurrent,
                    GrantedAreUsed, OneGrantPerApproval, NumbersNotReused, OneGrantPerRun,
                    Unique, Below, UsedIn, NotDrawn
  <1>3. CASE UNCHANGED vars
    <2>1. UNCHANGED <<items, counter, file, drawn, now, requests, restarts, failures, granted, recent, named>>
        BY <1>3 DEF vars
    <2> QED
        BY <2>1 DEF Inv, TypeOK, MoreTypes, NumbersOfItems, NumbersDrawn, RecentAreUsed, FileIsCurrent,
                  GrantedAreUsed, OneGrantPerApproval, NumbersNotReused, OneGrantPerRun,
                  Unique, Below, UsedIn, NotDrawn
  <1> QED
      BY <1>1, <1>2, <1>3, DrawNumberStep, RequestStep, ResolveStep, ConsumeStep, RestartStep DEF Next

\* The invariant holds in every state of the store.
THEOREM ApprovalsInvariant == Spec => []Inv
  BY ApprovalsInit, ApprovalsStep, PTL DEF Spec

\* The list and its copy on disk never exceed the limit, and the counter on disk
\* is never ahead of the one in memory.
THEOREM ApprovalsTypes == Spec => []TypeOK
  <1>1. Inv => TypeOK
      BY DEF Inv
  <1> QED  BY <1>1, ApprovalsInvariant, PTL

\* consumeApproved lets one action through per approval, over any number of
\* restarts, as long as saveLocked does not fail.
THEOREM OneGrantPerApprovalHolds == Spec => []OneGrantPerApproval
  <1>1. Inv => OneGrantPerApproval
      BY DEF Inv
  <1> QED  BY <1>1, ApprovalsInvariant, PTL

\* A number that request has returned never names another request, over any
\* number of restarts and dropped items, as long as saveLocked does not fail.
THEOREM NumbersNotReusedHolds == Spec => []NumbersNotReused
  <1>1. Inv => NumbersNotReused
      BY DEF Inv
  <1> QED  BY <1>1, ApprovalsInvariant, PTL

\* One run of the daemon uses an approval only once, whatever saves fail.
THEOREM OneGrantPerRunHolds == Spec => []OneGrantPerRun
  <1>1. Inv => OneGrantPerRun
      BY DEF Inv
  <1> QED  BY <1>1, ApprovalsInvariant, PTL

\* consumeApproved grants nothing for an approval that has run out, also when
\* the list was loaded from a file written before it did.
THEOREM ExpiredNeverGrantedHolds == Spec => ExpiredNeverGranted
  <1> DEFINE Grant == \A i \in Id : granted'[i] > granted[i]
                        => \E k \in DOMAIN items : items[k].id = i /\ now < items[k].expires
  <1>1. Inv /\ [Next]_vars => [Grant]_vars
    <2> SUFFICES ASSUME Inv, Next PROVE Grant
        OBVIOUS
    <2>1. granted \in [Id -> Nat]
        BY DEF Inv, MoreTypes
    <2>2. CASE UNCHANGED granted
        BY <2>1, <2>2
    <2>3. ASSUME NEW a \in Action, ConsumeApproved(a), granted' # granted PROVE Grant
      <3> DEFINE i == FoundApproved(ExpireLocked(now), a)
      <3>1. i # 0 /\ granted' = [granted EXCEPT ![items[i].id] = @ + 1]
          BY <2>3 DEF ConsumeApproved, FoundApproved
      <3>2. i \in DOMAIN items /\ now < items[i].expires
          BY <3>1, ConsumedItem
      <3> HIDE DEF i
      <3>3. \A j \in Id : granted'[j] > granted[j] => j = items[i].id
          BY <2>1, <3>1
      <3> QED  BY <3>2, <3>3
    <2> QED
        BY <2>2, <2>3 DEF Next, DrawNumber, Request, Resolve, Status, Clock, Restart
  <1> QED  BY <1>1, ApprovalsInvariant, PTL DEF Spec, ExpiredNeverGranted
=============================================================================
