------------------------ MODULE MailboxRoutingProofs ------------------------
(***************************************************************************)
(* Proofs about MailboxRouting for any chain of rules, any messages, page  *)
(* size, recipients, edits and mailboxes.                                  *)
(*                                                                         *)
(* A commit and a page of a job are folds of the same operation over       *)
(* recipients or mailboxes.  Sound and Onward say of two databases what    *)
(* one such operation guarantees, and Onward composes; FoldExists and the  *)
(* induction on subsets carry it over the whole fold (Along, IngestAlong,  *)
(* Rehomed).  The invariant is that a mailbox with mail that the present   *)
(* rules would promote lies ahead of a job that will do so, or is among    *)
(* those no job looks at (Settling).                                       *)
(***************************************************************************)
EXTENDS MailboxRouting, WellFoundedInduction, TLAPS

Mailbox == [addr : Addresses, owner : Roots]
Boxes == UNION {[D -> Mailbox] : D \in SUBSET Nat}
Dbs == [box : Boxes, last : Nat, mail : SUBSET (Messages \X Nat)]

\* The databases in which the UNIQUE column and the foreign keys hold.
Sound ==
  {d \in Dbs : /\ DOMAIN d.box \subseteq 1 .. d.last
               /\ \A b, c \in DOMAIN d.box : d.box[b].addr = d.box[c].addr => b = c
               /\ \A p \in d.mail : p[2] \in DOMAIN d.box}

\* The mailbox holds mail and is due for a promotion.
Wants(d, b) ==
  /\ b \in DOMAIN d.box /\ \E p \in d.mail : p[2] = b
  /\ NeedsPromotion(d.box[b], MatchAddress(d.box[b].addr))

\* From d to e identifiers are not used again, every message keeps a delivery, a
\* mailbox that stays keeps its own, and only mailboxes of X become due; the others
\* that are due were left alone.
Onward(d, e, X) ==
  /\ d.last <= e.last /\ \A b \in DOMAIN e.box : b \in DOMAIN d.box \/ b > d.last
  /\ \A p \in d.mail : \E q \in e.mail : q[1] = p[1]
  /\ \A p \in d.mail : p[2] \in DOMAIN e.box => p \in e.mail
  /\ \A b \in DOMAIN e.box : Wants(e, b) => b \in X \/ (Wants(d, b) /\ e.box[b] = d.box[b])

\* No mailbox with the address of the match, owned by its rule or a more
\* specific one, is due.
Fits(mt) ==
  \A x \in Mailbox : x.addr = mt.addr /\ x.owner >= mt.root =>
    ~NeedsPromotion(x, MatchAddress(x.addr))

\* There is a mailbox for the match.
Housed(e, mt) == \E b \in DOMAIN e.box : e.box[b].addr = mt.addr /\ e.box[b].owner >= mt.root

-----------------------------------------------------------------------------
(* Databases as records. *)

\* The fields of a database have their types.
LEMMA DbFacts ==
  ASSUME NEW d \in Dbs
  PROVE  /\ d.box \in Boxes /\ d.last \in Nat /\ d.mail \in SUBSET (Messages \X Nat)
         /\ d.box = [b \in DOMAIN d.box |-> d.box[b]] /\ DOMAIN d.box \in SUBSET Nat
         /\ \A b \in DOMAIN d.box : d.box[b] \in Mailbox
<1>1. d.box \in Boxes /\ d.last \in Nat /\ d.mail \in SUBSET (Messages \X Nat)
  BY DEF Dbs
<1>2. PICK D \in SUBSET Nat : d.box \in [D -> Mailbox]
  BY <1>1, Zenon DEF Boxes
<1> QED BY <1>1, <1>2

\* A database put together from its parts.
LEMMA DbBuilt ==
  ASSUME NEW B \in Boxes, NEW L \in Nat, NEW M \in SUBSET (Messages \X Nat)
  PROVE  LET d == [box |-> B, last |-> L, mail |-> M] IN
         d \in Dbs /\ d.box = B /\ d.last = L /\ d.mail = M
BY DEF Dbs

\* A function from numbers to mailboxes is a mailbox table.
LEMMA BoxesBuilt ==
  ASSUME NEW D \in SUBSET Nat, NEW f \in [D -> Mailbox]
  PROVE  f \in Boxes
BY Zenon DEF Boxes

\* A field of a database replaced.
LEMMA BoxReplaced ==
  ASSUME NEW d \in Dbs, NEW B \in Boxes
  PROVE  LET e == [d EXCEPT !.box = B] IN
         e \in Dbs /\ e.box = B /\ e.last = d.last /\ e.mail = d.mail
BY DEF Dbs

\* Replacing the deliveries leaves the rest of a database alone.
LEMMA MailReplaced ==
  ASSUME NEW d \in Dbs, NEW M \in SUBSET (Messages \X Nat)
  PROVE  LET e == [d EXCEPT !.mail = M] IN
         e \in Dbs /\ e.box = d.box /\ e.last = d.last /\ e.mail = M
BY DEF Dbs

\* What a sound database satisfies.
LEMMA SoundFacts ==
  ASSUME NEW d \in Sound
  PROVE  /\ d \in Dbs /\ DOMAIN d.box \subseteq 1 .. d.last
         /\ \A b, c \in DOMAIN d.box : d.box[b].addr = d.box[c].addr => b = c
         /\ \A p \in d.mail : p[2] \in DOMAIN d.box
BY Zenon DEF Sound

\* A delivery is the pair of its message and its mailbox.
LEMMA PairFacts ==
  ASSUME NEW M \in SUBSET (Messages \X Nat), NEW p \in M
  PROVE  p = <<p[1], p[2]>> /\ p[1] \in Messages /\ p[2] \in Nat
OBVIOUS

\* Several steps.
LEMMA OnwardTwice ==
  ASSUME NEW d \in Sound, NEW e \in Sound, NEW f \in Sound, NEW X, NEW Y,
         Onward(d, e, X), Onward(e, f, Y), \A b \in X \cap DOMAIN f.box : b \in Y
  PROVE  Onward(d, f, Y)
<1>1. ASSUME NEW p \in d.mail PROVE \E q \in f.mail : q[1] = p[1]
  <2>1. PICK q \in e.mail : q[1] = p[1]
    BY Zenon DEF Onward
  <2>2. PICK r \in f.mail : r[1] = q[1]
    BY Zenon DEF Onward
  <2> QED BY <2>1, <2>2, Zenon
<1>2. /\ d.last \in Nat /\ e.last \in Nat /\ f.last \in Nat
      /\ DOMAIN d.box \subseteq 1 .. d.last /\ DOMAIN e.box \subseteq 1 .. e.last
      /\ DOMAIN f.box \subseteq 1 .. f.last /\ \A p \in d.mail : p[2] \in DOMAIN d.box
  BY SoundFacts, DbFacts, Zenon
<1>3. d.last <= e.last /\ e.last <= f.last
  BY Zenon DEF Onward
<1>4. d.last <= f.last
  BY <1>2, <1>3
<1>5. ASSUME NEW b \in DOMAIN f.box
      PROVE  (b \in DOMAIN e.box \/ b > d.last) /\ (b \in DOMAIN d.box \/ b > d.last)
  <2>1. b \in DOMAIN e.box \/ b > e.last
    BY Zenon DEF Onward
  <2>2. b \in Nat /\ (b > e.last => b > d.last)
    BY <1>2, <1>3
  <2>3. b \in DOMAIN e.box => b \in DOMAIN d.box \/ b > d.last
    BY Zenon DEF Onward
  <2> QED BY <2>1, <2>2, <2>3, Zenon
<1>6. ASSUME NEW p \in d.mail, p[2] \in DOMAIN f.box PROVE p \in f.mail
  <2>1. p[2] \in DOMAIN e.box
    <3>1. ~(p[2] > d.last)
      BY <1>2
    <3> QED BY <1>5, <1>6, <3>1, Zenon
  <2>2. p \in e.mail
    BY <2>1, Zenon DEF Onward
  <2> QED BY <1>6, <2>2, Zenon DEF Onward
<1>7. ASSUME NEW b \in DOMAIN f.box, Wants(f, b)
      PROVE  b \in Y \/ (Wants(d, b) /\ f.box[b] = d.box[b])
  <2>1. b \in Y \/ (Wants(e, b) /\ f.box[b] = e.box[b])
    BY <1>7, Zenon DEF Onward
  <2>2. Wants(e, b) => b \in X \/ (Wants(d, b) /\ e.box[b] = d.box[b])
    BY Zenon DEF Onward, Wants
  <2> QED BY <1>7, <2>1, <2>2, Zenon
<1> QED BY <1>1, <1>4, <1>5, <1>6, <1>7, Zenon DEF Onward

\* A database in which nothing becomes due.
LEMMA OnwardSame ==
  ASSUME NEW d \in Sound, NEW X
  PROVE  Onward(d, d, X)
<1>1. d.last \in Nat
  BY SoundFacts, DbFacts, Zenon
<1>2. d.last <= d.last
  BY <1>1
<1> QED BY <1>2, Zenon DEF Onward

\* More mailboxes may be allowed to become due.
LEMMA OnwardMore ==
  ASSUME NEW d, NEW e, NEW X, NEW Y, Onward(d, e, X), X \subseteq Y
  PROVE  Onward(d, e, Y)
BY Zenon DEF Onward

\* Where nothing becomes due, anything may be allowed to.
LEMMA OnwardAny ==
  ASSUME NEW d, NEW e, NEW X, Onward(d, e, {})
  PROVE  Onward(d, e, X)
BY Zenon DEF Onward

\* Mailboxes allowed to become due that did not need not be allowed to.
LEMMA OnwardSettled ==
  ASSUME NEW d, NEW e, NEW X, Onward(d, e, X), \A b \in X : ~Wants(e, b)
  PROVE  Onward(d, e, {})
BY Zenon DEF Onward

-----------------------------------------------------------------------------
(* The single writes. *)

Place(d, b, x) == [d EXCEPT !.box[b] = x]

\* A mailbox gets another address and owner.
LEMMA Placed ==
  ASSUME NEW d \in Sound, NEW b \in DOMAIN d.box, NEW x \in Mailbox,
         \A c \in DOMAIN d.box : c # b => d.box[c].addr # x.addr
  PROVE  LET e == Place(d, b, x) IN
         /\ e \in Sound /\ e.last = d.last /\ e.mail = d.mail
         /\ DOMAIN e.box = DOMAIN d.box /\ e.box[b] = x
         /\ \A c \in DOMAIN d.box : c # b => e.box[c] = d.box[c]
         /\ Onward(d, e, {b})
<1>1. /\ d \in Dbs /\ DOMAIN d.box \subseteq 1 .. d.last
      /\ \A y, z \in DOMAIN d.box : d.box[y].addr = d.box[z].addr => y = z
      /\ \A p \in d.mail : p[2] \in DOMAIN d.box
  BY SoundFacts, Zenon
<1>2. /\ d.box = [c \in DOMAIN d.box |-> d.box[c]] /\ DOMAIN d.box \in SUBSET Nat
      /\ \A c \in DOMAIN d.box : d.box[c] \in Mailbox
      /\ d.last \in Nat
  BY <1>1, DbFacts, Zenon
<1>3. PICK B : B = [d.box EXCEPT ![b] = x]
  BY Zenon
<1>4. /\ B \in [DOMAIN d.box -> Mailbox] /\ DOMAIN B = DOMAIN d.box /\ B[b] = x
      /\ \A c \in DOMAIN d.box : c # b => B[c] = d.box[c]
  BY <1>2, <1>3
<1>5. B \in Boxes
  BY <1>2, <1>4, BoxesBuilt, Zenon
<1>6. PICK e : e = [d EXCEPT !.box = B]
  BY Zenon
<1>7. e \in Dbs /\ e.box = B /\ e.last = d.last /\ e.mail = d.mail
  BY <1>1, <1>5, <1>6, BoxReplaced, Zenon
<1>8. Place(d, b, x) = e
  BY <1>3, <1>6 DEF Place
<1>9. e \in Sound
  <2>1. \A y, z \in DOMAIN B : B[y].addr = B[z].addr => y = z
    <3> SUFFICES ASSUME NEW y \in DOMAIN B, NEW z \in DOMAIN B, B[y].addr = B[z].addr, y # z PROVE FALSE
      BY Zenon
    <3>1. CASE y = b
      BY <1>4, <3>1, Zenon
    <3>2. CASE z = b
      BY <1>4, <3>2, Zenon
    <3>3. CASE y # b /\ z # b
      BY <1>1, <1>4, <3>3, Zenon
    <3> QED BY <3>1, <3>2, <3>3, Zenon
  <2> QED BY <1>1, <1>4, <1>7, <2>1, Zenon DEF Sound
<1>10. Onward(d, e, {b})
  <2>1. d.last <= e.last
    BY <1>2, <1>7
  <2>2. ASSUME NEW c \in DOMAIN e.box, Wants(e, c), c # b PROVE Wants(d, c) /\ e.box[c] = d.box[c]
    <3>1. c \in DOMAIN d.box /\ e.box[c] = d.box[c]
      BY <1>4, <1>7, <2>2, Zenon
    <3> QED BY <1>7, <2>2, <3>1, Zenon DEF Wants
  <2> QED BY <1>4, <1>7, <2>1, <2>2, Zenon DEF Onward
<1> QED BY <1>4, <1>7, <1>8, <1>9, <1>10, Zenon

\* A mailbox is folded into another.
LEMMA Merged ==
  ASSUME NEW d \in Sound, NEW S, S \subseteq DOMAIN d.box, NEW t \in DOMAIN d.box, t \notin S
  PROVE  LET e == MergeInto(d, S, t) IN
         /\ e \in Sound /\ e.last = d.last /\ DOMAIN e.box = DOMAIN d.box \ S
         /\ \A c \in DOMAIN e.box : e.box[c] = d.box[c]
         /\ Onward(d, e, {t})
<1>1. /\ d \in Dbs /\ DOMAIN d.box \subseteq 1 .. d.last
      /\ \A y, z \in DOMAIN d.box : d.box[y].addr = d.box[z].addr => y = z
      /\ \A p \in d.mail : p[2] \in DOMAIN d.box
  BY SoundFacts, Zenon
<1>2. /\ DOMAIN d.box \in SUBSET Nat /\ d.mail \in SUBSET (Messages \X Nat)
      /\ \A c \in DOMAIN d.box : d.box[c] \in Mailbox
      /\ d.last \in Nat
  BY <1>1, DbFacts, Zenon
<1> DEFINE to(p) == IF p[2] \in S THEN t ELSE p[2]
<1>3. PICK B : B = [b \in DOMAIN d.box \ S |-> d.box[b]]
  BY Zenon
<1>4. PICK M : M = {<<p[1], to(p)>> : p \in d.mail}
  BY Zenon
<1>5. /\ B \in [DOMAIN d.box \ S -> Mailbox] /\ DOMAIN B = DOMAIN d.box \ S
      /\ \A c \in DOMAIN B : B[c] = d.box[c]
  BY <1>2, <1>3, Zenon
<1>6. B \in Boxes
  <2>1. DOMAIN d.box \ S \in SUBSET Nat
    BY <1>2, Zenon
  <2> QED BY <1>5, <2>1, BoxesBuilt, Zenon
<1>7. ASSUME NEW p \in d.mail
      PROVE  /\ p[1] \in Messages /\ to(p) \in DOMAIN B /\ to(p) \in Nat
             /\ p[2] \in DOMAIN B => <<p[1], to(p)>> = p
  <2>1. p = <<p[1], p[2]>> /\ p[1] \in Messages /\ p[2] \in Nat
    BY <1>2, PairFacts, Zenon
  <2>2. to(p) \in DOMAIN B
    BY <1>1, <1>5, Zenon
  <2> QED BY <1>2, <1>5, <2>1, <2>2, Zenon
<1>8. ASSUME NEW q \in M
      PROVE  \E p \in d.mail : q[1] = p[1] /\ q[2] = to(p)
  <2>1. PICK p \in d.mail : q = <<p[1], to(p)>>
    BY <1>4, Zenon
  <2>2. q[1] = p[1] /\ q[2] = to(p)
    <3> HIDE DEF to
    <3> QED BY <2>1
  <2> QED BY <2>2, Zenon
<1>9. M \in SUBSET (Messages \X Nat)
  <2> SUFFICES ASSUME NEW q \in M PROVE q \in Messages \X Nat
    BY Zenon
  <2>1. PICK p \in d.mail : q = <<p[1], to(p)>>
    BY <1>4, Zenon
  <2> HIDE DEF to
  <2> QED BY <1>7, <2>1
<1>10. PICK e : e = [d EXCEPT !.box = B, !.mail = M]
  BY Zenon
<1>11. e \in Dbs /\ e.box = B /\ e.last = d.last /\ e.mail = M
  BY <1>1, <1>6, <1>9, <1>10 DEF Dbs
<1>12. MergeInto(d, S, t) = e
  BY <1>3, <1>4, <1>10, Zenon DEF MergeInto
<1>13. e \in Sound
  <2>1. \A q \in M : q[2] \in DOMAIN B
    BY <1>7, <1>8
  <2>2. \A y, z \in DOMAIN B : B[y].addr = B[z].addr => y = z
    BY <1>1, <1>5, Zenon
  <2>3. DOMAIN B \subseteq 1 .. d.last
    BY <1>1, <1>5, Zenon
  <2> QED BY <1>11, <2>1, <2>2, <2>3, Zenon DEF Sound
<1>14. Onward(d, e, {t})
  <2>1. d.last <= e.last
    BY <1>2, <1>11
  <2>2. ASSUME NEW p \in d.mail PROVE \E q \in e.mail : q[1] = p[1]
    <3>1. <<p[1], to(p)>> \in M
      BY <1>4, Zenon
    <3>2. <<p[1], to(p)>>[1] = p[1]
      OBVIOUS
    <3> QED BY <1>11, <3>1, <3>2, Zenon
  <2>3. ASSUME NEW p \in d.mail, p[2] \in DOMAIN e.box PROVE p \in e.mail
    <3>1. <<p[1], to(p)>> \in M
      BY <1>4, Zenon
    <3> QED BY <1>7, <1>11, <2>3, <3>1, Zenon
  <2>4. ASSUME NEW c \in DOMAIN e.box, Wants(e, c), c # t PROVE Wants(d, c) /\ e.box[c] = d.box[c]
    <3>1. c \in DOMAIN d.box /\ e.box[c] = d.box[c] /\ c \notin S
      BY <1>5, <1>11, <2>4, Zenon
    <3>2. PICK q \in M : q[2] = c
      BY <1>11, <2>4, Zenon DEF Wants
    <3>3. PICK p \in d.mail : q[2] = to(p)
      BY <1>8, Zenon
    <3>4. p[2] = c
      BY <2>4, <3>2, <3>3, Zenon
    <3> QED BY <2>4, <3>1, <3>4, Zenon DEF Wants
  <2> QED BY <1>5, <1>11, <2>1, <2>2, <2>3, <2>4, Zenon DEF Onward
<1> QED BY <1>5, <1>11, <1>12, <1>13, <1>14, Zenon

\* A mailbox for an address that has none.
LEMMA Inserted ==
  ASSUME NEW d \in Sound, NEW mt \in Match, BoxAt(d, mt.addr) = {}
  PROVE  LET e == InsertMailbox(d, mt) IN
         e \in Sound /\ Housed(e, mt) /\ Onward(d, e, {})
<1>1. /\ d \in Dbs /\ DOMAIN d.box \subseteq 1 .. d.last
      /\ \A y, z \in DOMAIN d.box : d.box[y].addr = d.box[z].addr => y = z
      /\ \A p \in d.mail : p[2] \in DOMAIN d.box
  BY SoundFacts, Zenon
<1>2. /\ DOMAIN d.box \in SUBSET Nat /\ d.mail \in SUBSET (Messages \X Nat)
      /\ \A c \in DOMAIN d.box : d.box[c] \in Mailbox
      /\ d.last \in Nat
  BY <1>1, DbFacts, Zenon
<1>3. PICK n : n = d.last + 1
  BY Zenon
<1>4. n \in Nat /\ n > d.last /\ n \notin DOMAIN d.box /\ d.last <= n /\ 1 .. d.last \subseteq 1 .. n /\ n \in 1 .. n
  BY <1>1, <1>2, <1>3
<1>5. PICK x : x = [addr |-> mt.addr, owner |-> mt.root]
  BY Zenon
<1>6. x \in Mailbox /\ x.addr = mt.addr /\ x.owner = mt.root /\ x.owner >= mt.root
  <2>1. mt.root \in Int
    BY RoutingAssumption DEF Match, Roots
  <2> QED BY <1>5, <2>1 DEF Match, Mailbox, Roots
<1>7. PICK B : B = [b \in DOMAIN d.box \cup {n} |-> IF b = n THEN x ELSE d.box[b]]
  BY Zenon
<1>8. /\ B \in [DOMAIN d.box \cup {n} -> Mailbox] /\ DOMAIN B = DOMAIN d.box \cup {n} /\ B[n] = x
      /\ \A c \in DOMAIN d.box : B[c] = d.box[c]
  BY <1>2, <1>4, <1>6, <1>7, Zenon
<1>9. B \in Boxes
  <2>1. DOMAIN d.box \cup {n} \in SUBSET Nat
    BY <1>2, <1>4, Zenon
  <2> QED BY <1>8, <2>1, BoxesBuilt, Zenon
<1>10. PICK e : e = [d EXCEPT !.last = n, !.box = B]
  BY Zenon
<1>11. e \in Dbs /\ e.box = B /\ e.last = n /\ e.mail = d.mail
  BY <1>1, <1>4, <1>9, <1>10 DEF Dbs
<1>12. InsertMailbox(d, mt) = e
  <2>1. InsertMailbox(d, mt) =
          [d EXCEPT !.last = d.last + 1,
                    !.box = [b \in DOMAIN d.box \cup {d.last + 1} |->
                               IF b = d.last + 1 THEN [addr |-> mt.addr, owner |-> mt.root] ELSE d.box[b]]]
    BY Zenon DEF InsertMailbox
  <2> QED BY <1>3, <1>5, <1>7, <1>10, <2>1, Zenon
<1>13. e \in Sound
  <2>1. ASSUME NEW y \in DOMAIN B, NEW z \in DOMAIN B, B[y].addr = B[z].addr PROVE y = z
    <3>1. \A c \in DOMAIN d.box : d.box[c].addr # mt.addr
      BY Zenon DEF BoxAt
    <3> QED BY <1>1, <1>6, <1>8, <2>1, <3>1, Zenon
  <2>2. DOMAIN B \subseteq 1 .. n
    BY <1>1, <1>4, <1>8, Zenon
  <2>3. \A p \in d.mail : p[2] \in DOMAIN B
    BY <1>1, <1>8, Zenon
  <2> QED BY <1>11, <2>1, <2>2, <2>3, Zenon DEF Sound
<1>14. Housed(e, mt)
  BY <1>6, <1>8, <1>11, Zenon DEF Housed
<1>15. Onward(d, e, {})
  <2>1. d.last <= e.last
    BY <1>4, <1>11, Zenon
  <2>2. ASSUME NEW c \in DOMAIN e.box, Wants(e, c) PROVE Wants(d, c) /\ e.box[c] = d.box[c]
    <3>1. c \in DOMAIN d.box
      BY <1>1, <1>4, <1>8, <1>11, <2>2, Zenon DEF Wants
    <3>2. e.box[c] = d.box[c]
      BY <1>8, <1>11, <3>1, Zenon
    <3> QED BY <1>11, <2>2, <3>1, <3>2, Zenon DEF Wants
  <2>3. \A b \in DOMAIN e.box : b \in DOMAIN d.box \/ b > d.last
    BY <1>4, <1>8, <1>11, Zenon
  <2> QED BY <1>8, <1>11, <2>1, <2>2, <2>3, Zenon DEF Onward
<1> QED BY <1>12, <1>13, <1>14, <1>15, Zenon

\* A delivery.
LEMMA Delivered ==
  ASSUME NEW d \in Sound, NEW m \in Messages, NEW b \in DOMAIN d.box
  PROVE  LET e == Deliver(d, m, b) IN
         e \in Sound /\ e.box = d.box /\ <<m, b>> \in e.mail /\ Onward(d, e, {b})
<1>1. /\ d \in Dbs /\ DOMAIN d.box \subseteq 1 .. d.last
      /\ \A y, z \in DOMAIN d.box : d.box[y].addr = d.box[z].addr => y = z
      /\ \A p \in d.mail : p[2] \in DOMAIN d.box
  BY SoundFacts, Zenon
<1>2. DOMAIN d.box \in SUBSET Nat /\ d.mail \in SUBSET (Messages \X Nat) /\ d.last \in Nat
  BY <1>1, DbFacts, Zenon
<1>3. PICK M : M = d.mail \cup {<<m, b>>}
  BY Zenon
<1>4. M \in SUBSET (Messages \X Nat) /\ \A p \in M : p \in d.mail \/ p[2] = b
  <2>1. <<m, b>>[2] = b /\ <<m, b>> \in Messages \X Nat
    BY <1>2
  <2> QED BY <1>2, <1>3, <2>1, Zenon
<1>5. PICK e : e = [d EXCEPT !.mail = M]
  BY Zenon
<1>6. e \in Dbs /\ e.box = d.box /\ e.last = d.last /\ e.mail = M
  BY <1>1, <1>4, <1>5, MailReplaced, Zenon
<1>7. Deliver(d, m, b) = e
  BY <1>3, <1>5, Zenon DEF Deliver
<1>8. e \in Sound
  <2>1. \A p \in M : p[2] \in DOMAIN d.box
    BY <1>1, <1>4, Zenon
  <2> QED BY <1>1, <1>6, <2>1, Zenon DEF Sound
<1>9. Onward(d, e, {b})
  <2>1. d.last <= e.last
    BY <1>2, <1>6
  <2>2. ASSUME NEW c \in DOMAIN e.box, Wants(e, c), c # b PROVE Wants(d, c) /\ e.box[c] = d.box[c]
    BY <1>4, <1>6, <2>2, Zenon DEF Wants
  <2> QED BY <1>3, <1>6, <2>1, <2>2, Zenon DEF Onward
<1> QED BY <1>3, <1>6, <1>7, <1>8, <1>9, Zenon

-----------------------------------------------------------------------------
(* Promotions. *)

\* The fields of a match, and the mailbox it would create.
LEMMA MatchFacts ==
  ASSUME NEW mt \in Match
  PROVE  /\ mt.addr \in Addresses /\ mt.root \in Roots /\ mt.root \in Int /\ mt.root >= 0
         /\ LET x == [addr |-> mt.addr, owner |-> mt.root] IN
            x \in Mailbox /\ x.addr = mt.addr /\ x.owner = mt.root /\ x.owner >= mt.root
<1>1. mt.addr \in Addresses /\ mt.root \in Roots
  BY DEF Match
<1>2. mt.root \in Int /\ mt.root >= 0 /\ mt.root >= mt.root
  BY <1>1, RoutingAssumption DEF Roots
<1>3. PICK a, r : a = mt.addr /\ r = mt.root
  BY Zenon
<1>4. [addr |-> a, owner |-> r] \in Mailbox
  BY <1>1, <1>3 DEF Mailbox
<1>5. [addr |-> a, owner |-> r].addr = a /\ [addr |-> a, owner |-> r].owner = r
  OBVIOUS
<1> QED BY <1>1, <1>2, <1>3, <1>4, <1>5, Zenon

\* The fields of a mailbox.
LEMMA MailboxFacts ==
  ASSUME NEW x \in Mailbox
  PROVE  x.addr \in Addresses /\ x.owner \in Roots /\ x.owner \in Int /\ x.owner >= 0
<1>1. x.addr \in Addresses /\ x.owner \in Roots
  BY DEF Mailbox
<1> QED BY <1>1, RoutingAssumption DEF Roots

\* A mailbox that is housed for a match that fits is not due.
LEMMA FitsFacts ==
  ASSUME NEW e \in Sound, NEW mt, Fits(mt), NEW b \in DOMAIN e.box,
         e.box[b].addr = mt.addr, e.box[b].owner >= mt.root
  PROVE  ~Wants(e, b)
<1>1. e.box[b] \in Mailbox
  BY SoundFacts, DbFacts, Zenon
<1> QED BY <1>1, Zenon DEF Fits, Wants

\* A mailbox at the address of the match that needs no promotion.
LEMMA NoNeed ==
  ASSUME NEW mt \in Match, NEW x \in Mailbox, ~NeedsPromotion(x, mt)
  PROVE  x.owner >= mt.root
<1>1. mt.root \in Int /\ mt.root >= 0 /\ x.owner \in Int /\ x.owner >= 0
  BY MatchFacts, MailboxFacts, Zenon
<1> QED BY <1>1 DEF NeedsPromotion

\* promote_mailbox_ownership keeps the database sound and every message, gives
\* the match a mailbox and leaves the promoted one settled.
LEMMA Promoted ==
  ASSUME NEW d \in Sound, NEW b \in DOMAIN d.box, NEW mt \in Match, NeedsPromotion(d.box[b], mt), Fits(mt)
  PROVE  LET e == PromoteOwnership(d, b, mt) IN
         e \in Sound /\ Housed(e, mt) /\ Onward(d, e, {}) /\ ~Wants(e, b)
<1>1. /\ d \in Dbs /\ \A y, z \in DOMAIN d.box : d.box[y].addr = d.box[z].addr => y = z
      /\ \A c \in DOMAIN d.box : d.box[c] \in Mailbox
  BY SoundFacts, DbFacts, Zenon
<1>2. PICK e : e = PromoteOwnership(d, b, mt)
  BY Zenon
<1>3. PICK others : others = BoxAt(d, mt.addr) \ {b}
  BY Zenon
<1>4. PICK x : x = [addr |-> mt.addr, owner |-> mt.root]
  BY Zenon
<1>5. x \in Mailbox /\ x.addr = mt.addr /\ x.owner = mt.root /\ x.owner >= mt.root
  BY <1>4, MatchFacts, Zenon
<1>6. CASE others = {}
  <2>1. e = Place(d, b, x)
    BY <1>2, <1>3, <1>4, <1>6, Zenon DEF PromoteOwnership, Place
  <2>2. \A c \in DOMAIN d.box : c # b => d.box[c].addr # x.addr
    BY <1>3, <1>5, <1>6, Zenon DEF BoxAt
  <2>3. e \in Sound /\ DOMAIN e.box = DOMAIN d.box /\ e.box[b] = x /\ Onward(d, e, {b})
    <3>1. x \in Mailbox
      BY <1>5, Zenon
    <3>2. LET f == Place(d, b, x) IN
          /\ f \in Sound /\ f.last = d.last /\ f.mail = d.mail
          /\ DOMAIN f.box = DOMAIN d.box /\ f.box[b] = x
          /\ \A c \in DOMAIN d.box : c # b => f.box[c] = d.box[c]
          /\ Onward(d, f, {b})
      BY <2>2, <3>1, Placed, Zenon
    <3> QED BY <2>1, <3>2, Zenon
  <2>4. Housed(e, mt)
    BY <1>5, <2>3, Zenon DEF Housed
  <2>5. ~Wants(e, b)
    BY <1>5, <2>3, FitsFacts, Zenon
  <2>6. Onward(d, e, {})
    BY <2>3, <2>5, OnwardSettled, Zenon
  <2> QED BY <1>2, <2>3, <2>4, <2>5, <2>6, Zenon
<1>7. CASE others # {}
  <2>1. PICK t : t = CHOOSE z \in others : TRUE
    BY Zenon
  <2>2. t \in others
    BY <1>7, <2>1, Zenon
  <2>3. t \in DOMAIN d.box /\ d.box[t].addr = mt.addr /\ t # b
    BY <1>3, <2>2, Zenon DEF BoxAt
  <2>4. PICK up : up = NeedsPromotion(d.box[t], mt)
    BY Zenon
  <2>5. PICK o : o = IF up THEN mt.root ELSE d.box[t].owner
    BY Zenon
  <2>6. PICK y : y = [addr |-> mt.addr, owner |-> o]
    BY Zenon
  <2>7. d.box[t].owner \in Roots /\ mt.root \in Roots /\ mt.addr \in Addresses
    BY <1>1, <2>3, MailboxFacts, MatchFacts, Zenon
  <2>8. o \in Roots /\ o >= mt.root
    <3>1. CASE up
      BY <1>5, <2>5, <2>7, <3>1, Zenon
    <3>2. CASE ~up
      BY <1>1, <2>3, <2>4, <2>5, <2>7, <3>2, NoNeed, Zenon
    <3> QED BY <3>1, <3>2, Zenon
  <2>9. y \in Mailbox /\ y.addr = mt.addr /\ y.owner = o
    BY <2>6, <2>7, <2>8 DEF Mailbox
  <2>10. PICK f : f = Place(d, t, y)
    BY Zenon
  <2>11. [d EXCEPT !.box[t].owner = IF up THEN mt.root ELSE @] = f
    <3>1. [d.box[t] EXCEPT !.owner = IF up THEN mt.root ELSE @] = y
      BY <1>1, <2>3, <2>5, <2>6 DEF Mailbox
    <3> QED BY <2>10, <3>1 DEF Place
  <2>12. \A c \in DOMAIN d.box : c # t => d.box[c].addr # y.addr
    BY <1>1, <2>3, <2>9, Zenon
  <2>13. f \in Sound /\ DOMAIN f.box = DOMAIN d.box /\ f.box[t] = y /\ Onward(d, f, {t})
    <3>1. t \in DOMAIN d.box /\ y \in Mailbox
      BY <2>3, <2>9, Zenon
    <3>2. LET g == Place(d, t, y) IN
          /\ g \in Sound /\ g.last = d.last /\ g.mail = d.mail
          /\ DOMAIN g.box = DOMAIN d.box /\ g.box[t] = y
          /\ \A c \in DOMAIN d.box : c # t => g.box[c] = d.box[c]
          /\ Onward(d, g, {t})
      BY <2>12, <3>1, Placed, Zenon
    <3> QED BY <2>10, <3>2, Zenon
  <2>14. e = MergeInto(f, {b}, t)
    BY <1>2, <1>3, <1>7, <2>1, <2>4, <2>11, Zenon DEF PromoteOwnership
  <2>15. {b} \subseteq DOMAIN f.box /\ t \in DOMAIN f.box /\ t \notin {b}
    BY <2>3, <2>13, Zenon
  <2>16. /\ e \in Sound /\ DOMAIN e.box = DOMAIN f.box \ {b} /\ Onward(f, e, {t})
         /\ \A c \in DOMAIN e.box : e.box[c] = f.box[c]
    <3>1. PICK S : S = {b}
      BY Zenon
    <3>2. LET g == MergeInto(f, S, t) IN
          /\ g \in Sound /\ g.last = f.last /\ DOMAIN g.box = DOMAIN f.box \ S
          /\ \A c \in DOMAIN g.box : g.box[c] = f.box[c]
          /\ Onward(f, g, {t})
      <4>1. f \in Sound /\ S \subseteq DOMAIN f.box /\ t \in DOMAIN f.box /\ t \notin S
        BY <2>13, <2>15, <3>1, Zenon
      <4> QED BY <4>1, Merged, Zenon
    <3> QED BY <2>14, <3>1, <3>2, Zenon
  <2>17. t \in DOMAIN e.box /\ e.box[t] = y /\ b \notin DOMAIN e.box
    BY <2>13, <2>15, <2>16, Zenon
  <2>18. Housed(e, mt)
    BY <2>8, <2>9, <2>17, Zenon DEF Housed
  <2>19. ~Wants(e, t)
    BY <2>8, <2>9, <2>16, <2>17, FitsFacts, Zenon
  <2>20. Onward(d, e, {t})
    BY <2>13, <2>16, OnwardTwice, Zenon
  <2>21. Onward(d, e, {})
    BY <2>19, <2>20, OnwardSettled, Zenon
  <2>22. ~Wants(e, b)
    BY <2>17, Zenon DEF Wants
  <2> QED BY <1>2, <2>16, <2>18, <2>21, <2>22, Zenon
<1> QED BY <1>6, <1>7, Zenon

-----------------------------------------------------------------------------
(* Induction, and the greatest element of a set of numbers. *)

\* A set of natural numbers that is not empty has a least one.
LEMMA Least ==
  ASSUME NEW S, S \subseteq Nat, S # {}
  PROVE  \E x \in S : \A y \in S : x <= y
<1>1. PICK x \in S : \A y \in S : ~(<<y, x>> \in OpToRel(<, Nat))
  BY WFMin, NatLessThanWellFounded, Zenon
<1>2. \A y \in S : ~(y < x)
  BY <1>1, Zenon DEF OpToRel
<1>3. x \in Nat /\ \A y \in S : y \in Nat
  BY Zenon
<1> QED BY <1>2, <1>3

\* Induction over the naturals, with the property given as a set.
LEMMA NatSetInduction ==
  ASSUME NEW T, 0 \in T, \A n \in Nat : n \in T => n + 1 \in T
  PROVE  \A n \in Nat : n \in T
<1> SUFFICES ASSUME NEW n \in Nat, n \notin T PROVE FALSE
  OBVIOUS
<1>1. PICK Bad : Bad = {k \in Nat : k \notin T}
  BY Zenon
<1>2. Bad \subseteq Nat /\ Bad # {}
  BY <1>1, Zenon
<1>3. PICK x \in Bad : \A y \in Bad : x <= y
  BY <1>2, Least, Zenon
<1>4. x \in Nat /\ x # 0 /\ x \notin T
  BY <1>1, <1>3, Zenon
<1>5. x - 1 \in Nat /\ ~(x <= x - 1) /\ (x - 1) + 1 = x
  BY <1>4
<1>6. x - 1 \in T
  BY <1>1, <1>3, <1>5, Zenon
<1>7. (x - 1) + 1 \in T
  BY <1>5, <1>6, Zenon
<1> QED BY <1>4, <1>5, <1>7, Zenon

\* The sets of numbers the model goes through are finite because they have a
\* bound.
Bounded(S) == \E n \in Nat : \A x \in S : x <= n

\* A set of numbers with a bound has a greatest one.
LEMMA Greatest ==
  ASSUME NEW S, S \subseteq Nat, S # {}, Bounded(S)
  PROVE  Max(S) \in S /\ \A y \in S : Max(S) >= y
<1>1. PICK U : U = {n \in Nat : \A x \in S : x <= n}
  BY Zenon
<1>2. U \subseteq Nat /\ U # {}
  BY <1>1, Zenon DEF Bounded
<1>3. PICK m \in U : \A n \in U : m <= n
  BY <1>2, Least, Zenon
<1>4. m \in Nat /\ \A x \in S : x \in Nat /\ x <= m
  BY <1>1, <1>3, Zenon
<1>5. m \in S
  <2> SUFFICES ASSUME m \notin S PROVE FALSE
    OBVIOUS
  <2>1. PICK s \in S : TRUE
    BY Zenon
  <2>2. \A x \in S : x \in Nat /\ x <= m /\ x # m
    BY <1>4, Zenon
  <2>3. m - 1 \in Nat /\ ~(m <= m - 1) /\ \A x \in S : x <= m - 1
    BY <1>4, <2>1, <2>2
  <2>4. m - 1 \in U
    BY <1>1, <2>3, Zenon
  <2> QED BY <1>3, <2>3, <2>4, Zenon
<1>6. \A y \in S : m >= y
  BY <1>4
<1> QED BY <1>5, <1>6, Zenon DEF Max

\* A subset of a bounded set is bounded.
LEMMA BoundedPart ==
  ASSUME NEW S, Bounded(S), NEW A, A \subseteq S
  PROVE  Bounded(A)
BY Zenon DEF Bounded

-----------------------------------------------------------------------------
(* The rules. *)

Rules == [Roots -> [ver : Nat, there : BOOLEAN, on : RuleState, strip : BOOLEAN]]

\* The match of an address by the rules R.
Active(R) == {r \in Roots : R[r].there /\ R[r].on # "off"}
Found(R, r, a) == [root |-> r, ver |-> R[r].ver, addr |-> IF R[r].strip THEN "base" ELSE a]
MatchIn(R, a) ==
  IF Active(R) = {} THEN NoMatch
  ELSE IF R[Max(Active(R))].on = "deaf" THEN NoMatch
  ELSE Found(R, Max(Active(R)), a)

\* The match of an address by the present rules.
LEMMA MatchIs == \A a : MatchAddress(a) = MatchIn(rule, a)
BY Zenon DEF MatchAddress, MatchIn, Found, Active

\* The rule of root r decides where an address goes.
Decides(R, r) == r \in Active(R) /\ R[r].on = "on" /\ \A s \in Active(R) : r >= s

\* The roots are numbers up to TopRoot, the catch-all the least.
LEMMA RootsFacts ==
  /\ Bounded(Roots) /\ Roots \subseteq Nat /\ Roots \subseteq Int
  /\ 0 \in Roots /\ \A r \in Roots : r >= 0
<1>1. \A r \in Roots : r <= TopRoot
  BY RoutingAssumption DEF Roots
<1>2. Bounded(Roots)
  BY <1>1, RoutingAssumption, Zenon DEF Bounded
<1>3. Roots \subseteq Nat /\ Roots \subseteq Int /\ 0 \in Roots /\ \A r \in Roots : r >= 0
  BY RoutingAssumption DEF Roots
<1> QED BY <1>2, <1>3

\* The fields of a rule.
LEMMA RuleFacts ==
  ASSUME NEW R \in Rules, NEW r \in Roots
  PROVE  R[r].ver \in Nat /\ R[r].there \in BOOLEAN /\ R[r].on \in RuleState /\ R[r].strip \in BOOLEAN
BY DEF Rules

\* Only one rule decides.
LEMMA OneDecides ==
  ASSUME NEW R \in Rules, NEW r, Decides(R, r)
  PROVE  r \in Roots /\ \A a : MatchIn(R, a) = Found(R, r, a)
<1>1. r \in Active(R) /\ \A s \in Active(R) : r >= s
  BY Zenon DEF Decides
<1>2. Active(R) \subseteq Roots
  BY Zenon DEF Active
<1>3. Max(Active(R)) \in Active(R) /\ \A s \in Active(R) : Max(Active(R)) >= s
  <2>1. Bounded(Active(R)) /\ Active(R) \subseteq Nat /\ Active(R) # {}
    BY <1>1, <1>2, RootsFacts, BoundedPart, Zenon
  <2> QED BY <2>1, Greatest, Zenon
<1>4. \A x, y \in Active(R) : x >= y /\ y >= x => x = y
  <2>1. \A x, y \in Int : x >= y /\ y >= x => x = y
    OBVIOUS
  <2> QED BY <1>2, <2>1, RootsFacts, Zenon
<1>5. Max(Active(R)) = r
  BY <1>1, <1>3, <1>4, Zenon
<1>6. R[r].on # "deaf" /\ Active(R) # {}
  <2>1. R[r].on = "on"
    BY Zenon DEF Decides
  <2>2. "on" # "deaf"
    OBVIOUS
  <2> QED BY <1>1, <2>1, <2>2, Zenon
<1> QED BY <1>1, <1>2, <1>5, <1>6, Zenon DEF MatchIn

\* Either a rule decides or no address has a match.
LEMMA SomeDecides ==
  ASSUME NEW R \in Rules
  PROVE  (\E r \in Roots : Decides(R, r)) \/ \A a : MatchIn(R, a) = NoMatch
<1>1. Active(R) \subseteq Roots
  BY Zenon DEF Active
<1>2. CASE Active(R) = {}
  BY <1>2, Zenon DEF MatchIn
<1>3. CASE Active(R) # {}
  <2>1. PICK r : r = Max(Active(R))
    BY Zenon
  <2>2. r \in Active(R) /\ \A s \in Active(R) : r >= s
    <3>1. Bounded(Active(R)) /\ Active(R) \subseteq Nat
      BY <1>1, RootsFacts, BoundedPart, Zenon
    <3> QED BY <1>3, <2>1, <3>1, Greatest, Zenon
  <2>3. CASE R[r].on = "deaf"
    BY <1>3, <2>1, <2>3, Zenon DEF MatchIn
  <2>4. CASE R[r].on # "deaf"
    <3>1. r \in Roots /\ R[r].on # "off"
      BY <2>2, Zenon DEF Active
    <3>2. R[r].on = "on"
      BY <2>4, <3>1, RuleFacts DEF RuleState
    <3> QED BY <2>2, <3>1, <3>2, Zenon DEF Decides
  <2> QED BY <2>3, <2>4, Zenon
<1> QED BY <1>2, <1>3, Zenon

\* The match that a rule gives.
LEMMA FoundFacts ==
  ASSUME NEW R \in Rules, NEW r \in Roots, NEW a \in Addresses
  PROVE  LET mt == Found(R, r, a) IN
         /\ mt \in Match /\ mt.root = r /\ mt.ver = R[r].ver /\ mt.addr \in {a, "base"}
         /\ mt # NoMatch /\ Found(R, r, mt.addr).addr = mt.addr
<1>1. R[r].ver \in Nat /\ R[r].strip \in BOOLEAN
  BY RuleFacts, Zenon
<1>2. PICK c : c = IF R[r].strip THEN "base" ELSE a
  BY Zenon
<1>3. c \in {a, "base"} /\ c \in Addresses /\ (IF R[r].strip THEN "base" ELSE c) = c
  BY <1>1, <1>2 DEF Addresses
<1>4. r \in Int /\ r >= 0
  BY RootsFacts
<1>5. PICK mt : mt = [root |-> r, ver |-> R[r].ver, addr |-> c]
  BY Zenon
<1>6. mt \in Match /\ mt.root = r /\ mt.ver = R[r].ver /\ mt.addr = c /\ mt # NoMatch
  BY <1>1, <1>3, <1>4, <1>5 DEF Match, NoMatch
<1>7. Found(R, r, a) = mt /\ Found(R, r, c).addr = c
  BY <1>2, <1>3, <1>5 DEF Found
<1> QED BY <1>3, <1>6, <1>7, Zenon

\* An address nobody accepts promotes nothing.
LEMMA NoMatchFacts == NoMatch.root = -1 /\ \A x : ~NeedsPromotion(x, NoMatch)
BY DEF NoMatch, NeedsPromotion

\* The rule that decides fits, and so does every match when there is no managed one.
LEMMA FoundFits ==
  ASSUME rule \in Rules, NEW r, Decides(rule, r), NEW a \in Addresses
  PROVE  Fits(Found(rule, r, a))
<1>1. r \in Roots /\ \A c : MatchAddress(c) = Found(rule, r, c)
  BY OneDecides, MatchIs, Zenon
<1>2. PICK mt : mt = Found(rule, r, a)
  BY Zenon
<1>3. mt \in Match /\ mt.root = r /\ Found(rule, r, mt.addr).addr = mt.addr
  BY <1>1, <1>2, FoundFacts, Zenon
<1>4. Found(rule, r, mt.addr).root = r
  BY <1>1, <1>3, FoundFacts, MatchFacts, Zenon
<1>5. ASSUME NEW x \in Mailbox, x.addr = mt.addr, x.owner >= mt.root
      PROVE  ~NeedsPromotion(x, MatchAddress(x.addr))
  <2>1. PICK now : now = MatchAddress(x.addr)
    BY Zenon
  <2>2. now.root = mt.root /\ now.addr = mt.addr
    BY <1>1, <1>3, <1>4, <1>5, <2>1, Zenon
  <2>3. x.owner \in Int /\ mt.root \in Int
    BY <1>3, MailboxFacts, MatchFacts, Zenon
  <2>4. ~NeedsPromotion(x, now)
    BY <1>5, <2>2, <2>3 DEF NeedsPromotion
  <2> QED BY <2>1, <2>4, Zenon
<1> QED BY <1>2, <1>5, Zenon DEF Fits

\* Where no managed rule matches, nothing is due.
LEMMA NoneFits ==
  ASSUME rule \in Rules, NEW a \in Addresses, ~(MatchAddress(a).root > 0), NEW mt
  PROVE  Fits(mt)
<1>1. CASE \A c : MatchIn(rule, c) = NoMatch
  BY <1>1, MatchIs, NoMatchFacts, Zenon DEF Fits
<1>2. CASE \E r \in Roots : Decides(rule, r)
  <2>1. PICK r \in Roots : Decides(rule, r)
    BY <1>2
  <2>2. \A c : MatchAddress(c) = Found(rule, r, c)
    BY <2>1, OneDecides, MatchIs, Zenon
  <2>3. \A c \in Addresses : MatchAddress(c).root = r
    BY <2>2, FoundFacts, Zenon
  <2>4. \A x \in Mailbox : ~(MatchAddress(x.addr).root > 0)
    BY <2>3, MailboxFacts, Zenon
  <2> QED BY <2>4, Zenon DEF Fits, NeedsPromotion
<1> QED BY <1>1, <1>2, SomeDecides, Zenon

\* The match of an address by the present rules.
LEMMA NowFits ==
  ASSUME rule \in Rules, NEW a \in Addresses, MatchAddress(a) # NoMatch
  PROVE  /\ MatchAddress(a) \in Match /\ Fits(MatchAddress(a))
         /\ Decides(rule, MatchAddress(a).root) /\ MatchAddress(a).ver = rule[MatchAddress(a).root].ver
<1>1. PICK r \in Roots : Decides(rule, r)
  BY SomeDecides, MatchIs, Zenon
<1>2. MatchAddress(a) = Found(rule, r, a)
  BY <1>1, OneDecides, MatchIs, Zenon
<1>3. Found(rule, r, a) \in Match /\ Found(rule, r, a).root = r /\ Found(rule, r, a).ver = rule[r].ver
  BY FoundFacts, Zenon
<1> QED BY <1>1, <1>2, <1>3, FoundFits, Zenon

\* What RCPT accepted.
Recipient == [to : Addresses, match : Match]

\* The fields of an accepted recipient.
LEMMA RecipientFacts ==
  ASSUME NEW rc \in Recipient
  PROVE  /\ rc.to \in Addresses /\ rc.match \in Match
         /\ rc.match.root \in Roots /\ rc.match.ver \in Nat /\ rc.match.addr \in Addresses
BY DEF Recipient, Match

\* ingestd's match fits unless the rule of the recipient is off.
LEMMA CurrentFits ==
  ASSUME rule \in Rules, NEW rc \in Recipient, SameRule(rc.match)
  PROVE  CurrentDomainMatch(rc) \in Match /\ (rule[rc.match.root].on # "off" => Fits(CurrentDomainMatch(rc)))
<1>1. rc.to \in Addresses /\ rc.match \in Match /\ rc.match.root \in Roots
  BY RecipientFacts, Zenon
<1>2. PICK now, old : now = MatchAddress(rc.to) /\ old = rc.match
  BY Zenon
<1>3. CASE rule[old.root].on # "off" /\ now # NoMatch /\ CanAdvance(old, now)
  BY <1>1, <1>2, <1>3, NowFits, Zenon DEF CurrentDomainMatch
<1>4. CASE ~(rule[old.root].on # "off" /\ now # NoMatch /\ CanAdvance(old, now))
  <2>1. CurrentDomainMatch(rc) = old
    BY <1>2, <1>4, Zenon DEF CurrentDomainMatch
  <2>2. ASSUME rule[old.root].on # "off" PROVE now = NoMatch
    <3> SUFFICES ASSUME now # NoMatch PROVE FALSE
      OBVIOUS
    <3>1. Decides(rule, now.root) /\ now.ver = rule[now.root].ver /\ now \in Match
      BY <1>1, <1>2, NowFits, Zenon
    <3>2. old.root \in Active(rule) /\ rule[old.root].ver = old.ver
      BY <1>1, <1>2, <2>2, Zenon DEF Active, SameRule
    <3>3. now.root >= old.root /\ now.root \in Int /\ old.root \in Int
      BY <1>1, <1>2, <3>1, <3>2, MatchFacts, Zenon DEF Decides
    <3>4. now.root > old.root \/ now.root = old.root
      BY <3>3
    <3>5. CanAdvance(old, now)
      BY <3>1, <3>2, <3>4, Zenon DEF CanAdvance
    <3> QED BY <1>4, <2>2, <3>5, Zenon
  <2>3. ASSUME rule[old.root].on # "off" PROVE Fits(old)
    <3>1. ~(MatchAddress(rc.to).root > 0)
      BY <1>2, <2>2, <2>3, NoMatchFacts
    <3> QED BY <1>1, <3>1, NoneFits, Zenon
  <2> QED BY <1>1, <1>2, <2>1, <2>3, Zenon
<1> QED BY <1>3, <1>4, Zenon

\* The match of a replay fits.
LEMMA RecoveryFits ==
  ASSUME rule \in Rules, NEW rc \in Recipient
  PROVE  RecoveryMatch(rc) \in Match /\ Fits(RecoveryMatch(rc))
<1>1. rc.to \in Addresses /\ rc.match \in Match
  BY RecipientFacts, Zenon
<1>2. PICK now : now = MatchAddress(rc.to)
  BY Zenon
<1>3. CASE now # NoMatch /\ (now.root > 0 \/ rc.match.root = 0)
  BY <1>1, <1>2, <1>3, NowFits, Zenon DEF RecoveryMatch
<1>4. CASE ~(now # NoMatch /\ (now.root > 0 \/ rc.match.root = 0))
  <2>1. RecoveryMatch(rc) = rc.match
    BY <1>2, <1>4, Zenon DEF RecoveryMatch
  <2>2. ~(now.root > 0)
    BY <1>4, NoMatchFacts
  <2> QED BY <1>1, <1>2, <2>1, <2>2, NoneFits, Zenon
<1> QED BY <1>3, <1>4, Zenon

-----------------------------------------------------------------------------
(* One recipient of a message. *)

\* The mailbox a writer looks up at the address of the match.
LEMMA HousedBox ==
  ASSUME NEW e \in Sound, NEW mt, Housed(e, mt)
  PROVE  LET b == TheBox(e, mt.addr) IN
         b \in DOMAIN e.box /\ e.box[b].addr = mt.addr /\ e.box[b].owner >= mt.root
<1>1. PICK c \in DOMAIN e.box : e.box[c].addr = mt.addr /\ e.box[c].owner >= mt.root
  BY Zenon DEF Housed
<1>2. c \in BoxAt(e, mt.addr)
  BY <1>1, Zenon DEF BoxAt
<1>3. TheBox(e, mt.addr) \in BoxAt(e, mt.addr)
  BY <1>2, Zenon DEF TheBox
<1>4. TheBox(e, mt.addr) \in DOMAIN e.box /\ e.box[TheBox(e, mt.addr)].addr = mt.addr
  BY <1>3, Zenon DEF BoxAt
<1>5. TheBox(e, mt.addr) = c
  BY <1>1, <1>4, SoundFacts, Zenon
<1> QED BY <1>1, <1>4, <1>5, Zenon

\* The message is delivered to the mailbox for the match.
LEMMA Written ==
  ASSUME NEW d \in Sound, NEW e \in Sound, NEW mt, Housed(e, mt), NEW m \in Messages,
         Onward(d, e, {TheBox(e, mt.addr)})
  PROVE  LET f == Deliver(e, m, TheBox(e, mt.addr)) IN
         /\ f \in Sound /\ Onward(d, f, {b \in DOMAIN f.box : <<m, b>> \in f.mail})
         /\ \E p \in f.mail : p[1] = m
         /\ Fits(mt) => Onward(d, f, {})
<1>1. PICK b : b = TheBox(e, mt.addr)
  BY Zenon
<1>2. b \in DOMAIN e.box /\ e.box[b].addr = mt.addr /\ e.box[b].owner >= mt.root
  BY <1>1, HousedBox, Zenon
<1>3. PICK f : f = Deliver(e, m, b)
  BY Zenon
<1>4. f \in Sound /\ f.box = e.box /\ <<m, b>> \in f.mail /\ Onward(e, f, {b})
  BY <1>2, <1>3, Delivered, Zenon
<1>5. Onward(d, f, {b})
  BY <1>1, <1>4, OnwardTwice, Zenon
<1>6. {b} \subseteq {c \in DOMAIN f.box : <<m, c>> \in f.mail}
  BY <1>2, <1>4, Zenon
<1>7. Onward(d, f, {c \in DOMAIN f.box : <<m, c>> \in f.mail})
  BY <1>5, <1>6, OnwardMore, Zenon
<1>8. \E p \in f.mail : p[1] = m
  <2>1. <<m, b>>[1] = m
    OBVIOUS
  <2> QED BY <1>4, <2>1, Zenon
<1>9. ASSUME Fits(mt) PROVE Onward(d, f, {})
  <2>1. ~Wants(f, b)
    BY <1>2, <1>4, <1>9, FitsFacts, Zenon
  <2> QED BY <1>5, <2>1, OnwardSettled, Zenon
<1> QED BY <1>1, <1>3, <1>4, <1>7, <1>8, <1>9, Zenon

\* The mailbox of the SMTP path.
LEMMA Upserted ==
  ASSUME NEW d \in Sound, NEW mt \in Match, Fits(mt)
  PROVE  LET e == UpsertMailbox(d, mt) IN
         e \in Sound /\ Housed(e, mt) /\ Onward(d, e, {})
<1>1. CASE BoxAt(d, mt.addr) = {}
  BY <1>1, Inserted, Zenon DEF UpsertMailbox
<1>2. CASE BoxAt(d, mt.addr) # {}
  <2>1. PICK b : b = TheBox(d, mt.addr)
    BY Zenon
  <2>2. b \in DOMAIN d.box /\ d.box[b].addr = mt.addr
    BY <1>2, <2>1, Zenon DEF TheBox, BoxAt
  <2>3. UpsertMailbox(d, mt) = PromoteOwnership(d, b, mt)
    BY <1>2, <2>1, Zenon DEF UpsertMailbox
  <2>4. CASE NeedsPromotion(d.box[b], mt)
    <3>1. LET e == PromoteOwnership(d, b, mt) IN
          e \in Sound /\ Housed(e, mt) /\ Onward(d, e, {}) /\ ~Wants(e, b)
      BY <2>2, <2>4, Promoted, Zenon
    <3> QED BY <2>3, <3>1, Zenon
  <2>5. CASE ~NeedsPromotion(d.box[b], mt)
    <3>1. UpsertMailbox(d, mt) = d
      BY <2>2, <2>3, <2>5, Zenon DEF PromoteOwnership
    <3>2. d.box[b] \in Mailbox
      BY <2>2, SoundFacts, DbFacts, Zenon
    <3>3. Housed(d, mt)
      BY <2>2, <2>5, <3>2, NoNeed, Zenon DEF Housed
    <3> QED BY <3>1, <3>3, OnwardSame, Zenon
  <2> QED BY <2>4, <2>5, Zenon
<1> QED BY <1>1, <1>2, Zenon

\* The mailbox of a replay.
LEMMA Recovered ==
  ASSUME NEW d \in Sound, NEW rc \in Recipient, NEW mt \in Match, Fits(mt)
  PROVE  LET e == RecoveryMailbox(d, rc, mt) IN
         e \in Sound /\ Housed(e, mt) /\ Onward(d, e, {})
<1>1. PICK first, second : first = BoxAt(d, mt.addr) /\ second = BoxAt(d, rc.match.addr)
  BY Zenon
<1>2. PICK one, two : one = (CHOOSE b \in first : TRUE) /\ two = (CHOOSE b \in second : TRUE)
  BY Zenon
<1>3. /\ first # {} => one \in first /\ one \in DOMAIN d.box /\ d.box[one].addr = mt.addr
      /\ second # {} => two \in DOMAIN d.box
  BY <1>1, <1>2, Zenon DEF BoxAt
<1>4. RecoveryMailbox(d, rc, mt) =
        IF first # {} /\ NeedsPromotion(d.box[one], mt) THEN PromoteOwnership(d, one, mt)
        ELSE IF second # {} /\ NeedsPromotion(d.box[two], mt) THEN PromoteOwnership(d, two, mt)
        ELSE IF first # {} THEN d ELSE InsertMailbox(d, mt)
  BY <1>1, <1>2 DEF RecoveryMailbox
<1>5. \A b \in DOMAIN d.box : NeedsPromotion(d.box[b], mt) =>
        LET e == PromoteOwnership(d, b, mt) IN
        e \in Sound /\ Housed(e, mt) /\ Onward(d, e, {}) /\ ~Wants(e, b)
  BY Promoted, Zenon
<1>6. CASE first # {} /\ NeedsPromotion(d.box[one], mt)
  BY <1>3, <1>4, <1>5, <1>6, Zenon
<1>7. CASE ~(first # {} /\ NeedsPromotion(d.box[one], mt)) /\ second # {} /\ NeedsPromotion(d.box[two], mt)
  BY <1>3, <1>4, <1>5, <1>7, Zenon
<1>8. CASE /\ ~(first # {} /\ NeedsPromotion(d.box[one], mt))
           /\ ~(second # {} /\ NeedsPromotion(d.box[two], mt)) /\ first # {}
  <2>1. d.box[one] \in Mailbox
    BY <1>3, <1>8, SoundFacts, DbFacts, Zenon
  <2>2. Housed(d, mt)
    BY <1>3, <1>8, <2>1, NoNeed, Zenon DEF Housed
  <2> QED BY <1>4, <1>8, <2>2, OnwardSame, Zenon
<1>9. CASE first = {} /\ ~(second # {} /\ NeedsPromotion(d.box[two], mt))
  BY <1>1, <1>4, <1>9, Inserted, Zenon
<1> QED BY <1>6, <1>7, <1>8, <1>9, Zenon

\* The mailbox of ingestd: only the mailbox of the match itself may become due.
LEMMA Ingested ==
  ASSUME NEW d \in Sound, NEW rc \in Recipient, NEW mt \in Match
  PROVE  LET e == IngestMailbox(d, rc, mt) IN
         e \in Sound /\ Housed(e, mt) /\ Onward(d, e, {TheBox(e, mt.addr)})
<1>1. PICK exact, sources : exact = BoxAt(d, mt.addr) /\ sources = CatchAllSources(d, rc, mt)
  BY Zenon
<1>2. PICK target : target = IF exact # {} THEN exact ELSE sources
  BY Zenon
<1>3. PICK t : t = CHOOSE b \in target : TRUE
  BY Zenon
<1>4. IngestMailbox(d, rc, mt) =
        IF target = {} THEN InsertMailbox(d, mt) ELSE MergeInto(TakeIdentity(d, t, mt), sources \ {t}, t)
  BY <1>1, <1>2, <1>3 DEF IngestMailbox
<1>5. /\ \A y, z \in DOMAIN d.box : d.box[y].addr = d.box[z].addr => y = z
      /\ \A c \in DOMAIN d.box : d.box[c] \in Mailbox
  BY SoundFacts, DbFacts, Zenon
<1>6. /\ exact \subseteq DOMAIN d.box /\ sources \subseteq DOMAIN d.box
      /\ ~(mt.root > 0) => sources = {}
      /\ \A c \in DOMAIN d.box : c \in exact <=> d.box[c].addr = mt.addr
  BY <1>1, Zenon DEF BoxAt, CatchAllSources
<1>7. CASE target = {}
  <2>1. exact = {}
    BY <1>2, <1>7, Zenon
  <2>2. LET e == InsertMailbox(d, mt) IN e \in Sound /\ Housed(e, mt) /\ Onward(d, e, {})
    BY <1>1, <2>1, Inserted, Zenon
  <2> QED BY <1>4, <1>7, <2>2, OnwardAny, Zenon
<1>8. CASE target # {}
  <2>1. t \in target
    BY <1>3, <1>8, Zenon
  <2>2. t \in DOMAIN d.box /\ (exact # {} => t \in exact)
    BY <1>2, <1>6, <2>1, Zenon
  <2>3. PICK f : f = TakeIdentity(d, t, mt)
    BY Zenon
  <2>4. f \in Sound /\ DOMAIN f.box = DOMAIN d.box /\ Onward(d, f, {t})
        /\ f.box[t].addr = mt.addr /\ f.box[t].owner >= mt.root
    <3>3. ASSUME NEW x \in Mailbox, \A c \in DOMAIN d.box : c # t => d.box[c].addr # x.addr
          PROVE  LET g == Place(d, t, x) IN
                 /\ g \in Sound /\ g.last = d.last /\ g.mail = d.mail
                 /\ DOMAIN g.box = DOMAIN d.box /\ g.box[t] = x
                 /\ \A c \in DOMAIN d.box : c # t => g.box[c] = d.box[c]
                 /\ Onward(d, g, {t})
      <4>1. t \in DOMAIN d.box
        BY <2>2, Zenon
      <4> QED BY <3>3, <4>1, Placed, Zenon
    <3>1. CASE d.box[t].owner = mt.root \/ mt.root > 0
      <4>1. PICK x : x = [addr |-> mt.addr, owner |-> mt.root]
        BY Zenon
      <4>2. x \in Mailbox /\ x.addr = mt.addr /\ x.owner >= mt.root
        BY <4>1, MatchFacts, Zenon
      <4>3. f = Place(d, t, x)
        BY <2>3, <3>1, <4>1, Zenon DEF TakeIdentity, Place
      <4>4. \A c \in DOMAIN d.box : c # t => d.box[c].addr # x.addr
        BY <1>5, <1>6, <2>2, <4>2, Zenon
      <4>5. LET g == Place(d, t, x) IN
            g \in Sound /\ DOMAIN g.box = DOMAIN d.box /\ g.box[t] = x /\ Onward(d, g, {t})
        BY <3>3, <4>2, <4>4, Zenon
      <4> QED BY <4>2, <4>3, <4>5, Zenon
    <3>2. CASE ~(d.box[t].owner = mt.root \/ mt.root > 0)
      <4>1. f = d
        BY <2>3, <3>2, Zenon DEF TakeIdentity
      <4>2. t \in exact
        BY <1>2, <1>6, <2>1, <3>2, Zenon
      <4>3. d.box[t].owner \in Int /\ d.box[t].owner >= 0 /\ mt.root \in Int /\ mt.root >= 0
        BY <1>5, <2>2, MailboxFacts, MatchFacts, Zenon
      <4>4. d.box[t].owner >= mt.root
        BY <3>2, <4>3
      <4> QED BY <1>6, <2>2, <4>1, <4>2, <4>4, OnwardSame, Zenon
    <3> QED BY <3>1, <3>2, Zenon
  <2>5. PICK S : S = sources \ {t}
    BY Zenon
  <2>6. S \subseteq DOMAIN f.box /\ t \in DOMAIN f.box /\ t \notin S
    BY <1>6, <2>2, <2>4, <2>5, Zenon
  <2>7. PICK e : e = MergeInto(f, S, t)
    BY Zenon
  <2>8. /\ e \in Sound /\ DOMAIN e.box = DOMAIN f.box \ S
        /\ \A c \in DOMAIN e.box : e.box[c] = f.box[c]
        /\ Onward(f, e, {t})
    <3>1. LET g == MergeInto(f, S, t) IN
          /\ g \in Sound /\ g.last = f.last /\ DOMAIN g.box = DOMAIN f.box \ S
          /\ \A c \in DOMAIN g.box : g.box[c] = f.box[c]
          /\ Onward(f, g, {t})
      BY <2>4, <2>6, Merged, Zenon
    <3> QED BY <2>7, <3>1, Zenon
  <2>9. t \in DOMAIN e.box /\ e.box[t].addr = mt.addr /\ e.box[t].owner >= mt.root
    BY <2>4, <2>6, <2>8, Zenon
  <2>10. Housed(e, mt)
    BY <2>9, Zenon DEF Housed
  <2>11. TheBox(e, mt.addr) = t
    <3>1. TheBox(e, mt.addr) \in DOMAIN e.box /\ e.box[TheBox(e, mt.addr)].addr = mt.addr
      BY <2>8, <2>10, HousedBox, Zenon
    <3>2. \A y, z \in DOMAIN e.box : e.box[y].addr = e.box[z].addr => y = z
      BY <2>8, SoundFacts, Zenon
    <3> QED BY <2>9, <3>1, <3>2, Zenon
  <2>12. Onward(d, e, {t})
    BY <2>4, <2>8, OnwardTwice, Zenon
  <2>13. IngestMailbox(d, rc, mt) = e
    BY <1>4, <1>8, <2>3, <2>5, <2>7, Zenon
  <2> QED BY <2>8, <2>10, <2>11, <2>12, <2>13, Zenon
<1> QED BY <1>7, <1>8, Zenon

-----------------------------------------------------------------------------
(* Steps taken in order. *)

FoldStep(base, step, g, A) == IF A = {} THEN base ELSE step[Max(A)][g[A \ {Max(A)}]]
IsFold(base, step, S, g) == g = [A \in SUBSET S |-> FoldStep(base, step, g, A)]

\* The others are smaller than the greatest.
LEMMA MaxRemoved ==
  ASSUME NEW S, Bounded(S), S \subseteq Nat, NEW A \in SUBSET S, A # {}
  PROVE  /\ Max(A) \in A /\ Max(A) \in S /\ \A n \in A : Max(A) >= n
         /\ A \ {Max(A)} \in SUBSET S /\ A \ {Max(A)} # A
         /\ \A n \in A \ {Max(A)} : n < Max(A)
<1>1. Bounded(A) /\ A \subseteq Nat
  BY BoundedPart, Zenon
<1>2. Max(A) \in A /\ \A n \in A : Max(A) >= n
  BY <1>1, Greatest, Zenon
<1>3. \A n \in A \ {Max(A)} : n < Max(A)
  <2>1. \A m, n \in Nat : m >= n /\ n # m => n < m
    OBVIOUS
  <2> QED BY <1>1, <1>2, <2>1, Zenon
<1> QED BY <1>2, <1>3, Zenon

\* The subsets of S below n: how far an induction along the fold has come.
Below(S, n) == {A \in SUBSET S : \A x \in A : x < n}

\* Without its greatest number a set lies below a smaller one.
LEMMA BelowFacts ==
  ASSUME NEW S, Bounded(S), S \subseteq Nat
  PROVE  /\ Below(S, 0) = {{}}
         /\ \A n \in Nat : \A A \in Below(S, n + 1) : A # {} =>
              A \ {Max(A)} \in Below(S, n) /\ A \ {Max(A)} \in Below(S, n + 1)
         /\ \E n \in Nat : Below(S, n) = SUBSET S
<1>1. Below(S, 0) = {{}}
  <2>1. \A x \in S : ~(x < 0)
    OBVIOUS
  <2> QED BY <2>1, Zenon DEF Below
<1>2. ASSUME NEW n \in Nat, NEW A \in Below(S, n + 1), A # {}
      PROVE  A \ {Max(A)} \in Below(S, n) /\ A \ {Max(A)} \in Below(S, n + 1)
  <2>1. A \in SUBSET S /\ \A x \in A : x < n + 1
    BY Zenon DEF Below
  <2>2. /\ Max(A) \in A /\ A \ {Max(A)} \in SUBSET S
        /\ \A x \in A \ {Max(A)} : x < Max(A)
    BY <1>2, <2>1, MaxRemoved, Zenon
  <2>3. \A x, m \in Nat : x < m /\ m < n + 1 => x < n /\ x < n + 1
    OBVIOUS
  <2>4. \A x \in A \ {Max(A)} : x < n /\ x < n + 1
    BY <2>1, <2>2, <2>3, Zenon
  <2> QED BY <2>2, <2>4, Zenon DEF Below
<1>3. \E n \in Nat : Below(S, n) = SUBSET S
  <2>1. PICK n \in Nat : \A x \in S : x <= n
    BY Zenon DEF Bounded
  <2>2. n + 1 \in Nat /\ \A x \in S : x < n + 1
    BY <2>1
  <2>3. Below(S, n + 1) = SUBSET S
    BY <2>2, Zenon DEF Below
  <2> QED BY <2>2, <2>3, Zenon
<1> QED BY <1>1, <1>2, <1>3, Zenon

\* The fold over a bounded set of numbers, the smallest first, is defined.
LEMMA FoldExists ==
  ASSUME NEW S, Bounded(S), S \subseteq Nat, NEW base, NEW step
  PROVE  \E g : IsFold(base, step, S, g)
<1> DEFINE D(n) == Below(S, n)
           Partial(g, n) == g = [A \in D(n) |-> FoldStep(base, step, g, A)]
           Has(n) == \E g : Partial(g, n)
           N == {n \in Nat : Has(n)}
<1>4. Has(0)
  <2> DEFINE z == [A \in D(0) |-> base]
  <2>1. \A A \in D(0) : A = {}
    BY BelowFacts, Zenon
  <2>2. \A A \in D(0) : FoldStep(base, step, z, A) = base
    BY <2>1, Zenon DEF FoldStep
  <2>3. Partial(z, 0)
    <3> DEFINE st(A) == FoldStep(base, step, z, A)
    <3>1. \A A \in D(0) : st(A) = base
      BY <2>2, Zenon
    <3> HIDE DEF st
    <3>2. [A \in D(0) |-> st(A)] = [A \in D(0) |-> base]
      BY <3>1, Zenon
    <3> QED BY <3>2, Zenon DEF st
  <2> QED BY <2>3, Zenon
<1>5. ASSUME NEW n \in Nat, Has(n) PROVE Has(n + 1)
  <2>1. PICK g : Partial(g, n)
    BY <1>5, Zenon
  <2> DEFINE h == [A \in D(n + 1) |-> FoldStep(base, step, g, A)]
  <2>2. ASSUME NEW A \in D(n + 1) PROVE FoldStep(base, step, h, A) = FoldStep(base, step, g, A)
    <3>1. CASE A = {}
      BY <3>1, Zenon DEF FoldStep
    <3>2. CASE A # {}
      <4> DEFINE B == A \ {Max(A)}
      <4>1. B \in D(n) /\ B \in D(n + 1)
        BY <3>2, BelowFacts, Zenon
      <4>2. h[B] = FoldStep(base, step, g, B)
        BY <4>1, Zenon
      <4>3. g[B] = FoldStep(base, step, g, B)
        <5> HIDE DEF B
        <5> QED BY <2>1, <4>1, Zenon
      <4> HIDE DEF h
      <4> QED BY <3>2, <4>2, <4>3, Zenon DEF FoldStep
    <3> QED BY <3>1, <3>2, Zenon
  <2>3. h = [A \in D(n + 1) |-> FoldStep(base, step, h, A)]
    <3> DEFINE a(A) == FoldStep(base, step, g, A)
               b(A) == FoldStep(base, step, h, A)
    <3>1. \A A \in D(n + 1) : b(A) = a(A)
      BY <2>2, Zenon
    <3>2. h = [A \in D(n + 1) |-> a(A)]
      OBVIOUS
    <3> HIDE DEF h, a, b
    <3>3. h = [A \in D(n + 1) |-> b(A)]
      BY <3>1, <3>2, Zenon
    <3> QED BY <3>3, Zenon DEF b
  <2> HIDE DEF h
  <2> QED BY <2>3, Zenon
<1>6. \A n \in Nat : Has(n)
  <2> HIDE DEF Has
  <2>1. 0 \in N /\ \A n \in Nat : n \in N => n + 1 \in N
    BY <1>4, <1>5
  <2> HIDE DEF N
  <2>2. \A n \in Nat : n \in N
    BY <2>1, NatSetInduction, Zenon
  <2> QED BY <2>2, Zenon DEF N
<1>7. PICK n \in Nat : Below(S, n) = SUBSET S
  BY BelowFacts, Zenon
<1>8. PICK g : g = [A \in Below(S, n) |-> FoldStep(base, step, g, A)]
  BY <1>6, Zenon
<1> QED BY <1>7, <1>8, Zenon DEF IsFold

\* A family of sets that every step moves along holds the result.
LEMMA FoldHolds ==
  ASSUME NEW S, Bounded(S), S \subseteq Nat, NEW g, NEW T, g[{}] \in T[{}],
         \A A \in SUBSET S : A # {} /\ g[A \ {Max(A)}] \in T[A \ {Max(A)}] => g[A] \in T[A]
  PROVE  \A A \in SUBSET S : g[A] \in T[A]
<1>1. PICK W : W = {n \in Nat : \A A \in Below(S, n) : g[A] \in T[A]}
  BY Zenon
<1>2. 0 \in W
  <2>1. \A A \in Below(S, 0) : g[A] \in T[A]
    BY BelowFacts, Zenon
  <2> QED BY <1>1, <2>1
<1>3. ASSUME NEW n \in Nat, n \in W PROVE n + 1 \in W
  <2>1. ASSUME NEW A \in Below(S, n + 1), A # {} PROVE g[A] \in T[A]
    <3>1. A \ {Max(A)} \in Below(S, n) /\ A \in SUBSET S
      BY <2>1, BelowFacts, Zenon DEF Below
    <3>2. g[A \ {Max(A)}] \in T[A \ {Max(A)}]
      BY <1>1, <1>3, <3>1, Zenon
    <3> QED BY <2>1, <3>1, <3>2, Zenon
  <2>2. \A A \in Below(S, n + 1) : g[A] \in T[A]
    BY <2>1, Zenon
  <2> QED BY <1>1, <2>2
<1>4. \A n \in Nat : n \in W
  BY <1>2, <1>3, NatSetInduction, Zenon
<1>5. PICK n \in Nat : Below(S, n) = SUBSET S
  BY BelowFacts, Zenon
<1> QED BY <1>1, <1>4, <1>5, Zenon

\* The recursion has a solution in V.
LEMMA FoldSolved ==
  ASSUME NEW S, Bounded(S), S \subseteq Nat, NEW V, NEW base \in V, NEW step,
         \A n \in S : \A v \in V : step[n][v] \in V
  PROVE  \E g \in [SUBSET S -> V] : IsFold(base, step, S, g)
<1>9. PICK g : IsFold(base, step, S, g)
  BY FoldExists, Zenon
<1>1. g = [A \in SUBSET S |-> FoldStep(base, step, g, A)]
  BY <1>9, Zenon DEF IsFold
<1>2. \A A \in SUBSET S : g[A] = FoldStep(base, step, g, A)
  BY <1>1, Zenon
<1>3. PICK T : T = [A \in SUBSET S |-> V]
  BY Zenon
<1>4. g[{}] \in T[{}]
  <2>1. {} \in SUBSET S
    BY Zenon
  <2> QED BY <1>2, <1>3, <2>1, Zenon DEF FoldStep
<1>5. ASSUME NEW A \in SUBSET S, A # {}, g[A \ {Max(A)}] \in T[A \ {Max(A)}] PROVE g[A] \in T[A]
  <2>1. Max(A) \in S /\ A \ {Max(A)} \in SUBSET S
    BY <1>5, MaxRemoved, Zenon
  <2>2. g[A \ {Max(A)}] \in V
    BY <1>3, <1>5, <2>1, Zenon
  <2>3. g[A] = step[Max(A)][g[A \ {Max(A)}]]
    BY <1>2, <1>5, Zenon DEF FoldStep
  <2>4. g[A] \in V
    BY <2>1, <2>2, <2>3, Zenon
  <2> QED BY <1>3, <2>4, Zenon
<1>6. \A A \in SUBSET S : g[A] \in T[A]
  BY <1>4, <1>5, FoldHolds, Zenon
<1>7. \A A \in SUBSET S : g[A] \in V
  BY <1>3, <1>6, Zenon
<1>8. g \in [SUBSET S -> V]
  <2>1. PICK P, a : P = SUBSET S /\ a = [A \in P |-> FoldStep(base, step, g, A)]
    BY Zenon
  <2>2. g = [A \in P |-> g[A]]
    BY <1>1, <2>1
  <2> QED BY <1>7, <2>1, <2>2, Zenon
<1> QED BY <1>8, <1>9, Zenon

-----------------------------------------------------------------------------
(* The transactions of the writers: all the recipients of a message. *)

\* What the transaction has done after some of the recipients.
Along(m, A) == {e \in Sound : Onward(db, e, {}) /\ (A # {} => \E p \in e.mail : p[1] = m)}

\* One more recipient.
LEMMA AlongStep ==
  ASSUME db \in Sound, NEW m, NEW A, NEW d \in Along(m, A), NEW e \in Sound, Onward(d, e, {}),
         \E p \in e.mail : p[1] = m, NEW B
  PROVE  e \in Along(m, B)
<1>1. d \in Sound /\ Onward(db, d, {})
  BY Zenon DEF Along
<1>2. Onward(db, e, {})
  BY <1>1, OnwardTwice, Zenon
<1> QED BY <1>2, Zenon DEF Along

\* No recipient yet.
LEMMA AlongStart ==
  ASSUME db \in Sound, NEW m
  PROVE  db \in Along(m, {})
<1>1. Onward(db, db, {})
  BY OnwardSame, Zenon
<1> QED BY <1>1, Zenon DEF Along

SmtpFold(m, S, g) ==
  g = [A \in SUBSET S |-> IF A = {} THEN db ELSE SmtpDeliver(m, g[A \ {Max(A)}], rcpt[m][Max(A)])]

\* The deliveries of the Python server are a fold.
LEMMA SmtpUnfold ==
  ASSUME NEW m, NEW S
  PROVE  InOrder(LAMBDA d, i : SmtpDeliver(m, d, rcpt[m][i]), db, S) = (CHOOSE g : SmtpFold(m, S, g))[S]
BY Zenon DEF InOrder, MapThenFoldSet, SmtpFold

\* One recipient.
LEMMA SmtpDelivered ==
  ASSUME rule \in Rules, NEW d \in Sound, NEW m \in Messages, NEW rc \in Recipient,
         MatchAddress(rc.to) # NoMatch
  PROVE  LET f == SmtpDeliver(m, d, rc) IN
         f \in Sound /\ Onward(d, f, {}) /\ \E p \in f.mail : p[1] = m
<1>1. PICK mt : mt = MatchAddress(rc.to)
  BY Zenon
<1>2. mt \in Match /\ Fits(mt)
  BY <1>1, RecipientFacts, NowFits, Zenon
<1>3. PICK e : e = UpsertMailbox(d, mt)
  BY Zenon
<1>4. e \in Sound /\ Housed(e, mt) /\ Onward(d, e, {})
  <2>1. LET f == UpsertMailbox(d, mt) IN f \in Sound /\ Housed(f, mt) /\ Onward(d, f, {})
    BY <1>2, Upserted, Zenon
  <2> QED BY <1>3, <2>1, Zenon
<1>5. Onward(d, e, {TheBox(e, mt.addr)})
  BY <1>4, OnwardAny, Zenon
<1>6. LET f == Deliver(e, m, TheBox(e, mt.addr)) IN
         /\ f \in Sound /\ Onward(d, f, {b \in DOMAIN f.box : <<m, b>> \in f.mail})
         /\ \E p \in f.mail : p[1] = m
         /\ Fits(mt) => Onward(d, f, {})
  BY <1>4, <1>5, Written, Zenon
<1>7. SmtpDeliver(m, d, rc) = Deliver(e, m, TheBox(e, mt.addr))
  BY <1>1, <1>3 DEF SmtpDeliver
<1> QED BY <1>2, <1>6, <1>7, Zenon

\* All recipients of a message from the Python server.
LEMMA SmtpResult ==
  ASSUME rule \in Rules, db \in Sound, NEW m \in Messages,
         NEW S, Bounded(S), S \subseteq Nat, S # {},
         \A i \in S : rcpt[m][i] \in Recipient /\ MatchAddress(rcpt[m][i].to) # NoMatch
  PROVE  InOrder(LAMBDA d, i : SmtpDeliver(m, d, rcpt[m][i]), db, S) \in Along(m, S)
<1>1. PICK step : step = [i \in S |-> [d \in Sound |-> SmtpDeliver(m, d, rcpt[m][i])]]
  BY Zenon
<1>2. \A i \in S : \A d \in Sound : step[i][d] = SmtpDeliver(m, d, rcpt[m][i])
  BY <1>1, Zenon
<1>3. \A i \in S : \A d \in Sound : LET f == SmtpDeliver(m, d, rcpt[m][i]) IN
         f \in Sound /\ Onward(d, f, {}) /\ \E p \in f.mail : p[1] = m
  BY SmtpDelivered, Zenon
<1>4. \A i \in S : \A d \in Sound : step[i][d] \in Sound
  BY <1>2, <1>3, Zenon
<1>5. PICK h \in [SUBSET S -> Sound] : IsFold(db, step, S, h)
  BY <1>4, FoldSolved, Zenon
<1>6. SmtpFold(m, S, h)
  <2>1. ASSUME NEW A \in SUBSET S
        PROVE  FoldStep(db, step, h, A) =
                 IF A = {} THEN db ELSE SmtpDeliver(m, h[A \ {Max(A)}], rcpt[m][Max(A)])
    <3>1. CASE A = {}
      BY <3>1, Zenon DEF FoldStep
    <3>2. CASE A # {}
      <4>1. Max(A) \in S /\ A \ {Max(A)} \in SUBSET S
        BY <3>2, MaxRemoved, Zenon
      <4>2. h[A \ {Max(A)}] \in Sound
        BY <4>1, Zenon
      <4>3. step[Max(A)][h[A \ {Max(A)}]] = SmtpDeliver(m, h[A \ {Max(A)}], rcpt[m][Max(A)])
        BY <1>2, <4>1, <4>2, Zenon
      <4> QED BY <3>2, <4>3, Zenon DEF FoldStep
    <3> QED BY <3>1, <3>2, Zenon
  <2> DEFINE x(A) == FoldStep(db, step, h, A)
             y(A) == IF A = {} THEN db ELSE SmtpDeliver(m, h[A \ {Max(A)}], rcpt[m][Max(A)])
  <2>2. \A A \in SUBSET S : x(A) = y(A)
    BY <2>1, Zenon
  <2>3. h = [A \in SUBSET S |-> x(A)]
    BY <1>5, Zenon DEF IsFold
  <2> HIDE DEF x, y
  <2>4. h = [A \in SUBSET S |-> y(A)]
    BY <2>2, <2>3, Zenon
  <2> QED BY <2>4, Zenon DEF y, SmtpFold
<1>7. PICK g : g = CHOOSE z : SmtpFold(m, S, z)
  BY Zenon
<1>8. SmtpFold(m, S, g)
  BY <1>6, <1>7, Zenon
<1>9. \A A \in SUBSET S :
        g[A] = IF A = {} THEN db ELSE SmtpDeliver(m, g[A \ {Max(A)}], rcpt[m][Max(A)])
  BY <1>8, Zenon DEF SmtpFold
<1>10. PICK T : T = [A \in SUBSET S |-> Along(m, A)]
  BY Zenon
<1>11. g[{}] \in T[{}]
  <2>1. {} \in SUBSET S
    BY Zenon
  <2> QED BY <1>9, <1>10, <2>1, AlongStart, Zenon
<1>12. ASSUME NEW A \in SUBSET S, A # {}, g[A \ {Max(A)}] \in T[A \ {Max(A)}] PROVE g[A] \in T[A]
  <2>1. PICK B : B = A \ {Max(A)}
    BY Zenon
  <2>2. Max(A) \in S /\ B \in SUBSET S
    BY <1>12, <2>1, MaxRemoved, Zenon
  <2>3. g[B] \in Along(m, B) /\ g[B] \in Sound
    BY <1>10, <1>12, <2>1, <2>2, Zenon DEF Along
  <2>4. g[A] = SmtpDeliver(m, g[B], rcpt[m][Max(A)])
    BY <1>9, <1>12, <2>1, Zenon
  <2>5. g[A] \in Sound /\ Onward(g[B], g[A], {}) /\ \E p \in g[A].mail : p[1] = m
    BY <1>3, <2>2, <2>3, <2>4, Zenon
  <2>6. g[A] \in Along(m, A)
    BY <2>3, <2>5, AlongStep, Zenon
  <2> QED BY <1>10, <2>6, Zenon
<1>13. g[S] \in T[S]
  <2>1. S \in SUBSET S
    BY Zenon
  <2> QED BY <1>11, <1>12, <2>1, FoldHolds, Zenon
<1>14. g[S] \in Along(m, S)
  <2>1. S \in SUBSET S
    BY Zenon
  <2> QED BY <1>10, <1>13, <2>1, Zenon
<1> QED BY <1>7, <1>14, SmtpUnfold, Zenon

RecoveryFold(m, S, g) ==
  g = [A \in SUBSET S |-> IF A = {} THEN db ELSE RecoveryDeliver(m, g[A \ {Max(A)}], rcpt[m][Max(A)])]

\* The deliveries of a replay are a fold.
LEMMA RecoveryUnfold ==
  ASSUME NEW m, NEW S
  PROVE  InOrder(LAMBDA d, i : RecoveryDeliver(m, d, rcpt[m][i]), db, S) = (CHOOSE g : RecoveryFold(m, S, g))[S]
BY Zenon DEF InOrder, MapThenFoldSet, RecoveryFold

\* One recipient of a replayed receipt.
LEMMA RecoveryDelivered ==
  ASSUME rule \in Rules, NEW d \in Sound, NEW m \in Messages, NEW rc \in Recipient
  PROVE  LET f == RecoveryDeliver(m, d, rc) IN
         f \in Sound /\ Onward(d, f, {}) /\ \E p \in f.mail : p[1] = m
<1>1. PICK mt : mt = RecoveryMatch(rc)
  BY Zenon
<1>2. mt \in Match /\ Fits(mt)
  BY <1>1, RecoveryFits, Zenon
<1>3. PICK e : e = RecoveryMailbox(d, rc, mt)
  BY Zenon
<1>4. e \in Sound /\ Housed(e, mt) /\ Onward(d, e, {})
  <2>1. LET f == RecoveryMailbox(d, rc, mt) IN f \in Sound /\ Housed(f, mt) /\ Onward(d, f, {})
    BY <1>2, Recovered, Zenon
  <2> QED BY <1>3, <2>1, Zenon
<1>5. Onward(d, e, {TheBox(e, mt.addr)})
  BY <1>4, OnwardAny, Zenon
<1>6. LET f == Deliver(e, m, TheBox(e, mt.addr)) IN
         /\ f \in Sound /\ Onward(d, f, {b \in DOMAIN f.box : <<m, b>> \in f.mail})
         /\ \E p \in f.mail : p[1] = m
         /\ Fits(mt) => Onward(d, f, {})
  BY <1>4, <1>5, Written, Zenon
<1>7. RecoveryDeliver(m, d, rc) = Deliver(e, m, TheBox(e, mt.addr))
  BY <1>1, <1>3 DEF RecoveryDeliver
<1> QED BY <1>2, <1>6, <1>7, Zenon

\* All recipients of a replayed receipt.
LEMMA RecoveryResult ==
  ASSUME rule \in Rules, db \in Sound, NEW m \in Messages,
         NEW S, Bounded(S), S \subseteq Nat, S # {},
         \A i \in S : rcpt[m][i] \in Recipient
  PROVE  InOrder(LAMBDA d, i : RecoveryDeliver(m, d, rcpt[m][i]), db, S) \in Along(m, S)
<1>1. PICK step : step = [i \in S |-> [d \in Sound |-> RecoveryDeliver(m, d, rcpt[m][i])]]
  BY Zenon
<1>2. \A i \in S : \A d \in Sound : step[i][d] = RecoveryDeliver(m, d, rcpt[m][i])
  BY <1>1, Zenon
<1>3. \A i \in S : \A d \in Sound : LET f == RecoveryDeliver(m, d, rcpt[m][i]) IN
         f \in Sound /\ Onward(d, f, {}) /\ \E p \in f.mail : p[1] = m
  BY RecoveryDelivered, Zenon
<1>4. \A i \in S : \A d \in Sound : step[i][d] \in Sound
  BY <1>2, <1>3, Zenon
<1>5. PICK h \in [SUBSET S -> Sound] : IsFold(db, step, S, h)
  BY <1>4, FoldSolved, Zenon
<1>6. RecoveryFold(m, S, h)
  <2>1. ASSUME NEW A \in SUBSET S
        PROVE  FoldStep(db, step, h, A) =
                 IF A = {} THEN db ELSE RecoveryDeliver(m, h[A \ {Max(A)}], rcpt[m][Max(A)])
    <3>1. CASE A = {}
      BY <3>1, Zenon DEF FoldStep
    <3>2. CASE A # {}
      <4>1. Max(A) \in S /\ A \ {Max(A)} \in SUBSET S
        BY <3>2, MaxRemoved, Zenon
      <4>2. h[A \ {Max(A)}] \in Sound
        BY <4>1, Zenon
      <4>3. step[Max(A)][h[A \ {Max(A)}]] = RecoveryDeliver(m, h[A \ {Max(A)}], rcpt[m][Max(A)])
        BY <1>2, <4>1, <4>2, Zenon
      <4> QED BY <3>2, <4>3, Zenon DEF FoldStep
    <3> QED BY <3>1, <3>2, Zenon
  <2> DEFINE x(A) == FoldStep(db, step, h, A)
             y(A) == IF A = {} THEN db ELSE RecoveryDeliver(m, h[A \ {Max(A)}], rcpt[m][Max(A)])
  <2>2. \A A \in SUBSET S : x(A) = y(A)
    BY <2>1, Zenon
  <2>3. h = [A \in SUBSET S |-> x(A)]
    BY <1>5, Zenon DEF IsFold
  <2> HIDE DEF x, y
  <2>4. h = [A \in SUBSET S |-> y(A)]
    BY <2>2, <2>3, Zenon
  <2> QED BY <2>4, Zenon DEF y, RecoveryFold
<1>7. PICK g : g = CHOOSE z : RecoveryFold(m, S, z)
  BY Zenon
<1>8. RecoveryFold(m, S, g)
  BY <1>6, <1>7, Zenon
<1>9. \A A \in SUBSET S :
        g[A] = IF A = {} THEN db ELSE RecoveryDeliver(m, g[A \ {Max(A)}], rcpt[m][Max(A)])
  BY <1>8, Zenon DEF RecoveryFold
<1>10. PICK T : T = [A \in SUBSET S |-> Along(m, A)]
  BY Zenon
<1>11. g[{}] \in T[{}]
  <2>1. {} \in SUBSET S
    BY Zenon
  <2> QED BY <1>9, <1>10, <2>1, AlongStart, Zenon
<1>12. ASSUME NEW A \in SUBSET S, A # {}, g[A \ {Max(A)}] \in T[A \ {Max(A)}] PROVE g[A] \in T[A]
  <2>1. PICK B : B = A \ {Max(A)}
    BY Zenon
  <2>2. Max(A) \in S /\ B \in SUBSET S
    BY <1>12, <2>1, MaxRemoved, Zenon
  <2>3. g[B] \in Along(m, B) /\ g[B] \in Sound
    BY <1>10, <1>12, <2>1, <2>2, Zenon DEF Along
  <2>4. g[A] = RecoveryDeliver(m, g[B], rcpt[m][Max(A)])
    BY <1>9, <1>12, <2>1, Zenon
  <2>5. g[A] \in Sound /\ Onward(g[B], g[A], {}) /\ \E p \in g[A].mail : p[1] = m
    BY <1>3, <2>2, <2>3, <2>4, Zenon
  <2>6. g[A] \in Along(m, A)
    BY <2>3, <2>5, AlongStep, Zenon
  <2> QED BY <1>10, <2>6, Zenon
<1>13. g[S] \in T[S]
  <2>1. S \in SUBSET S
    BY Zenon
  <2> QED BY <1>11, <1>12, <2>1, FoldHolds, Zenon
<1>14. g[S] \in Along(m, S)
  <2>1. S \in SUBSET S
    BY Zenon
  <2> QED BY <1>10, <1>13, <2>1, Zenon
<1> QED BY <1>7, <1>14, RecoveryUnfold, Zenon

\* ingestd: the mailboxes with the message may be left for no job to look at.
Keys == Roots \X Nat \X Addresses
Accs == [ok : BOOLEAN, keys : SUBSET Keys, d : Sound]
IngestAccs(m, S) == {acc \in Accs : acc.ok => \A i \in S : SameRule(rcpt[m][i].match)}
Extra(m, e) == {b \in DOMAIN e.box : <<m, b>> \in e.mail}
Switched(m, S) == \E i \in S : rule[rcpt[m][i].match.root].on = "off"

IngestAlong(m, S, A) ==
  {acc \in IngestAccs(m, S) :
     /\ Onward(db, acc.d, Extra(m, acc.d))
     /\ ~Switched(m, S) => Onward(db, acc.d, {})
     /\ acc.keys # {} => \E p \in acc.d.mail : p[1] = m
     /\ A # {} /\ acc.ok => acc.keys # {}}

\* The fields of what ingestd carries from recipient to recipient.
LEMMA AccFacts ==
  ASSUME NEW acc \in Accs
  PROVE  acc.ok \in BOOLEAN /\ acc.keys \in SUBSET Keys /\ acc.d \in Sound
BY DEF Accs

\* ... put together from its parts.
LEMMA AccBuilt ==
  ASSUME NEW o \in BOOLEAN, NEW K \in SUBSET Keys, NEW d \in Sound
  PROVE  LET acc == [ok |-> o, keys |-> K, d |-> d] IN
         acc \in Accs /\ acc.ok = o /\ acc.keys = K /\ acc.d = d
BY DEF Accs

\* Two recipients after each other: only mailboxes with the message become
\* due.
LEMMA OnwardExtra ==
  ASSUME NEW c \in Sound, NEW d \in Sound, NEW e \in Sound, NEW m,
         Onward(c, d, Extra(m, d)), Onward(d, e, Extra(m, e))
  PROVE  Onward(c, e, Extra(m, e))
<1>1. ASSUME NEW b \in Extra(m, d) \cap DOMAIN e.box PROVE b \in Extra(m, e)
  <2>1. <<m, b>> \in d.mail /\ b \in DOMAIN e.box
    BY Zenon DEF Extra
  <2>2. <<m, b>>[2] = b
    OBVIOUS
  <2>3. <<m, b>> \in e.mail
    BY <2>1, <2>2, Zenon DEF Onward
  <2> QED BY <2>1, <2>3, Zenon DEF Extra
<1> QED BY <1>1, OnwardTwice, Zenon

\* One recipient: it is skipped, or delivered.
LEMMA IngestDelivered ==
  ASSUME rule \in Rules, NEW acc \in Accs, NEW m \in Messages, NEW rc \in Recipient,
         acc.ok => SameRule(rc.match)
  PROVE  LET f == IngestDeliver(m, acc, rc) IN
         /\ f \in Accs
         /\ \/ f = acc /\ (~acc.ok \/ acc.keys # {})
            \/ /\ acc.ok /\ f.keys # {} /\ Onward(acc.d, f.d, Extra(m, f.d))
               /\ \E p \in f.d.mail : p[1] = m
               /\ rule[rc.match.root].on # "off" => Onward(acc.d, f.d, {})
<1>1. PICK mt, key : mt = CurrentDomainMatch(rc) /\ key = <<mt.root, mt.ver, mt.addr>>
  BY Zenon
<1>2. PICK e : e = IngestMailbox(acc.d, rc, mt)
  BY Zenon
<1>3. PICK b : b = TheBox(e, mt.addr)
  BY Zenon
<1>4. IngestDeliver(m, acc, rc) =
        IF ~acc.ok \/ key \in acc.keys THEN acc
        ELSE [ok |-> <<m, b>> \notin e.mail, keys |-> acc.keys \cup {key}, d |-> Deliver(e, m, b)]
  BY <1>1, <1>2, <1>3 DEF IngestDeliver
<1>5. acc.ok \in BOOLEAN /\ acc.keys \in SUBSET Keys /\ acc.d \in Sound
  BY AccFacts, Zenon
<1>6. CASE ~acc.ok \/ key \in acc.keys
  <2>1. ~acc.ok \/ acc.keys # {}
    BY <1>6, Zenon
  <2> QED BY <1>4, <1>6, <2>1, Zenon
<1>7. CASE acc.ok /\ key \notin acc.keys
  <2>1. mt \in Match /\ (rule[rc.match.root].on # "off" => Fits(mt))
    BY <1>1, <1>7, CurrentFits, Zenon
  <2>2. key \in Keys
    BY <1>1, <2>1 DEF Match, Keys
  <2>3. e \in Sound /\ Housed(e, mt) /\ Onward(acc.d, e, {TheBox(e, mt.addr)})
    <3>1. LET f == IngestMailbox(acc.d, rc, mt) IN
          f \in Sound /\ Housed(f, mt) /\ Onward(acc.d, f, {TheBox(f, mt.addr)})
      BY <1>5, <2>1, Ingested, Zenon
    <3> QED BY <1>2, <3>1, Zenon
  <2>4. PICK g : g = Deliver(e, m, b)
    BY Zenon
  <2>5. /\ g \in Sound /\ Onward(acc.d, g, {c \in DOMAIN g.box : <<m, c>> \in g.mail})
        /\ \E p \in g.mail : p[1] = m
        /\ Fits(mt) => Onward(acc.d, g, {})
    <3>1. LET f == Deliver(e, m, TheBox(e, mt.addr)) IN
         /\ f \in Sound /\ Onward(acc.d, f, {c \in DOMAIN f.box : <<m, c>> \in f.mail})
         /\ \E p \in f.mail : p[1] = m
         /\ Fits(mt) => Onward(acc.d, f, {})
      BY <1>5, <2>3, Written, Zenon
    <3> QED BY <1>3, <2>4, <3>1, Zenon
  <2>6. Onward(acc.d, g, Extra(m, g))
    BY <2>5, Zenon DEF Extra
  <2>7. PICK o \in BOOLEAN : o = (<<m, b>> \notin e.mail)
    BY Zenon
  <2>8. PICK K : K = acc.keys \cup {key}
    BY Zenon
  <2>9. K \in SUBSET Keys /\ K # {}
    BY <1>5, <2>2, <2>8, Zenon
  <2>10. PICK f : f = [ok |-> o, keys |-> K, d |-> g]
    BY Zenon
  <2>11. f \in Accs /\ f.keys = K /\ f.d = g
    BY <2>5, <2>9, <2>10, AccBuilt, Zenon
  <2>12. IngestDeliver(m, acc, rc) = f
    BY <1>4, <1>7, <2>4, <2>7, <2>8, <2>10, Zenon
  <2> QED BY <1>7, <2>1, <2>5, <2>6, <2>9, <2>11, <2>12, Zenon
<1> QED BY <1>6, <1>7, Zenon

IngestBase(m) ==
  [ok |-> \A i \in DOMAIN rcpt[m] : SameRule(rcpt[m][i].match), keys |-> {}, d |-> db]
IngestFold(m, S, g) ==
  g = [A \in SUBSET S |-> IF A = {} THEN IngestBase(m)
                          ELSE IngestDeliver(m, g[A \ {Max(A)}], rcpt[m][Max(A)])]

\* The deliveries of ingestd are a fold.
LEMMA IngestUnfold ==
  ASSUME NEW m
  PROVE  IngestResult(m) = (CHOOSE g : IngestFold(m, DOMAIN rcpt[m], g))[DOMAIN rcpt[m]]
BY Zenon DEF IngestResult, InOrder, MapThenFoldSet, IngestFold, IngestBase

\* No recipient yet.
LEMMA IngestStart ==
  ASSUME db \in Sound, NEW m, NEW S, S = DOMAIN rcpt[m]
  PROVE  IngestBase(m) \in IngestAlong(m, S, {})
<1>1. PICK o \in BOOLEAN : o = (\A i \in DOMAIN rcpt[m] : SameRule(rcpt[m][i].match))
  BY Zenon
<1>2. PICK acc : acc = [ok |-> o, keys |-> {}, d |-> db]
  BY Zenon
<1>3. acc \in Accs /\ acc.ok = o /\ acc.keys = {} /\ acc.d = db
  <2>1. {} \in SUBSET Keys
    BY Zenon
  <2> QED BY <1>2, <2>1, AccBuilt, Zenon
<1>4. IngestBase(m) = acc
  BY <1>1, <1>2, Zenon DEF IngestBase
<1>5. \A X : Onward(db, db, X)
  BY OnwardSame, Zenon
<1>6. acc \in IngestAccs(m, S)
  BY <1>1, <1>3, Zenon DEF IngestAccs
<1> QED BY <1>3, <1>4, <1>5, <1>6, Zenon DEF IngestAlong

\* One more recipient.
LEMMA IngestStep ==
  ASSUME rule \in Rules, db \in Sound, NEW m \in Messages, NEW S, NEW i \in S, rcpt[m][i] \in Recipient,
         NEW A, NEW acc \in IngestAlong(m, S, A), NEW B
  PROVE  IngestDeliver(m, acc, rcpt[m][i]) \in IngestAlong(m, S, B)
<1>1. PICK f : f = IngestDeliver(m, acc, rcpt[m][i])
  BY Zenon
<1>2. /\ acc \in Accs /\ acc.d \in Sound /\ (acc.ok => \A k \in S : SameRule(rcpt[m][k].match))
      /\ Onward(db, acc.d, Extra(m, acc.d))
      /\ ~Switched(m, S) => Onward(db, acc.d, {})
      /\ acc.keys # {} => \E p \in acc.d.mail : p[1] = m
  BY AccFacts, Zenon DEF IngestAlong, IngestAccs
<1>3. /\ f \in Accs /\ f.d \in Sound
      /\ \/ f = acc /\ (~acc.ok \/ acc.keys # {})
         \/ /\ acc.ok /\ f.keys # {} /\ Onward(acc.d, f.d, Extra(m, f.d))
            /\ \E p \in f.d.mail : p[1] = m
            /\ rule[rcpt[m][i].match.root].on # "off" => Onward(acc.d, f.d, {})
  <2>1. acc.ok => SameRule(rcpt[m][i].match)
    BY <1>2, Zenon
  <2>2. LET h == IngestDeliver(m, acc, rcpt[m][i]) IN
         /\ h \in Accs
         /\ \/ h = acc /\ (~acc.ok \/ acc.keys # {})
            \/ /\ acc.ok /\ h.keys # {} /\ Onward(acc.d, h.d, Extra(m, h.d))
               /\ \E p \in h.d.mail : p[1] = m
               /\ rule[rcpt[m][i].match.root].on # "off" => Onward(acc.d, h.d, {})
    BY <1>2, <2>1, IngestDelivered, Zenon
  <2>3. f \in Accs
    BY <1>1, <2>2, Zenon
  <2> QED BY <1>1, <2>2, <2>3, AccFacts, Zenon
<1>4. CASE f = acc /\ (~acc.ok \/ acc.keys # {})
  BY <1>1, <1>2, <1>4, Zenon DEF IngestAlong, IngestAccs
<1>5. CASE /\ acc.ok /\ f.keys # {} /\ Onward(acc.d, f.d, Extra(m, f.d))
           /\ \E p \in f.d.mail : p[1] = m
           /\ rule[rcpt[m][i].match.root].on # "off" => Onward(acc.d, f.d, {})
  <2>1. Onward(db, f.d, Extra(m, f.d))
    BY <1>2, <1>3, <1>5, OnwardExtra, Zenon
  <2>2. ASSUME ~Switched(m, S) PROVE Onward(db, f.d, {})
    <3>1. rule[rcpt[m][i].match.root].on # "off"
      BY <2>2, Zenon DEF Switched
    <3>2. Onward(acc.d, f.d, {}) /\ Onward(db, acc.d, {})
      BY <1>2, <1>5, <2>2, <3>1, Zenon
    <3> QED BY <1>2, <1>3, <3>2, OnwardTwice, Zenon
  <2>3. f \in IngestAccs(m, S)
    BY <1>2, <1>3, <1>5, Zenon DEF IngestAccs
  <2> QED BY <1>1, <1>5, <2>1, <2>2, <2>3, Zenon DEF IngestAlong
<1> QED BY <1>3, <1>4, <1>5, Zenon

\* All recipients, as the fold ...
LEMMA IngestFolded ==
  ASSUME rule \in Rules, db \in Sound, NEW m \in Messages,
         NEW S, Bounded(S), S \subseteq Nat, \A i \in S : rcpt[m][i] \in Recipient,
         IngestBase(m) \in IngestAlong(m, S, {})
  PROVE  (CHOOSE g : IngestFold(m, S, g))[S] \in IngestAlong(m, S, S)
<1>1. PICK V : V = IngestAccs(m, S)
  BY Zenon
<1>2. PICK step : step = [i \in S |-> [d \in V |-> IngestDeliver(m, d, rcpt[m][i])]]
  BY Zenon
<1>3. \A i \in S : \A d \in V : step[i][d] = IngestDeliver(m, d, rcpt[m][i])
  BY <1>2, Zenon
<1>4. ASSUME NEW i \in S, NEW acc \in V PROVE step[i][acc] \in V
  <2>1. acc \in Accs /\ (acc.ok => \A k \in S : SameRule(rcpt[m][k].match))
    BY <1>1, Zenon DEF IngestAccs
  <2>2. acc.ok => SameRule(rcpt[m][i].match)
    BY <2>1, Zenon
  <2>3. LET h == IngestDeliver(m, acc, rcpt[m][i]) IN
         /\ h \in Accs
         /\ \/ h = acc /\ (~acc.ok \/ acc.keys # {})
            \/ /\ acc.ok /\ h.keys # {} /\ Onward(acc.d, h.d, Extra(m, h.d))
               /\ \E p \in h.d.mail : p[1] = m
               /\ rule[rcpt[m][i].match.root].on # "off" => Onward(acc.d, h.d, {})
    BY <2>1, <2>2, IngestDelivered, Zenon
  <2>4. LET h == IngestDeliver(m, acc, rcpt[m][i]) IN h \in Accs /\ (h = acc \/ acc.ok)
    BY <2>3, Zenon
  <2> QED BY <1>1, <1>3, <2>1, <2>4, Zenon DEF IngestAccs
<1>5. IngestBase(m) \in IngestAlong(m, S, {}) /\ IngestBase(m) \in V
  BY <1>1, Zenon DEF IngestAlong
<1>6. PICK h \in [SUBSET S -> V] : IsFold(IngestBase(m), step, S, h)
  BY <1>4, <1>5, FoldSolved, Zenon
<1>7. IngestFold(m, S, h)
  <2>1. ASSUME NEW A \in SUBSET S
        PROVE  FoldStep(IngestBase(m), step, h, A) =
                 IF A = {} THEN IngestBase(m) ELSE IngestDeliver(m, h[A \ {Max(A)}], rcpt[m][Max(A)])
    <3>1. CASE A = {}
      BY <3>1, Zenon DEF FoldStep
    <3>2. CASE A # {}
      <4>1. Max(A) \in S /\ A \ {Max(A)} \in SUBSET S
        BY <3>2, MaxRemoved, Zenon
      <4>2. h[A \ {Max(A)}] \in V
        BY <4>1, Zenon
      <4>3. step[Max(A)][h[A \ {Max(A)}]] = IngestDeliver(m, h[A \ {Max(A)}], rcpt[m][Max(A)])
        BY <1>3, <4>1, <4>2, Zenon
      <4> QED BY <3>2, <4>3, Zenon DEF FoldStep
    <3> QED BY <3>1, <3>2, Zenon
  <2> DEFINE x(A) == FoldStep(IngestBase(m), step, h, A)
             y(A) == IF A = {} THEN IngestBase(m) ELSE IngestDeliver(m, h[A \ {Max(A)}], rcpt[m][Max(A)])
  <2>2. \A A \in SUBSET S : x(A) = y(A)
    BY <2>1, Zenon
  <2>3. h = [A \in SUBSET S |-> x(A)]
    BY <1>6, Zenon DEF IsFold
  <2> HIDE DEF x, y
  <2>4. h = [A \in SUBSET S |-> y(A)]
    BY <2>2, <2>3, Zenon
  <2> QED BY <2>4, Zenon DEF y, IngestFold
<1>8. PICK g : g = CHOOSE z : IngestFold(m, S, z)
  BY Zenon
<1>9. \A A \in SUBSET S :
        g[A] = IF A = {} THEN IngestBase(m) ELSE IngestDeliver(m, g[A \ {Max(A)}], rcpt[m][Max(A)])
  <2>1. IngestFold(m, S, g)
    BY <1>7, <1>8, Zenon
  <2> QED BY <2>1, Zenon DEF IngestFold
<1>10. PICK T : T = [A \in SUBSET S |-> IngestAlong(m, S, A)]
  BY Zenon
<1>11. {} \in SUBSET S /\ S \in SUBSET S
  BY Zenon
<1>12. g[{}] \in T[{}]
  BY <1>5, <1>9, <1>10, <1>11, Zenon
<1>13. ASSUME NEW A \in SUBSET S, A # {}, g[A \ {Max(A)}] \in T[A \ {Max(A)}] PROVE g[A] \in T[A]
  <2>1. PICK B : B = A \ {Max(A)}
    BY Zenon
  <2>2. Max(A) \in S /\ B \in SUBSET S
    BY <1>13, <2>1, MaxRemoved, Zenon
  <2>3. g[B] \in IngestAlong(m, S, B)
    BY <1>10, <1>13, <2>1, <2>2, Zenon
  <2>4. g[A] = IngestDeliver(m, g[B], rcpt[m][Max(A)])
    BY <1>9, <1>13, <2>1, Zenon
  <2>5. rcpt[m][Max(A)] \in Recipient
    BY <2>2, Zenon
  <2>6. g[A] \in IngestAlong(m, S, A)
    <3>1. PICK acc, i : acc = g[B] /\ i = Max(A)
      BY Zenon
    <3>2. i \in S /\ rcpt[m][i] \in Recipient /\ acc \in IngestAlong(m, S, B)
      BY <2>2, <2>3, <2>5, <3>1, Zenon
    <3>3. IngestDeliver(m, acc, rcpt[m][i]) \in IngestAlong(m, S, A)
      BY <3>2, IngestStep, Zenon
    <3> QED BY <2>4, <3>1, <3>3, Zenon
  <2> QED BY <1>10, <2>6, Zenon
<1>14. g[S] \in T[S]
  <2>1. \A A \in SUBSET S : g[A] \in T[A]
    BY <1>12, <1>13, FoldHolds, Zenon
  <2> QED BY <1>11, <2>1, Zenon
<1>15. g[S] \in IngestAlong(m, S, S)
  BY <1>10, <1>11, <1>14, Zenon
<1> QED BY <1>8, <1>15, Zenon

\* ... and as IngestResult.
LEMMA IngestResulting ==
  ASSUME rule \in Rules, db \in Sound, NEW m \in Messages,
         Bounded(DOMAIN rcpt[m]), DOMAIN rcpt[m] \subseteq Nat,
         \A i \in DOMAIN rcpt[m] : rcpt[m][i] \in Recipient
  PROVE  IngestResult(m) \in IngestAlong(m, DOMAIN rcpt[m], DOMAIN rcpt[m])
<1>1. IngestBase(m) \in IngestAlong(m, DOMAIN rcpt[m], {})
  BY IngestStart, Zenon
<1>2. (CHOOSE g : IngestFold(m, DOMAIN rcpt[m], g))[DOMAIN rcpt[m]] \in IngestAlong(m, DOMAIN rcpt[m], DOMAIN rcpt[m])
  BY <1>1, IngestFolded, Zenon
<1> QED BY <1>2, IngestUnfold, Zenon

-----------------------------------------------------------------------------
(* A page of a rehome job. *)

\* The parts of the present database.
LEMMA DbIs == db.box = box /\ db.last = lastBox /\ db.mail = mail
BY DEF db

\* A promotion creates no mailbox.
LEMMA PromotedLast ==
  ASSUME NEW d \in Dbs, NEW b, NEW mt
  PROVE  PromoteOwnership(d, b, mt).last = d.last
<1>1. \A x : [d EXCEPT !.box[b] = x].last = d.last
  BY DEF Dbs
<1>2. \A t, o, S : MergeInto([d EXCEPT !.box[t].owner = o], S, t).last = d.last
  BY DEF Dbs, MergeInto
<1> QED BY <1>1, <1>2, Zenon DEF PromoteOwnership

\* What the page has done after some of its mailboxes: those it looked at are not
\* due any more, except for the ones the job passes over.
Rehomed(j, A) ==
  {e \in Sound : /\ e.last = lastBox /\ Onward(db, e, {})
                 /\ \A b \in A : Wants(e, b) => ~(box[b].owner <= jobs[j].root)}

RehomeFold(j, S, g) ==
  g = [A \in SUBSET S |-> IF A = {} THEN db ELSE RehomeOne(j, g[A \ {Max(A)}], Max(A))]

\* A page of a rehome job is a fold.
LEMMA RehomeUnfold ==
  ASSUME NEW j, NEW S
  PROVE  InOrder(LAMBDA d, i : RehomeOne(j, d, i), db, S) = (CHOOSE g : RehomeFold(j, S, g))[S]
BY Zenon DEF InOrder, MapThenFoldSet, RehomeFold

\* One mailbox.
LEMMA OneRehomed ==
  ASSUME rule \in Rules, db \in Sound, NEW j, NEW b \in DOMAIN box, NEW e \in Sound
  PROVE  LET f == RehomeOne(j, e, b) IN
         /\ f \in Sound /\ f.last = e.last /\ Onward(e, f, {})
         /\ Onward(db, e, {}) /\ Wants(f, b) => ~(box[b].owner <= jobs[j].root)
<1>1. PICK mt : mt = MatchAddress(box[b].addr)
  BY Zenon
<1>2. PICK up : up = (box[b].owner <= jobs[j].root /\ mt.root > 0)
  BY Zenon
<1>3. PICK f : f = RehomeOne(j, e, b)
  BY Zenon
<1>4. f = IF up THEN PromoteOwnership(e, b, mt) ELSE e
  BY <1>1, <1>2, <1>3, Zenon DEF RehomeOne
<1>5. /\ e \in Dbs /\ db.box = box /\ box[b].addr \in Addresses
      /\ \A c \in DOMAIN e.box : e.box[c] \in Mailbox
  <2>1. db \in Dbs /\ e \in Dbs
    BY SoundFacts, Zenon
  <2>2. db.box[b] \in Mailbox /\ \A c \in DOMAIN e.box : e.box[c] \in Mailbox
    BY <2>1, DbFacts, DbIs, Zenon
  <2> QED BY <2>1, <2>2, DbIs, MailboxFacts, Zenon
<1>6. ASSUME Onward(db, e, {}), Wants(e, b)
      PROVE  b \in DOMAIN e.box /\ e.box[b] = box[b] /\ NeedsPromotion(e.box[b], mt) /\ mt.root > 0
  <2>1. b \in DOMAIN e.box /\ NeedsPromotion(e.box[b], MatchAddress(e.box[b].addr))
    BY <1>6, Zenon DEF Wants
  <2>2. e.box[b] = db.box[b]
    BY <1>6, <2>1, Zenon DEF Onward
  <2>3. e.box[b] = box[b]
    BY <1>5, <2>2, Zenon
  <2>4. NeedsPromotion(e.box[b], mt)
    BY <1>1, <2>1, <2>3, Zenon
  <2> QED BY <2>1, <2>3, <2>4, Zenon DEF NeedsPromotion
<1>7. CASE ~up
  <2>1. f = e
    BY <1>4, <1>7, Zenon
  <2>2. ASSUME Onward(db, e, {}), Wants(f, b) PROVE ~(box[b].owner <= jobs[j].root)
    <3>1. mt.root > 0
      BY <1>6, <2>1, <2>2, Zenon
    <3> QED BY <1>2, <1>7, <3>1, Zenon
  <2> QED BY <1>3, <2>1, <2>2, OnwardSame, Zenon
<1>8. CASE up /\ b \in DOMAIN e.box /\ NeedsPromotion(e.box[b], mt)
  <2>1. mt # NoMatch
    BY <1>8, NoMatchFacts, Zenon
  <2>2. mt \in Match /\ Fits(mt)
    BY <1>1, <1>5, <2>1, NowFits, Zenon
  <2>3. LET h == PromoteOwnership(e, b, mt) IN
        h \in Sound /\ Housed(h, mt) /\ Onward(e, h, {}) /\ ~Wants(h, b)
    BY <1>8, <2>2, Promoted, Zenon
  <2>4. f = PromoteOwnership(e, b, mt)
    BY <1>4, <1>8, Zenon
  <2>5. f.last = e.last
    BY <1>5, <2>4, PromotedLast, Zenon
  <2> QED BY <1>3, <2>3, <2>4, <2>5, Zenon
<1>9. CASE up /\ ~(b \in DOMAIN e.box /\ NeedsPromotion(e.box[b], mt))
  <2>1. f = e
    BY <1>4, <1>9, Zenon DEF PromoteOwnership
  <2>2. ~(Onward(db, e, {}) /\ Wants(f, b))
    BY <1>6, <1>9, <2>1, Zenon
  <2> QED BY <1>3, <2>1, <2>2, OnwardSame, Zenon
<1> QED BY <1>7, <1>8, <1>9, Zenon

\* One more mailbox of the page.
LEMMA RehomeStep ==
  ASSUME rule \in Rules, db \in Sound, NEW j, NEW B, NEW b \in DOMAIN box, NEW e \in Rehomed(j, B)
  PROVE  RehomeOne(j, e, b) \in Rehomed(j, B \cup {b})
<1>1. PICK f : f = RehomeOne(j, e, b)
  BY Zenon
<1>2. /\ e \in Sound /\ e.last = lastBox /\ Onward(db, e, {})
      /\ \A c \in B : Wants(e, c) => ~(box[c].owner <= jobs[j].root)
  BY Zenon DEF Rehomed
<1>3. /\ f \in Sound /\ f.last = e.last /\ Onward(e, f, {})
      /\ Wants(f, b) => ~(box[b].owner <= jobs[j].root)
  BY <1>1, <1>2, OneRehomed, Zenon
<1>4. Onward(db, f, {})
  BY <1>2, <1>3, OnwardTwice, Zenon
<1>5. ASSUME NEW c \in B, Wants(f, c) PROVE ~(box[c].owner <= jobs[j].root)
  <2>1. c \in DOMAIN f.box
    BY <1>5, Zenon DEF Wants
  <2>2. Wants(e, c)
    BY <1>3, <1>5, <2>1, Zenon DEF Onward
  <2> QED BY <1>2, <2>2, Zenon
<1>6. f.last = lastBox
  BY <1>2, <1>3, Zenon
<1>7. \A c \in B \cup {b} : Wants(f, c) => ~(box[c].owner <= jobs[j].root)
  BY <1>3, <1>5, Zenon
<1> QED BY <1>1, <1>3, <1>4, <1>6, <1>7, Zenon DEF Rehomed

\* No mailbox of the page yet.
LEMMA RehomeStart ==
  ASSUME db \in Sound, NEW j
  PROVE  db \in Rehomed(j, {})
<1>1. Onward(db, db, {})
  BY OnwardSame, Zenon
<1> QED BY <1>1, DbIs, Zenon DEF Rehomed

\* After the page, none of its mailboxes that the job looks at is due.
LEMMA PageRehomed ==
  ASSUME rule \in Rules, db \in Sound, NEW j,
         NEW S, Bounded(S), S \subseteq Nat, S \subseteq DOMAIN box
  PROVE  InOrder(LAMBDA d, i : RehomeOne(j, d, i), db, S) \in Rehomed(j, S)
<1>1. PICK step : step = [i \in S |-> [d \in Sound |-> RehomeOne(j, d, i)]]
  BY Zenon
<1>2. \A i \in S : \A d \in Sound : step[i][d] = RehomeOne(j, d, i)
  BY <1>1, Zenon
<1>3. \A i \in S : \A d \in Sound : RehomeOne(j, d, i) \in Sound
  <2>1. \A i \in S : i \in DOMAIN box
    BY Zenon
  <2> QED BY <2>1, OneRehomed, Zenon
<1>4. \A i \in S : \A d \in Sound : step[i][d] \in Sound
  BY <1>2, <1>3, Zenon
<1>5. PICK h \in [SUBSET S -> Sound] : IsFold(db, step, S, h)
  BY <1>4, FoldSolved, Zenon
<1>6. RehomeFold(j, S, h)
  <2>1. ASSUME NEW A \in SUBSET S
        PROVE  FoldStep(db, step, h, A) =
                 IF A = {} THEN db ELSE RehomeOne(j, h[A \ {Max(A)}], Max(A))
    <3>1. CASE A = {}
      BY <3>1, Zenon DEF FoldStep
    <3>2. CASE A # {}
      <4>1. Max(A) \in S /\ A \ {Max(A)} \in SUBSET S
        BY <3>2, MaxRemoved, Zenon
      <4>2. h[A \ {Max(A)}] \in Sound
        BY <4>1, Zenon
      <4>3. step[Max(A)][h[A \ {Max(A)}]] = RehomeOne(j, h[A \ {Max(A)}], Max(A))
        BY <1>2, <4>1, <4>2, Zenon
      <4> QED BY <3>2, <4>3, Zenon DEF FoldStep
    <3> QED BY <3>1, <3>2, Zenon
  <2> DEFINE x(A) == FoldStep(db, step, h, A)
             y(A) == IF A = {} THEN db ELSE RehomeOne(j, h[A \ {Max(A)}], Max(A))
  <2>2. \A A \in SUBSET S : x(A) = y(A)
    BY <2>1, Zenon
  <2>3. h = [A \in SUBSET S |-> x(A)]
    BY <1>5, Zenon DEF IsFold
  <2> HIDE DEF x, y
  <2>4. h = [A \in SUBSET S |-> y(A)]
    BY <2>2, <2>3, Zenon
  <2> QED BY <2>4, Zenon DEF y, RehomeFold
<1>7. PICK g : g = CHOOSE z : RehomeFold(j, S, z)
  BY Zenon
<1>8. RehomeFold(j, S, g)
  BY <1>6, <1>7, Zenon
<1>9. \A A \in SUBSET S :
        g[A] = IF A = {} THEN db ELSE RehomeOne(j, g[A \ {Max(A)}], Max(A))
  BY <1>8, Zenon DEF RehomeFold
<1>10. PICK T : T = [A \in SUBSET S |-> Rehomed(j, A)]
  BY Zenon
<1>11. g[{}] \in T[{}]
  <2>1. {} \in SUBSET S
    BY Zenon
  <2> QED BY <1>9, <1>10, <2>1, RehomeStart, Zenon
<1>12. ASSUME NEW A \in SUBSET S, A # {}, g[A \ {Max(A)}] \in T[A \ {Max(A)}] PROVE g[A] \in T[A]
  <2>1. PICK B : B = A \ {Max(A)}
    BY Zenon
  <2>2. Max(A) \in S /\ B \in SUBSET S
    BY <1>12, <2>1, MaxRemoved, Zenon
  <2>3. g[B] \in Rehomed(j, B) /\ g[B] \in Sound
    BY <1>10, <1>12, <2>1, <2>2, Zenon DEF Rehomed
  <2>4. g[A] = RehomeOne(j, g[B], Max(A))
    BY <1>9, <1>12, <2>1, Zenon
  <2>5. A = B \cup {Max(A)} /\ Max(A) \in DOMAIN box
    <3>1. Max(A) \in A
      BY <1>12, MaxRemoved, Zenon
    <3> QED BY <2>1, <2>2, <3>1, Zenon
  <2>6. g[A] \in Rehomed(j, A)
    <3>1. PICK e, i : e = g[B] /\ i = Max(A)
      BY Zenon
    <3>2. RehomeOne(j, e, i) \in Rehomed(j, B \cup {i})
      BY <2>3, <2>5, <3>1, RehomeStep, Zenon
    <3> QED BY <2>4, <2>5, <3>1, <3>2, Zenon
  <2> QED BY <1>10, <2>6, Zenon
<1>13. g[S] \in T[S]
  <2>1. S \in SUBSET S
    BY Zenon
  <2> QED BY <1>11, <1>12, <2>1, FoldHolds, Zenon
<1>14. g[S] \in Rehomed(j, S)
  <2>1. S \in SUBSET S
    BY Zenon
  <2> QED BY <1>10, <1>13, <2>1, Zenon
<1> QED BY <1>7, <1>14, RehomeUnfold, Zenon

-----------------------------------------------------------------------------
(* The inductive invariant. *)

Job == [root : Roots, cursor : Nat, max : Nat, done : BOOLEAN]

Typed ==
  /\ rule \in Rules /\ db \in Sound
  /\ rcpt \in [Messages -> Seq(Recipient)]
  /\ stage \in [Messages -> {"open", "stored", "refused"}]
  /\ jobs \in Seq(Job)

\* Every stored message has a delivery.
Stored == \A m \in Messages : stage[m] = "stored" => \E p \in mail : p[1] = m

\* A job that is not done will look at the mailbox x with number b, or nobody has to.
Covered(M, J, x, b) ==
  \/ b \in M
  \/ \E j \in DOMAIN J : ~J[j].done /\ J[j].cursor < b /\ b <= J[j].max /\ x.owner <= J[j].root

DueIn(R, d, b) ==
  /\ b \in DOMAIN d.box /\ \E p \in d.mail : p[2] = b
  /\ NeedsPromotion(d.box[b], MatchIn(R, d.box[b].addr))

\* Every mailbox that holds mail and is due lies ahead of a job.
Settling == \A b \in DOMAIN box : DueIn(rule, db, b) => Covered(missed, jobs, box[b], b)

IInv == Typed /\ Stored /\ Settling

\* Due by the present rules.
LEMMA DueIs == \A d, b : Wants(d, b) <=> DueIn(rule, d, b)
BY MatchIs, Zenon DEF Wants, DueIn

\* The database after a step.
LEMMA DbNext ==
  ASSUME NEW e \in Dbs, box' = e.box, lastBox' = e.last, mail' = e.mail
  PROVE  db' = e
BY DEF db, Dbs

\* A step that changes the database only: the mailboxes that become due are left
\* for nobody.
LEMMA SettlingKept ==
  ASSUME Typed, Settling, NEW e \in Sound, NEW X, Onward(db, e, X), X \subseteq missed', missed \subseteq missed',
         rule' = rule, jobs' = jobs, box' = e.box, db' = e
  PROVE  Settling'
<1>1. ASSUME NEW b \in DOMAIN e.box, DueIn(rule, e, b) PROVE Covered(missed', jobs, e.box[b], b)
  <2>1. Wants(e, b)
    BY <1>1, DueIs, Zenon
  <2>2. CASE b \in X
    BY <2>2, Zenon DEF Covered
  <2>3. CASE b \notin X
    <3>1. Wants(db, b) /\ e.box[b] = db.box[b]
      BY <2>1, <2>3, Zenon DEF Onward
    <3>2. b \in DOMAIN db.box /\ DueIn(rule, db, b)
      BY <3>1, DueIs, Zenon DEF Wants
    <3>3. Covered(missed, jobs, db.box[b], b)
      BY <3>2, DbIs, Zenon DEF Settling
    <3> QED BY <3>1, <3>3, Zenon DEF Covered
  <2> QED BY <2>2, <2>3, Zenon
<1>2. \A b \in DOMAIN box' : DueIn(rule', db', b) => Covered(missed', jobs', box'[b], b)
  BY <1>1, Zenon
<1> QED BY <1>2, Zenon DEF Settling

\* A stored message keeps a delivery where the database goes onward.
LEMMA StoredKept ==
  ASSUME Stored, NEW e, NEW X, Onward(db, e, X), mail' = e.mail,
         \A m \in Messages : stage'[m] = "stored" => stage[m] = "stored" \/ \E p \in e.mail : p[1] = m
  PROVE  Stored'
<1>1. ASSUME NEW m \in Messages, stage'[m] = "stored" PROVE \E p \in e.mail : p[1] = m
  <2>1. CASE stage[m] = "stored"
    <3>1. PICK p \in mail : p[1] = m
      BY <2>1, Zenon DEF Stored
    <3>2. p \in db.mail
      BY <3>1, DbIs, Zenon
    <3> QED BY <3>1, <3>2, Zenon DEF Onward
  <2>2. CASE stage[m] # "stored"
    BY <1>1, <2>2, Zenon
  <2> QED BY <2>1, <2>2, Zenon
<1> QED BY <1>1, Zenon DEF Stored

\* A writer's transaction.
LEMMA CommitKeeps ==
  ASSUME IInv, NEW m \in Messages, NEW e \in Sound, Commit(m, e), NEW X, Onward(db, e, X),
         \E p \in e.mail : p[1] = m, X \subseteq missed', missed \subseteq missed'
  PROVE  IInv'
<1>1. /\ box' = e.box /\ lastBox' = e.last /\ mail' = e.mail /\ rule' = rule /\ jobs' = jobs /\ rcpt' = rcpt
      /\ stage' = [stage EXCEPT ![m] = "stored"]
  BY Zenon DEF Commit
<1>2. Typed /\ Stored /\ Settling
  BY Zenon DEF IInv
<1>3. db' = e
  BY <1>1, SoundFacts, DbNext, Zenon
<1>4. /\ stage' \in [Messages -> {"open", "stored", "refused"}]
      /\ \A n \in Messages : n # m => stage'[n] = stage[n]
  <2>1. stage \in [Messages -> {"open", "stored", "refused"}]
    BY <1>2, Zenon DEF Typed
  <2> QED BY <1>1, <2>1
<1>5. Typed'
  BY <1>1, <1>2, <1>3, <1>4, Zenon DEF Typed
<1>6. Stored'
  <2>1. \A n \in Messages : stage'[n] = "stored" => stage[n] = "stored" \/ \E p \in e.mail : p[1] = n
    BY <1>4, Zenon
  <2>2. mail' = e.mail
    BY <1>1, Zenon
  <2> QED BY <1>2, <2>1, <2>2, StoredKept, Zenon
<1>7. Settling'
  BY <1>1, <1>2, <1>3, SettlingKept, Zenon
<1> QED BY <1>5, <1>6, <1>7, Zenon DEF IInv

\* A commit after which no further mailbox is due.
LEMMA CommitSettles ==
  ASSUME IInv, NEW m \in Messages, NEW e \in Sound, Commit(m, e), Onward(db, e, {}),
         \E p \in e.mail : p[1] = m, missed \subseteq missed'
  PROVE  IInv'
<1>1. PICK X : X = {}
  BY Zenon
<1>2. Onward(db, e, X) /\ X \subseteq missed'
  BY <1>1, Zenon
<1> HIDE <1>1
<1> QED BY <1>2, CommitKeeps, Zenon

-----------------------------------------------------------------------------
(* The writers. *)

\* What Typed says.
LEMMA TypedFacts ==
  ASSUME Typed
  PROVE  /\ rule \in Rules /\ db \in Sound
         /\ rcpt \in [Messages -> Seq(Recipient)]
         /\ stage \in [Messages -> {"open", "stored", "refused"}]
         /\ jobs \in Seq(Job)
BY Zenon DEF Typed

\* The recipients of a message are numbered from one on.
LEMMA RcptFacts ==
  ASSUME Typed, NEW m \in Messages
  PROVE  /\ Bounded(DOMAIN rcpt[m]) /\ DOMAIN rcpt[m] \subseteq Nat
         /\ \A i \in DOMAIN rcpt[m] : rcpt[m][i] \in Recipient
         /\ rcpt[m] # <<>> => DOMAIN rcpt[m] # {}
<1>1. PICK q \in Seq(Recipient) : q = rcpt[m]
  BY TypedFacts, Zenon
<1>2. DOMAIN q = 1 .. Len(q) /\ Len(q) \in Nat /\ \A i \in DOMAIN q : q[i] \in Recipient
  OBVIOUS
<1>3. Bounded(1 .. Len(q))
  <2>1. \A i \in 1 .. Len(q) : i <= Len(q)
    BY <1>2
  <2> QED BY <1>2, <2>1, Zenon DEF Bounded
<1>4. DOMAIN q \subseteq Nat
  BY <1>2
<1>5. q # <<>> => DOMAIN q # {}
  <2>1. Len(q) = 0 => q = <<>>
    OBVIOUS
  <2>2. Len(q) # 0 => 1 \in 1 .. Len(q)
    BY <1>2
  <2> QED BY <1>2, <2>1, <2>2, Zenon
<1> QED BY <1>1, <1>2, <1>3, <1>4, <1>5, Zenon

\* The SMTP path.
LEMMA SmtpCommitKeeps ==
  ASSUME IInv, NEW m \in Messages, SmtpCommit(m)
  PROVE  IInv'
<1>1. Typed /\ Stored /\ Settling /\ rule \in Rules /\ db \in Sound
  BY TypedFacts, Zenon DEF IInv
<1>2. PICK S : S = DOMAIN rcpt[m]
  BY Zenon
<1>3. Bounded(S) /\ S \subseteq Nat /\ S # {} /\ \A i \in S : rcpt[m][i] \in Recipient
  BY <1>1, <1>2, RcptFacts, Zenon DEF SmtpCommit
<1>4. CASE /\ \A i \in S : SmtpRecheck(rcpt[m][i])
           /\ Commit(m, InOrder(LAMBDA d, i : SmtpDeliver(m, d, rcpt[m][i]), db, S))
           /\ missed' = missed
  <2>1. PICK e : e = InOrder(LAMBDA d, i : SmtpDeliver(m, d, rcpt[m][i]), db, S)
    BY Zenon
  <2>2. \A i \in S : rcpt[m][i] \in Recipient /\ MatchAddress(rcpt[m][i].to) # NoMatch
    BY <1>3, <1>4, Zenon DEF SmtpRecheck
  <2>3. e \in Along(m, S)
    BY <1>1, <1>3, <2>1, <2>2, SmtpResult, Zenon
  <2>4. e \in Sound /\ Onward(db, e, {}) /\ \E p \in e.mail : p[1] = m
    BY <1>3, <2>3, Zenon DEF Along
  <2>5. Commit(m, e) /\ missed' = missed
    BY <1>4, <2>1, Zenon
  <2>6. missed \subseteq missed'
    BY <2>5, Zenon
  <2> QED BY <2>4, <2>5, <2>6, CommitSettles, Zenon
<1>5. CASE /\ stage' = [stage EXCEPT ![m] = "refused"]
           /\ UNCHANGED <<rule, box, lastBox, mail, rcpt, jobs, missed>>
  <2>1. /\ rule' = rule /\ box' = box /\ lastBox' = lastBox /\ mail' = mail /\ rcpt' = rcpt
        /\ jobs' = jobs /\ missed' = missed
    BY <1>5
  <2>2. db' = db
    BY <2>1, Zenon DEF db
  <2>3. /\ stage' \in [Messages -> {"open", "stored", "refused"}]
        /\ \A n \in Messages : stage'[n] = "stored" => stage[n] = "stored"
    <3>1. stage \in [Messages -> {"open", "stored", "refused"}]
      BY <1>1, TypedFacts, Zenon
    <3> QED BY <1>5, <3>1
  <2>4. Typed'
    BY <1>1, <2>1, <2>2, <2>3, Zenon DEF Typed
  <2>5. Stored'
    BY <1>1, <2>1, <2>3, Zenon DEF Stored
  <2>6. Settling'
    BY <1>1, <2>1, <2>2, Zenon DEF Settling
  <2> QED BY <2>4, <2>5, <2>6, Zenon DEF IInv
<1> QED BY <1>2, <1>4, <1>5, Zenon DEF SmtpCommit

\* The replay of a receipt.
LEMMA ReplayKeeps ==
  ASSUME IInv, NEW m \in Messages, Replay(m)
  PROVE  IInv'
<1>1. Typed /\ rule \in Rules /\ db \in Sound
  BY TypedFacts, Zenon DEF IInv
<1>2. PICK S : S = DOMAIN rcpt[m]
  BY Zenon
<1>3. Bounded(S) /\ S \subseteq Nat /\ S # {} /\ \A i \in S : rcpt[m][i] \in Recipient
  BY <1>1, <1>2, RcptFacts, Zenon DEF Replay
<1>4. PICK e : e = InOrder(LAMBDA d, i : RecoveryDeliver(m, d, rcpt[m][i]), db, S)
  BY Zenon
<1>5. e \in Along(m, S)
  BY <1>1, <1>3, <1>4, RecoveryResult, Zenon
<1>6. e \in Sound /\ Onward(db, e, {}) /\ \E p \in e.mail : p[1] = m
  BY <1>3, <1>5, Zenon DEF Along
<1>7. Commit(m, e) /\ missed' = missed
  BY <1>2, <1>4, Zenon DEF Replay
<1>8. missed \subseteq missed'
  BY <1>7, Zenon
<1> QED BY <1>6, <1>7, <1>8, CommitSettles, Zenon

\* ingestd.
LEMMA IngestCommitKeeps ==
  ASSUME IInv, NEW m \in Messages, IngestCommit(m)
  PROVE  IInv'
<1>1. Typed /\ rule \in Rules /\ db \in Sound
  BY TypedFacts, Zenon DEF IInv
<1>2. PICK S : S = DOMAIN rcpt[m]
  BY Zenon
<1>3. Bounded(S) /\ S \subseteq Nat /\ S # {} /\ \A i \in S : rcpt[m][i] \in Recipient
  BY <1>1, <1>2, RcptFacts, Zenon DEF IngestCommit
<1>4. PICK acc : acc = IngestResult(m)
  BY Zenon
<1>5. acc \in IngestAlong(m, S, S)
  BY <1>1, <1>2, <1>3, <1>4, IngestResulting, Zenon
<1>6. /\ acc.ok /\ Commit(m, acc.d)
      /\ missed' = IF \E i \in DOMAIN rcpt[m] : rule[rcpt[m][i].match.root].on = "off"
                   THEN missed \cup {b \in DOMAIN box' : <<m, b>> \in mail'} ELSE missed
  BY <1>4, Zenon DEF IngestCommit
<1>7. PICK e : e = acc.d
  BY Zenon
<1>8. /\ e \in Sound /\ Onward(db, e, Extra(m, e)) /\ (~Switched(m, S) => Onward(db, e, {}))
      /\ \E p \in e.mail : p[1] = m
  BY <1>3, <1>5, <1>6, <1>7, AccFacts, Zenon DEF IngestAlong, IngestAccs
<1>9. Commit(m, e) /\ box' = e.box /\ mail' = e.mail
  BY <1>6, <1>7, Zenon DEF Commit
<1>10. missed \subseteq missed'
  BY <1>6, Zenon
<1>11. CASE Switched(m, S)
  <2>1. missed' = missed \cup {b \in DOMAIN box' : <<m, b>> \in mail'}
    BY <1>2, <1>6, <1>11, Zenon DEF Switched
  <2>2. Extra(m, e) \subseteq missed'
    BY <1>9, <2>1, Zenon DEF Extra
  <2> QED BY <1>8, <1>9, <1>10, <2>2, CommitKeeps, Zenon
<1>12. CASE ~Switched(m, S)
  BY <1>8, <1>9, <1>10, <1>12, CommitSettles, Zenon
<1> QED BY <1>11, <1>12, Zenon

\* RCPT TO.
LEMMA RcptKeeps ==
  ASSUME IInv, NEW m \in Messages, NEW a \in Addresses, Rcpt(m, a)
  PROVE  IInv'
<1>1. Typed /\ Stored /\ Settling /\ rule \in Rules
  BY TypedFacts, Zenon DEF IInv
<1>2. PICK mt : mt = MatchAddress(a)
  BY Zenon
<1>3. /\ mt # NoMatch /\ rcpt' = [rcpt EXCEPT ![m] = Append(@, [to |-> a, match |-> mt])]
      /\ UNCHANGED <<rule, box, lastBox, mail, stage, jobs, missed>>
  BY <1>2 DEF Rcpt
<1>4. mt \in Match
  BY <1>1, <1>2, <1>3, NowFits, Zenon
<1>5. [to |-> a, match |-> mt] \in Recipient
  BY <1>4 DEF Recipient
<1>6. rcpt' \in [Messages -> Seq(Recipient)]
  <2>1. rcpt \in [Messages -> Seq(Recipient)]
    BY <1>1, TypedFacts, Zenon
  <2>2. PICK x \in Recipient : x = [to |-> a, match |-> mt]
    BY <1>5, Zenon
  <2>3. rcpt' = [rcpt EXCEPT ![m] = Append(@, x)]
    BY <1>3, <2>2, Zenon
  <2> QED BY <2>1, <2>3
<1>7. /\ rule' = rule /\ box' = box /\ lastBox' = lastBox /\ mail' = mail /\ stage' = stage
      /\ jobs' = jobs /\ missed' = missed
  BY <1>3
<1>8. db' = db
  BY <1>7, Zenon DEF db
<1>9. Typed'
  BY <1>1, <1>6, <1>7, <1>8, Zenon DEF Typed
<1>10. Stored'
  BY <1>1, <1>7, Zenon DEF Stored
<1>11. Settling'
  BY <1>1, <1>7, <1>8, Zenon DEF Settling
<1> QED BY <1>9, <1>10, <1>11, Zenon DEF IInv

-----------------------------------------------------------------------------
(* The edits of the rules. *)

\* Nothing but the rules, the jobs and the history changes.
LEMMA EditKeeps ==
  ASSUME IInv, rule' \in Rules, jobs' \in Seq(Job), UNCHANGED <<box, lastBox, mail, rcpt, stage>>,
         \A b \in DOMAIN box : DueIn(rule', db, b) => Covered(missed', jobs', box[b], b)
  PROVE  IInv'
<1>1. Typed /\ Stored /\ Settling
  BY Zenon DEF IInv
<1>2. box' = box /\ lastBox' = lastBox /\ mail' = mail /\ rcpt' = rcpt /\ stage' = stage
  OBVIOUS
<1>3. db' = db
  BY <1>2, Zenon DEF db
<1>4. Typed'
  BY <1>1, <1>2, <1>3, Zenon DEF Typed
<1>5. Stored'
  BY <1>1, <1>2, Zenon DEF Stored
<1>6. Settling'
  BY <1>2, <1>3, Zenon DEF Settling
<1> QED BY <1>4, <1>5, <1>6, Zenon DEF IInv

\* An edit of rule r leaves the decision to a rule of a longer root, and to any
\* other rule if r was idle.
LEMMA EditedElsewhere ==
  ASSUME NEW R \in Rules, NEW Q \in Rules, NEW r \in Roots, \A s \in Roots : s # r => R[s] = Q[s],
         NEW top, Decides(Q, top), top > r \/ (top # r /\ r \notin Active(R))
  PROVE  Decides(R, top) /\ R[top] = Q[top]
<1>1. top \in Active(Q) /\ top \in Roots /\ Q[top].on = "on" /\ \A s \in Active(Q) : top >= s
  BY Zenon DEF Decides, Active
<1>2. top # r /\ (r \in Active(R) => top >= r)
  <2>1. top \in Int /\ r \in Int
    BY <1>1, RootsFacts, Zenon
  <2>2. top > r => top # r /\ top >= r
    BY <2>1
  <2> QED BY <2>2, Zenon
<1>3. R[top] = Q[top]
  BY <1>1, <1>2, Zenon
<1>4. \A s \in Active(R) : s # r => s \in Active(Q)
  BY Zenon DEF Active
<1>5. top \in Active(R)
  BY <1>1, <1>3, Zenon DEF Active
<1>6. \A s \in Active(R) : top >= s
  BY <1>1, <1>2, <1>4, Zenon
<1> QED BY <1>1, <1>3, <1>5, <1>6, Zenon DEF Decides

\* A mailbox that is due by the rules Q is due by R, if the rule that decides in Q
\* decides in R as well.
LEMMA DueBefore ==
  ASSUME NEW R \in Rules, NEW Q \in Rules, NEW d \in Sound, NEW b, DueIn(Q, d, b),
         \A top \in Roots : Decides(Q, top) /\ top > 0 /\ d.box[b].owner <= top =>
                              Decides(R, top) /\ R[top] = Q[top]
  PROVE  DueIn(R, d, b)
<1>1. PICK x : x = d.box[b]
  BY Zenon
<1>2. b \in DOMAIN d.box /\ (\E p \in d.mail : p[2] = b) /\ NeedsPromotion(x, MatchIn(Q, x.addr))
  BY <1>1, Zenon DEF DueIn
<1>3. x \in Mailbox
  BY <1>1, <1>2, SoundFacts, DbFacts, Zenon
<1>4. MatchIn(Q, x.addr) # NoMatch
  BY <1>2, NoMatchFacts, Zenon
<1>5. PICK top \in Roots : Decides(Q, top)
  BY <1>4, SomeDecides, Zenon
<1>6. MatchIn(Q, x.addr) = Found(Q, top, x.addr)
  BY <1>5, OneDecides, Zenon
<1>7. Found(Q, top, x.addr).root = top /\ x.owner \in Int /\ top \in Int
  BY <1>3, FoundFacts, MailboxFacts, RootsFacts, Zenon
<1>8. top > 0 /\ x.owner <= top
  BY <1>2, <1>6, <1>7 DEF NeedsPromotion
<1>9. Decides(R, top) /\ R[top] = Q[top]
  BY <1>1, <1>5, <1>8, Zenon
<1>10. MatchIn(R, x.addr) = Found(R, top, x.addr)
  BY <1>9, OneDecides, Zenon
<1>11. Found(R, top, x.addr) = Found(Q, top, x.addr)
  BY <1>9, Zenon DEF Found
<1>12. NeedsPromotion(x, MatchIn(R, x.addr))
  BY <1>2, <1>6, <1>10, <1>11, Zenon
<1> QED BY <1>1, <1>2, <1>12, Zenon DEF DueIn

\* The numbers of the mailboxes are positive and have a bound.
LEMMA BoxFacts ==
  ASSUME Typed
  PROVE  /\ Bounded(DOMAIN box) /\ \A b \in DOMAIN box : b \in Nat /\ b > 0
         /\ \A b \in DOMAIN box : box[b] \in Mailbox /\ box[b].owner \in Int
<1>1. db \in Sound /\ db \in Dbs /\ db.box = box /\ db.last = lastBox
  BY TypedFacts, SoundFacts, DbIs, Zenon
<1>2. DOMAIN box \subseteq 1 .. lastBox /\ lastBox \in Nat
  BY <1>1, SoundFacts, DbFacts, Zenon
<1>3. \A b \in DOMAIN box : b <= lastBox
  BY <1>2
<1>4. Bounded(DOMAIN box)
  BY <1>2, <1>3, Zenon DEF Bounded
<1>5. \A b \in DOMAIN box : b \in Nat /\ b > 0
  BY <1>2
<1>6. \A b \in DOMAIN box : box[b] \in Mailbox
  BY <1>1, DbFacts, Zenon
<1> QED BY <1>4, <1>5, <1>6, MailboxFacts, Zenon

\* The job an edit commits covers every mailbox its root may promote.
LEMMA NewJobCovers ==
  ASSUME Typed, NEW r \in Roots, NEW M, jobs' = Append(jobs, NewJob(r))
  PROVE  /\ jobs' \in Seq(Job)
         /\ \A b \in DOMAIN box : box[b].owner <= r \/ Covered(M, jobs, box[b], b) => Covered(M, jobs', box[b], b)
<1>1. PICK N : N = {0} \cup DOMAIN box
  BY Zenon
<1>2. Bounded(N) /\ N # {} /\ N \subseteq Nat
  <2>1. PICK n \in Nat : \A b \in DOMAIN box : b <= n
    BY BoxFacts, Zenon DEF Bounded
  <2>2. \A b \in N : b <= n
    BY <1>1, <2>1
  <2>3. N \subseteq Nat /\ N # {}
    BY <1>1, BoxFacts
  <2> QED BY <2>2, <2>3, Zenon DEF Bounded
<1>3. Max(N) \in Nat /\ \A b \in DOMAIN box : b <= Max(N)
  <2>1. Max(N) \in N /\ \A y \in N : Max(N) >= y
    BY <1>2, Greatest, Zenon
  <2>2. Max(N) \in Nat /\ \A b \in DOMAIN box : b \in Nat /\ Max(N) >= b
    BY <1>1, <1>2, <2>1, BoxFacts, Zenon
  <2> QED BY <2>2
<1>4. PICK x : x = [root |-> r, cursor |-> 0, max |-> Max(N), done |-> FALSE]
  BY Zenon
<1>5. NewJob(r) = x
  BY <1>1, <1>4, Zenon DEF NewJob
<1>6. x \in Job /\ x.root = r /\ x.cursor = 0 /\ x.max = Max(N) /\ ~x.done
  BY <1>3, <1>4 DEF Job
<1>7. PICK J \in Seq(Job) : J = jobs
  BY TypedFacts, Zenon
<1>8. jobs' = Append(J, x)
  BY <1>5, <1>7, Zenon
<1>9. /\ jobs' \in Seq(Job)
      /\ \A j \in DOMAIN J : j \in DOMAIN jobs' /\ jobs'[j] = J[j]
      /\ Len(J) + 1 \in DOMAIN jobs' /\ jobs'[Len(J) + 1] = x
  BY <1>6, <1>7, <1>8
<1>10. ASSUME NEW b \in DOMAIN box, box[b].owner <= r PROVE Covered(M, jobs', box[b], b)
  <2>1. 0 < b
    BY BoxFacts
  <2> QED BY <1>3, <1>6, <1>9, <1>10, <2>1, Zenon DEF Covered
<1>11. ASSUME NEW b \in DOMAIN box, Covered(M, jobs, box[b], b) PROVE Covered(M, jobs', box[b], b)
  BY <1>7, <1>9, <1>11, Zenon DEF Covered
<1> QED BY <1>9, <1>10, <1>11, Zenon

\* What Settling says.
LEMMA SettlingFacts ==
  ASSUME Settling
  PROVE  \A b \in DOMAIN box : DueIn(rule, db, b) => Covered(missed, jobs, box[b], b)
BY Zenon DEF Settling

\* An edit of rule r that commits a job for it.
LEMMA EditWithJob ==
  ASSUME IInv, NEW r \in Roots, rule' \in Rules, \A s \in Roots : s # r => rule[s] = rule'[s],
         jobs' = Append(jobs, NewJob(r)), UNCHANGED <<box, lastBox, mail, rcpt, stage, missed>>
  PROVE  IInv'
<1>1. Typed /\ Settling /\ rule \in Rules /\ db \in Sound
  BY TypedFacts, Zenon DEF IInv
<1>2. missed' = missed /\ UNCHANGED <<box, lastBox, mail, rcpt, stage>>
  OBVIOUS
<1>3. /\ jobs' \in Seq(Job)
      /\ \A b \in DOMAIN box : box[b].owner <= r \/ Covered(missed, jobs, box[b], b) =>
                                 Covered(missed, jobs', box[b], b)
  BY <1>1, NewJobCovers, Zenon
<1>4. ASSUME NEW b \in DOMAIN box, DueIn(rule', db, b) PROVE Covered(missed, jobs', box[b], b)
  <2>1. CASE box[b].owner <= r
    BY <1>3, <2>1, Zenon
  <2>2. CASE ~(box[b].owner <= r)
    <3>1. ASSUME NEW top \in Roots, Decides(rule', top), db.box[b].owner <= top
          PROVE  Decides(rule, top) /\ rule[top] = rule'[top]
      <4>1. top > r
        <5>1. top \in Int /\ r \in Int /\ box[b].owner \in Int /\ box[b].owner <= top
          BY <1>1, <3>1, RootsFacts, BoxFacts, DbIs, Zenon
        <5> QED BY <2>2, <5>1
      <4> QED BY <1>1, <3>1, <4>1, EditedElsewhere, Zenon
    <3>2. DueIn(rule, db, b)
      BY <1>1, <1>4, <3>1, DueBefore, Zenon
    <3> QED BY <1>1, <1>3, <3>2, SettlingFacts, Zenon
  <2> QED BY <2>1, <2>2, Zenon
<1> QED BY <1>2, <1>3, <1>4, EditKeeps, Zenon

\* update_domain: its job covers whatever becomes due, since only its root can
\* gain.
LEMMA UpdateRuleKeeps ==
  ASSUME IInv, NEW r \in Roots, NEW s \in RuleStates, NEW k \in BOOLEAN, UpdateRule(r, s, k)
  PROVE  IInv'
<1>1. rule \in Rules
  BY TypedFacts, Zenon DEF IInv
<1>2. /\ rule' = [rule EXCEPT ![r].on = s, ![r].strip = k]
      /\ jobs' = Append(jobs, NewJob(r)) /\ UNCHANGED <<box, lastBox, mail, rcpt, stage, missed>>
  BY Zenon DEF UpdateRule
<1>3. s \in RuleState
  BY RoutingAssumption, Zenon
<1>4. rule' \in Rules /\ \A t \in Roots : t # r => rule[t] = rule'[t]
  <2> DEFINE F == [ver : Nat, there : BOOLEAN, on : RuleState, strip : BOOLEAN]
  <2>1. rule \in [Roots -> F] /\ [rule[r] EXCEPT !.on = s, !.strip = k] \in F
    BY <1>1, <1>3, Zenon DEF Rules
  <2>2. rule' = [rule EXCEPT ![r] = [rule[r] EXCEPT !.on = s, !.strip = k]]
    BY <1>1, <1>2, Zenon DEF Rules
  <2> QED BY <2>1, <2>2 DEF Rules
<1> QED BY <1>2, <1>4, EditWithJob, Zenon

\* create_domain: its job covers whatever becomes due.
LEMMA CreateRuleKeeps ==
  ASSUME IInv, NEW r \in Roots, NEW s \in RuleStates, NEW k \in BOOLEAN, CreateRule(r, s, k)
  PROVE  IInv'
<1>1. Typed /\ Settling /\ rule \in Rules /\ db \in Sound /\ jobs \in Seq(Job)
  BY TypedFacts, Zenon DEF IInv
<1>2. /\ rule' = [rule EXCEPT ![r] = [ver |-> @.ver + 1, there |-> TRUE, on |-> s, strip |-> k]]
      /\ jobs' = IF s = "off" THEN jobs ELSE Append(jobs, NewJob(r))
      /\ ~rule[r].there /\ UNCHANGED <<box, lastBox, mail, rcpt, stage, missed>>
  BY Zenon DEF CreateRule
<1>3. s \in RuleState
  BY RoutingAssumption, Zenon
<1>4. /\ rule' \in Rules /\ \A t \in Roots : t # r => rule[t] = rule'[t]
      /\ rule'[r].on = s
  <2> DEFINE F == [ver : Nat, there : BOOLEAN, on : RuleState, strip : BOOLEAN]
             x == [ver |-> rule[r].ver + 1, there |-> TRUE, on |-> s, strip |-> k]
  <2>1. rule \in [Roots -> F] /\ x \in F /\ x.on = s
    BY <1>1, <1>3 DEF Rules
  <2>2. rule' = [rule EXCEPT ![r] = x]
    BY <1>2, Zenon
  <2> HIDE DEF x
  <2> QED BY <2>1, <2>2 DEF Rules
<1>5. CASE s # "off"
  BY <1>2, <1>4, <1>5, EditWithJob, Zenon
<1>6. CASE s = "off"
  <2>1. r \notin Active(rule) /\ r \notin Active(rule')
    BY <1>2, <1>4, <1>6, Zenon DEF Active
  <2>2. ASSUME NEW top \in Roots, Decides(rule', top) PROVE Decides(rule, top) /\ rule[top] = rule'[top]
    <3>1. top # r
      BY <2>1, <2>2, Zenon DEF Decides
    <3> QED BY <1>1, <1>4, <2>1, <2>2, <3>1, EditedElsewhere, Zenon
  <2>3. \A b : DueIn(rule', db, b) => DueIn(rule, db, b)
    BY <1>1, <1>4, <2>2, DueBefore, Zenon
  <2>4. jobs' = jobs /\ missed' = missed /\ UNCHANGED <<box, lastBox, mail, rcpt, stage>>
    BY <1>2, <1>6
  <2>5. \A b \in DOMAIN box : DueIn(rule', db, b) => Covered(missed', jobs', box[b], b)
    BY <1>1, <2>3, <2>4, SettlingFacts, Zenon
  <2> QED BY <1>1, <1>4, <2>4, <2>5, EditKeeps, Zenon
<1> QED BY <1>5, <1>6, Zenon

\* delete_domain: what becomes due is left for no job.
LEMMA DeleteRuleKeeps ==
  ASSUME IInv, NEW r \in Roots, DeleteRule(r)
  PROVE  IInv'
<1>1. Typed /\ Settling /\ rule \in Rules /\ db \in Sound /\ jobs \in Seq(Job)
  BY TypedFacts, Zenon DEF IInv
<1>2. /\ rule' = [rule EXCEPT ![r].there = FALSE]
      /\ UNCHANGED <<box, lastBox, mail, rcpt, stage, jobs>>
      /\ missed' = missed \cup {b \in DOMAIN box : Due(b)' /\ ~Due(b)}
  BY Zenon DEF DeleteRule
<1>3. rule' \in Rules
  <2> DEFINE F == [ver : Nat, there : BOOLEAN, on : RuleState, strip : BOOLEAN]
  <2>1. rule \in [Roots -> F] /\ [rule[r] EXCEPT !.there = FALSE] \in F
    BY <1>1, Zenon DEF Rules
  <2>2. rule' = [rule EXCEPT ![r] = [rule[r] EXCEPT !.there = FALSE]]
    BY <1>1, <1>2 DEF Rules
  <2> QED BY <2>1, <2>2 DEF Rules
<1>4. box' = box /\ jobs' = jobs /\ UNCHANGED <<box, lastBox, mail, rcpt, stage>>
  BY <1>2
<1>5. \A b : Due(b)' <=> NeedsPromotion(box'[b], MatchIn(rule', box'[b].addr))
  BY Zenon DEF Due, MatchAddress, MatchIn, Found, Active
<1>6. \A b : Due(b) <=> NeedsPromotion(box[b], MatchIn(rule, box[b].addr))
  BY Zenon DEF Due, MatchAddress, MatchIn, Found, Active
<1>7. ASSUME NEW b \in DOMAIN box, DueIn(rule', db, b) PROVE Covered(missed', jobs', box[b], b)
  <2>1. /\ (\E p \in db.mail : p[2] = b) /\ b \in DOMAIN db.box
        /\ NeedsPromotion(box[b], MatchIn(rule', box[b].addr))
    BY <1>7, DbIs, Zenon DEF DueIn
  <2>2. Due(b)'
    BY <1>4, <1>5, <2>1, Zenon
  <2>3. CASE Due(b)
    <3>1. DueIn(rule, db, b)
      BY <1>6, <2>1, <2>3, DbIs, Zenon DEF DueIn
    <3>2. Covered(missed, jobs, box[b], b)
      BY <1>1, <3>1, SettlingFacts, Zenon
    <3> QED BY <1>2, <1>4, <3>2, Zenon DEF Covered
  <2>4. CASE ~Due(b)
    BY <1>2, <2>2, <2>4, Zenon DEF Covered
  <2> QED BY <2>3, <2>4, Zenon
<1> QED BY <1>1, <1>3, <1>4, <1>7, EditKeeps, Zenon

\* sync_catch_all_policy: nothing becomes due, since nothing is promoted to
\* the catch-all.
LEMMA CatchAllKeeps ==
  ASSUME IInv, NEW s \in {"on", "off"}, CatchAll(s)
  PROVE  IInv'
<1>1. Typed /\ Settling /\ rule \in Rules /\ db \in Sound /\ jobs \in Seq(Job)
  BY TypedFacts, Zenon DEF IInv
<1>2. /\ rule' = [rule EXCEPT ![0].on = s]
      /\ UNCHANGED <<box, lastBox, mail, rcpt, stage, jobs, missed>>
  BY Zenon DEF CatchAll
<1>3. 0 \in Roots
  BY RootsFacts, Zenon
<1>4. rule' \in Rules /\ \A t \in Roots : t # 0 => rule[t] = rule'[t]
  <2> DEFINE F == [ver : Nat, there : BOOLEAN, on : RuleState, strip : BOOLEAN]
  <2>1. rule \in [Roots -> F] /\ [rule[0] EXCEPT !.on = s] \in F
    BY <1>1, <1>3 DEF Rules, RuleState
  <2>2. rule' = [rule EXCEPT ![0] = [rule[0] EXCEPT !.on = s]]
    BY <1>1, <1>2, <1>3 DEF Rules
  <2> QED BY <1>3, <2>1, <2>2 DEF Rules
<1>5. ASSUME NEW top \in Roots, Decides(rule', top), top > 0
      PROVE  Decides(rule, top) /\ rule[top] = rule'[top]
  BY <1>1, <1>3, <1>4, <1>5, EditedElsewhere, Zenon
<1>6. \A b : DueIn(rule', db, b) => DueIn(rule, db, b)
  BY <1>1, <1>4, <1>5, DueBefore, Zenon
<1>7. jobs' = jobs /\ missed' = missed /\ UNCHANGED <<box, lastBox, mail, rcpt, stage>>
  BY <1>2
<1>8. \A b \in DOMAIN box : DueIn(rule', db, b) => Covered(missed', jobs', box[b], b)
  BY <1>1, <1>6, <1>7, SettlingFacts, Zenon
<1> QED BY <1>1, <1>4, <1>7, <1>8, EditKeeps, Zenon

-----------------------------------------------------------------------------
(* The pages of the jobs. *)

\* The mailboxes a job has still to look at; its page is a beginning of them.
Ahead(j) == {b \in DOMAIN box : jobs[j].cursor < b /\ b <= jobs[j].max}
Before(j, b) == {c \in Ahead(j) : c < b}

\* The page of a job: the mailboxes ahead of it without Page others before
\* them.
LEMMA PageIs ==
  ASSUME NEW j
  PROVE  JobPage(j) = {b \in Ahead(j) : ~\E A \in SUBSET Before(j, b) : Cardinality(A) = Page}
BY Zenon DEF JobPage, Ahead, Before

\* The empty set has no element.
LEMMA EmptyCount == Cardinality({}) = 0
<1> DEFINE Step(f, T) == IF T = {} THEN 0 ELSE 1 + f[T \ {CHOOSE x : x \in T}]
           Count(f) == f = [T \in SUBSET {} |-> Step(f, T)]
<1>1. Cardinality({}) = (CHOOSE f : Count(f))[{}]
  BY Zenon DEF Cardinality
<1>2. \A T \in SUBSET {} : T = {}
  BY Zenon
<1>3. \E f : Count(f)
  <2>1. PICK z : z = [T \in SUBSET {} |-> 0]
    BY Zenon
  <2>2. \A T \in SUBSET {} : Step(z, T) = 0
    BY <1>2, Zenon
  <2> HIDE DEF Step
  <2>3. Count(z)
    BY <2>1, <2>2, Zenon
  <2> QED BY <2>3, Zenon
<1>4. PICK f : f = (CHOOSE h : Count(h)) /\ Count(f)
  BY <1>3, Zenon
<1>5. f[{}] = Step(f, {})
  <2> HIDE DEF Step
  <2>1. {} \in SUBSET {}
    BY Zenon
  <2> QED BY <1>4, <2>1, Zenon
<1> QED BY <1>1, <1>4, <1>5, Zenon

\* What a page leaves for later comes after it, and a page with nothing in it leaves
\* nothing.
LEMMA PageFirst ==
  ASSUME Typed, NEW j, NEW b \in Ahead(j), b \notin JobPage(j)
  PROVE  JobPage(j) # {} /\ \A x \in JobPage(j) : x < b
<1>1. \A x \in Ahead(j) : x \in Nat
  BY BoxFacts, Zenon DEF Ahead
<1>2. PICK A \in SUBSET Before(j, b) : Cardinality(A) = Page
  BY PageIs, Zenon
<1>3. ASSUME NEW x \in JobPage(j), ~(x < b) PROVE FALSE
  <2>1. x \in Ahead(j) /\ ~\E B \in SUBSET Before(j, x) : Cardinality(B) = Page
    BY PageIs, Zenon
  <2>2. \A c \in Ahead(j) : c < b => c < x
    BY <1>1, <1>3, <2>1
  <2>3. A \in SUBSET Before(j, x)
    BY <2>2, Zenon DEF Before
  <2> QED BY <1>2, <2>1, <2>3, Zenon
<1>4. JobPage(j) # {}
  <2>1. Ahead(j) \subseteq Nat /\ Ahead(j) # {}
    BY <1>1, Zenon
  <2>2. PICK x \in Ahead(j) : \A y \in Ahead(j) : x <= y
    BY <2>1, Least, Zenon
  <2>3. \A y \in Ahead(j) : ~(y < x)
    BY <1>1, <2>2
  <2>4. Before(j, x) = {}
    BY <2>3, Zenon DEF Before
  <2>5. \A B \in SUBSET Before(j, x) : Cardinality(B) = 0
    BY <2>4, EmptyCount, Zenon
  <2>6. 0 # Page
    BY RoutingAssumption
  <2> QED BY <2>5, <2>6, PageIs, Zenon
<1> QED BY <1>3, <1>4, Zenon

Moved(J, j, n, q) == [J EXCEPT ![j].cursor = n, ![j].done = q]

\* The job after a page.
LEMMA JobMoved ==
  ASSUME NEW J \in Seq(Job), NEW j \in DOMAIN J, NEW n \in Nat, NEW q \in BOOLEAN
  PROVE  LET K == Moved(J, j, n, q) IN
         /\ K \in Seq(Job) /\ DOMAIN K = DOMAIN J
         /\ \A k \in DOMAIN J : k # j => K[k] = J[k]
         /\ K[j].cursor = n /\ K[j].root = J[j].root /\ K[j].max = J[j].max /\ K[j].done = q
<1>1. PICK x : x = [[J[j] EXCEPT !.cursor = n] EXCEPT !.done = q]
  BY Zenon
<1>2. J[j] \in Job
  OBVIOUS
<1>3. [J[j] EXCEPT !.cursor = n] \in Job
  BY <1>2, Zenon DEF Job
<1>4. /\ x \in Job /\ x.cursor = n /\ x.done = q
      /\ x.root = J[j].root /\ x.max = J[j].max
  BY <1>1, <1>2, <1>3, Zenon DEF Job
<1>5. Moved(J, j, n, q) = [J EXCEPT ![j] = x]
  BY <1>1, Zenon DEF Moved
<1>6. PICK K : K = [J EXCEPT ![j] = x]
  BY Zenon
<1>7. /\ K \in Seq(Job) /\ DOMAIN K = DOMAIN J /\ K[j] = x
      /\ \A k \in DOMAIN J : k # j => K[k] = J[k]
  BY <1>4, <1>6
<1> QED BY <1>4, <1>5, <1>6, <1>7, Zenon

\* A page of a job: what it passes is settled or not its own, and the cursor
\* skips nothing.
LEMMA RehomePageKeeps ==
  ASSUME IInv, NEW j, RehomePage(j)
  PROVE  IInv'
<1>1. Typed /\ Stored /\ Settling /\ rule \in Rules /\ db \in Sound /\ jobs \in Seq(Job)
  BY TypedFacts, Zenon DEF IInv
<1>2. PICK S, next, e : /\ S = JobPage(j) /\ next = IF S = {} THEN jobs[j].max ELSE Max(S)
                        /\ e = InOrder(LAMBDA d, b : RehomeOne(j, d, b), db, S)
  BY Zenon
<1>3. /\ j \in DOMAIN jobs /\ box' = e.box /\ mail' = e.mail
      /\ jobs' = [jobs EXCEPT ![j].cursor = next, ![j].done = next >= jobs[j].max]
      /\ UNCHANGED <<rule, lastBox, rcpt, stage, missed>>
  BY <1>2, Zenon DEF RehomePage
<1>4. Bounded(S) /\ S \subseteq Nat /\ S \subseteq DOMAIN box
  <2>1. S \subseteq DOMAIN box
    BY <1>2, PageIs, Zenon DEF Ahead
  <2> QED BY <1>1, <2>1, BoxFacts, BoundedPart, Zenon
<1>5. e \in Rehomed(j, S)
  BY <1>1, <1>2, <1>4, PageRehomed, Zenon
<1>6. /\ e \in Sound /\ e \in Dbs /\ e.last = lastBox /\ Onward(db, e, {})
      /\ \A b \in S : Wants(e, b) => ~(box[b].owner <= jobs[j].root)
  BY <1>5, SoundFacts, Zenon DEF Rehomed
<1>7. rule' = rule /\ lastBox' = lastBox /\ rcpt' = rcpt /\ stage' = stage /\ missed' = missed
  BY <1>3
<1>8. db' = e
  BY <1>3, <1>6, <1>7, DbNext, Zenon
<1>9. next \in Nat /\ (S # {} => next \in S) /\ jobs[j].max \in Nat
  <2>1. jobs[j].max \in Nat
    <3>1. jobs[j] \in Job
      BY <1>1, <1>3
    <3> QED BY <3>1 DEF Job
  <2>2. S # {} => Max(S) \in S
    <3>1. S \subseteq Int
      BY <1>4
    <3> QED BY <1>4, <3>1, Greatest, Zenon
  <2> QED BY <1>2, <1>4, <2>1, <2>2, Zenon
<1>10. PICK q \in BOOLEAN : q = (next >= jobs[j].max)
  <2>1. (next >= jobs[j].max) \in BOOLEAN
    BY <1>9
  <2> QED BY <2>1, Zenon
<1>11. /\ jobs' \in Seq(Job) /\ DOMAIN jobs' = DOMAIN jobs
       /\ \A k \in DOMAIN jobs : k # j => jobs'[k] = jobs[k]
       /\ jobs'[j].cursor = next /\ jobs'[j].root = jobs[j].root /\ jobs'[j].max = jobs[j].max /\ jobs'[j].done = q
  <2>1. jobs' = Moved(jobs, j, next, q)
    BY <1>3, <1>10, Zenon DEF Moved
  <2>2. LET K == Moved(jobs, j, next, q) IN
         /\ K \in Seq(Job) /\ DOMAIN K = DOMAIN jobs
         /\ \A k \in DOMAIN jobs : k # j => K[k] = jobs[k]
         /\ K[j].cursor = next /\ K[j].root = jobs[j].root /\ K[j].max = jobs[j].max /\ K[j].done = q
    <3>1. jobs \in Seq(Job) /\ j \in DOMAIN jobs /\ next \in Nat /\ q \in BOOLEAN
      BY <1>1, <1>3, <1>9, <1>10, Zenon
    <3>2. \A J \in Seq(Job) : \A i \in DOMAIN J : \A n \in Nat : \A o \in BOOLEAN :
            LET K == Moved(J, i, n, o) IN
            /\ K \in Seq(Job) /\ DOMAIN K = DOMAIN J
            /\ \A k \in DOMAIN J : k # i => K[k] = J[k]
            /\ K[i].cursor = n /\ K[i].root = J[i].root /\ K[i].max = J[i].max /\ K[i].done = o
      BY JobMoved, Zenon
    <3> QED BY <3>1, <3>2
  <2> QED BY <2>1, <2>2, Zenon
<1>12. Typed'
  BY <1>1, <1>6, <1>7, <1>8, <1>11, Zenon DEF Typed
<1>13. Stored'
  <2>1. \A m \in Messages : stage'[m] = "stored" => stage[m] = "stored" \/ \E p \in e.mail : p[1] = m
    BY <1>7, Zenon
  <2> QED BY <1>1, <1>3, <1>6, <2>1, StoredKept, Zenon
<1>14. ASSUME NEW b \in DOMAIN e.box, DueIn(rule, e, b) PROVE Covered(missed, jobs', e.box[b], b)
  <2>1. Wants(e, b)
    BY <1>14, DueIs, Zenon
  <2>2. Wants(db, b) /\ e.box[b] = db.box[b]
    BY <1>6, <2>1, Zenon DEF Onward
  <2>3. b \in DOMAIN box /\ DueIn(rule, db, b) /\ e.box[b] = box[b]
    BY <2>2, DueIs, DbIs, Zenon DEF Wants
  <2>4. Covered(missed, jobs, box[b], b)
    BY <1>1, <2>3, SettlingFacts, Zenon
  <2>5. CASE b \in missed
    BY <2>5, Zenon DEF Covered
  <2>6. CASE b \notin missed
    <3>1. PICK k \in DOMAIN jobs : /\ ~jobs[k].done /\ jobs[k].cursor < b /\ b <= jobs[k].max
                                   /\ box[b].owner <= jobs[k].root
      BY <2>4, <2>6, Zenon DEF Covered
    <3>2. CASE k # j
      BY <1>11, <2>3, <3>1, <3>2, Zenon DEF Covered
    <3>3. CASE k = j
      <4>1. b \in Ahead(j) /\ b \notin JobPage(j)
        BY <1>2, <1>6, <2>1, <2>3, <3>1, <3>3, Zenon DEF Ahead
      <4>2. S # {} /\ \A x \in S : x < b
        BY <1>1, <1>2, <4>1, PageFirst, Zenon
      <4>3. next < b
        BY <1>9, <4>2, Zenon
      <4>4. ~(next >= jobs[j].max)
        <5>1. b \in Nat /\ jobs[j].max \in Nat
          <6>1. b \in Nat
            BY <1>1, <2>3, BoxFacts, Zenon
          <6>2. jobs[j] \in Job
            BY <1>1, <1>3
          <6> QED BY <6>1, <6>2 DEF Job
        <5>2. b <= jobs[j].max
          BY <3>1, <3>3, Zenon
        <5> QED BY <1>9, <4>3, <5>1, <5>2
      <4>5. ~jobs'[j].done
        BY <1>10, <1>11, <4>4, Zenon
      <4> QED BY <1>3, <1>11, <2>3, <3>1, <3>3, <4>3, <4>5, Zenon DEF Covered
    <3> QED BY <3>2, <3>3, Zenon
  <2> QED BY <2>5, <2>6, Zenon
<1>15. Settling'
  BY <1>3, <1>7, <1>8, <1>14, Zenon DEF Settling
<1> QED BY <1>12, <1>13, <1>15, Zenon DEF IInv

-----------------------------------------------------------------------------
(* The theorems. *)

\* Nothing is due in the empty database.
LEMMA InitInv == Init => IInv
<1> SUFFICES ASSUME Init PROVE IInv
  OBVIOUS
<1>1. /\ box = <<>> /\ lastBox = 0 /\ mail = {} /\ rcpt = [m \in Messages |-> <<>>]
      /\ stage = [m \in Messages |-> "open"] /\ jobs = <<>>
  BY Zenon DEF Init
<1>2. rule \in Rules
  <2>1. rule = [r \in Roots |-> [ver |-> IF r = TopRoot /\ TopRoot > 1 THEN 0 ELSE 1,
                                 there |-> ~(r = TopRoot /\ TopRoot > 1),
                                 on |-> "on", strip |-> FALSE]]
    BY Zenon DEF Init
  <2>2. \A r \in Roots : [ver |-> IF r = TopRoot /\ TopRoot > 1 THEN 0 ELSE 1,
                          there |-> ~(r = TopRoot /\ TopRoot > 1),
                          on |-> "on", strip |-> FALSE]
             \in [ver : Nat, there : BOOLEAN, on : RuleState, strip : BOOLEAN]
    BY DEF RuleState
  <2> QED BY <2>1, <2>2, Zenon DEF Rules
<1>3. db \in Sound
  <2>1. DOMAIN box = {} /\ box \in [{} -> Mailbox]
    BY <1>1
  <2>2. box \in Boxes
    <3>1. {} \in SUBSET Nat
      BY Zenon
    <3> QED BY <2>1, <3>1, BoxesBuilt, Zenon
  <2>3. lastBox \in Nat /\ mail \in SUBSET (Messages \X Nat)
    BY <1>1
  <2>4. db \in Dbs
    BY <2>2, <2>3, DbBuilt, Zenon DEF db
  <2> QED BY <1>1, <2>1, <2>4, DbIs, Zenon DEF Sound
<1>4. rcpt \in [Messages -> Seq(Recipient)] /\ jobs \in Seq(Job)
  BY <1>1
<1>5. stage \in [Messages -> {"open", "stored", "refused"}] /\ \A m \in Messages : stage[m] # "stored"
  BY <1>1
<1>6. Typed
  BY <1>2, <1>3, <1>4, <1>5, Zenon DEF Typed
<1>7. Stored
  BY <1>5, Zenon DEF Stored
<1>8. Settling
  <2>1. DOMAIN box = {}
    BY <1>1
  <2> QED BY <2>1, Zenon DEF Settling
<1> QED BY <1>6, <1>7, <1>8, Zenon DEF IInv

\* Every step of a writer, an administrator or a job keeps the invariant.
LEMMA NextInv == IInv /\ [Next]_vars => IInv'
<1> SUFFICES ASSUME IInv, [Next]_vars PROVE IInv'
  OBVIOUS
<1>1. ASSUME NEW m \in Messages, NEW a \in Addresses, Rcpt(m, a) PROVE IInv'
  BY <1>1, RcptKeeps, Zenon
<1>2. ASSUME NEW m \in Messages, SmtpCommit(m) PROVE IInv'
  BY <1>2, SmtpCommitKeeps, Zenon
<1>3. ASSUME NEW m \in Messages, IngestCommit(m) PROVE IInv'
  BY <1>3, IngestCommitKeeps, Zenon
<1>4. ASSUME NEW m \in Messages, Replay(m) PROVE IInv'
  BY <1>4, ReplayKeeps, Zenon
<1>5. ASSUME NEW r \in Roots, NEW s \in RuleStates, NEW k \in BOOLEAN, UpdateRule(r, s, k) PROVE IInv'
  BY <1>5, UpdateRuleKeeps, Zenon
<1>6. ASSUME NEW r \in Roots, NEW s \in RuleStates, NEW k \in BOOLEAN, CreateRule(r, s, k) PROVE IInv'
  BY <1>6, CreateRuleKeeps, Zenon
<1>7. ASSUME NEW r \in Roots, DeleteRule(r) PROVE IInv'
  BY <1>7, DeleteRuleKeeps, Zenon
<1>8. ASSUME NEW s \in {"on", "off"}, CatchAll(s) PROVE IInv'
  BY <1>8, CatchAllKeeps, Zenon
<1>9. ASSUME NEW j, RehomePage(j) PROVE IInv'
  BY <1>9, RehomePageKeeps, Zenon
<1>10. CASE UNCHANGED vars
  <2>1. /\ rule' = rule /\ box' = box /\ lastBox' = lastBox /\ mail' = mail /\ rcpt' = rcpt
        /\ stage' = stage /\ jobs' = jobs /\ missed' = missed
    BY <1>10 DEF vars
  <2>2. db' = db
    BY <2>1, Zenon DEF db
  <2> QED BY <2>1, <2>2, Zenon DEF IInv, Typed, Stored, Settling
<1> QED BY <1>1, <1>2, <1>3, <1>4, <1>5, <1>6, <1>7, <1>8, <1>9, <1>10, Zenon DEF Next

\* The inductive invariant: the database is sound, every stored message has a
\* delivery, and every mailbox with mail that is due lies ahead of a job.
THEOREM RoutingInvariant == Spec => []IInv
BY InitInv, NextInv, PTL DEF Spec

\* No promotion, merge or insert of the three writers and of the rehome jobs gives
\* two mailboxes one canonical address, so the UNIQUE column aborts no transaction.
THEOREM AddressesUniqueAlways == Spec => []AddressesUnique
<1>1. IInv => AddressesUnique
  <2> SUFFICES ASSUME IInv PROVE AddressesUnique
    OBVIOUS
  <2>1. db \in Sound
    BY TypedFacts, Zenon DEF IInv
  <2> QED BY <2>1, SoundFacts, DbIs, Zenon DEF AddressesUnique
<1> QED BY <1>1, RoutingInvariant, PTL

\* Whatever is merged, a stored message keeps a delivery and every delivery its
\* mailbox.
THEOREM MailKeptAlways == Spec => []MailKept
<1>1. IInv => MailKept
  <2> SUFFICES ASSUME IInv PROVE MailKept
    OBVIOUS
  <2>1. db \in Sound /\ Stored
    BY TypedFacts, Zenon DEF IInv
  <2>2. \A p \in mail : p[2] \in DOMAIN box
    BY <2>1, SoundFacts, DbIs, Zenon
  <2> QED BY <2>1, <2>2, Zenon DEF MailKept, Stored
<1> QED BY <1>1, RoutingInvariant, PTL

\* When every rehome job has run, the mailboxes that hold mail belong to the rules
\* that decide, but for the two kinds no job looks at: the rematch of the writers
\* and the frontiers of the jobs leave no mailbox between them.
THEOREM MailSettledAlways == Spec => []MailSettled
<1>1. IInv => MailSettled
  <2> SUFFICES ASSUME IInv, \A j \in DOMAIN jobs : jobs[j].done, NEW p \in mail
               PROVE  p[2] \in missed \/ ~Due(p[2])
    BY Zenon DEF MailSettled
  <2>1. PICK b : b = p[2]
    BY Zenon
  <2>2. b \in DOMAIN box /\ Settling
    BY <2>1, TypedFacts, SoundFacts, DbIs, Zenon DEF IInv
  <2>3. CASE Due(b)
    <3>1. NeedsPromotion(box[b], MatchIn(rule, box[b].addr))
      BY <2>3, MatchIs, Zenon DEF Due
    <3>2. DueIn(rule, db, b)
      BY <2>1, <2>2, <3>1, DbIs, Zenon DEF DueIn
    <3>3. Covered(missed, jobs, box[b], b)
      BY <2>2, <3>2, SettlingFacts, Zenon
    <3> QED BY <2>1, <3>3, Zenon DEF Covered
  <2> QED BY <2>1, <2>3, Zenon
<1> QED BY <1>1, RoutingInvariant, PTL
=============================================================================
