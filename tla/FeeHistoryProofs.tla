-------------------------- MODULE FeeHistoryProofs --------------------------
(***************************************************************************)
(* Proofs about the fees the contract pays: for every length of a term,    *)
(* every limit and every change of it, and every number of wallets.        *)
(***************************************************************************)
EXTENDS FeeHistory, StableCoinProofs

-----------------------------------------------------------------------------
(* Counting the sponsored transfers of one account.                        *)

\* The count is a number, and of a later block on it is no higher.
LEMMA SinceLater ==
    ASSUME NEW g \in Seq(Nat), NEW b \in Int, NEW c \in Int, b <= c
    PROVE  Since(g, b) \in Nat /\ Since(g, c) <= Since(g, b)
<1> DEFINE I(x) == {i \in DOMAIN g : g[i] >= x}
<1>1. Len(g) \in Nat /\ DOMAIN g = 1..Len(g) /\ \A i \in DOMAIN g : g[i] \in Nat
  BY LenProperties, ElementOfSeq
<1>2. IsFiniteSet(DOMAIN g)
  BY <1>1, FS_Interval
<1>3. IsFiniteSet(I(b)) /\ I(c) \subseteq I(b)
  <2>1. IsFiniteSet(I(b))
    BY <1>2, FS_Subset
  <2>2. \A i \in DOMAIN g : g[i] >= c => g[i] >= b
    BY <1>1
  <2> QED
    BY <2>1, <2>2
<1> HIDE DEF I
<1>4. Cardinality(I(b)) \in Nat /\ Cardinality(I(c)) <= Cardinality(I(b))
  BY <1>3, FS_CardinalityType, FS_Subset
<1> QED
  BY <1>4, Zenon DEF Since, I

\* One more transfer counts from its own block on.
LEMMA SinceAppend ==
    ASSUME NEW g \in Seq(Nat), NEW h \in Nat, NEW b \in Int
    PROVE  /\ Append(g, h) \in Seq(Nat)
           /\ Since(Append(g, h), b) =
                 IF h >= b THEN Since(g, b) + 1 ELSE Since(g, b)
<1> DEFINE n == Len(g)
           new == Append(g, h)
           I == {i \in DOMAIN g : g[i] >= b}
           J == {i \in DOMAIN new : new[i] >= b}
<1>1. /\ new \in Seq(Nat) /\ Len(new) = n + 1
      /\ \A i \in 1..n : new[i] = g[i]
      /\ new[n + 1] = h
  BY AppendProperties
<1>2. n \in Nat /\ DOMAIN g = 1..n /\ DOMAIN new = 1..(n + 1)
  BY <1>1, LenProperties
<1> HIDE DEF n, new
<1>3. IsFiniteSet(I) /\ n + 1 \notin I
  <2>1. IsFiniteSet(DOMAIN g)
    BY <1>2, FS_Interval
  <2> QED
    BY <1>2, <2>1, FS_Subset
<1>4. \A i \in 1..(n + 1) : i \in 1..n \/ i = n + 1
  BY <1>2
<1>5. \A i \in 1..n : i \in 1..(n + 1)
  BY <1>2
<1>6. n + 1 \in 1..(n + 1)
  BY <1>2
<1>7. J = IF h >= b THEN I \cup {n + 1} ELSE I
  <2>1. CASE h >= b
    BY <1>1, <1>2, <1>4, <1>5, <1>6, <2>1
  <2>2. CASE ~(h >= b)
    BY <1>1, <1>2, <1>4, <1>5, <1>6, <2>2
  <2> QED
    BY <2>1, <2>2
<1> HIDE DEF I, J
<1>8. Cardinality(J) = IF h >= b THEN Cardinality(I) + 1 ELSE Cardinality(I)
  BY <1>3, <1>7, FS_AddElement
<1> QED
  BY <1>1, <1>8 DEF Since, I, J, new

\* Nothing counts if all is earlier.
LEMMA SinceNone ==
    ASSUME NEW g \in Seq(Nat), NEW b \in Int, \A i \in DOMAIN g : g[i] < b
    PROVE  Since(g, b) = 0
<1>1. \A i \in DOMAIN g : g[i] \in Nat
  BY LenProperties, ElementOfSeq
<1>2. {i \in DOMAIN g : g[i] >= b} = {}
  BY <1>1
<1> QED
  BY <1>2, FS_EmptySet DEF Since

\* The higher of two numbers.
LEMMA MaxOfTwo ==
    ASSUME NEW x \in Int, NEW y \in Int
    PROVE  Max({x, y}) = IF x >= y THEN x ELSE y
<1> DEFINE m == IF x >= y THEN x ELSE y
<1>1. m \in {x, y} /\ \A z \in {x, y} : m >= z
  OBVIOUS
<1>2. \A k \in {x, y} : (\A z \in {x, y} : k >= z) => k = m
  OBVIOUS
<1> HIDE DEF m
<1>3. Max({x, y}) = m
  BY <1>1, <1>2 DEF Max
<1> QED
  BY <1>3 DEF m

-----------------------------------------------------------------------------
(* The entry of one account and its history agree.                         *)

\* e is the entry, g the sponsored transfers, m the highest limit, or 1.
\* All of them lie before the end of the term that e holds, and those of
\* the term's length before it began are within the limit on their own.
Books(e, g, m, h) ==
    /\ g \in Seq(Nat)
    /\ e.start = Null => e = NoEntry /\ g = <<>>
    /\ e.start # Null =>
          /\ e.start <= h
          /\ \A i \in DOMAIN g : g[i] < e.start + TERM_LENGTH
          /\ TxnCount(e) - Since(g, e.start) \in {0, 1}
          /\ Since(g, e.start) <= m
          /\ Since(g, e.start - TERM_LENGTH + 1) <= Since(g, e.start) + m

\* The parts of an entry.
LEMMA EntryParts ==
    ASSUME NEW e \in Entry
    PROVE  /\ e = [start |-> e.start, count |-> e.count]
           /\ e.start # Null => e.start \in Nat
           /\ TxnCount(e) \in Nat
BY DEF Entry, TxnCount

\* Books of an account without transfers whose term has just begun.
LEMMA BooksOpened ==
    ASSUME NEW h \in Nat, NEW m \in Nat, NEW count \in {0, 1, Null}
    PROVE  Books([start |-> h, count |-> count], <<>>, m, h)
<1>1. h # Null
  BY FeeSharingAssumption
<1>2. /\ Since(<<>>, h) = 0
      /\ Since(<<>>, h - TERM_LENGTH + 1) = 0
  <2>1. <<>> \in Seq(Nat) /\ DOMAIN <<>> = {}
    OBVIOUS
  <2>2. h \in Int /\ h - TERM_LENGTH + 1 \in Int
    BY FeeSharingAssumption
  <2> QED
    BY <2>1, <2>2, SinceNone
<1>3. TxnCount([start |-> h, count |-> count]) \in {0, 1}
  BY DEF TxnCount
<1> QED
  BY <1>1, <1>2, <1>3 DEF Books

\* A mint opens the books of an account it enrols, and counts for one.
LEMMA BooksMint ==
    ASSUME NEW e \in Entry, NEW g, NEW m \in Nat, NEW h \in Nat,
           Books(e, g, m, h)
    PROVE  Books(AfterMint(e, h), g, m, h)
<1>1. CASE e.start = Null
  <2>1. g = <<>> /\ AfterMint(e, h) = [start |-> h, count |-> 1]
    BY <1>1 DEF Books, AfterMint, IsWhitelisted
  <2> QED
    BY <2>1, BooksOpened
<1>2. CASE e.start # Null
  BY <1>2 DEF AfterMint, IsWhitelisted
<1> QED
  BY <1>1, <1>2

\* A transfer within the term that is paid for.
LEMMA BooksPaid ==
    ASSUME NEW e \in Entry, NEW g, NEW m \in Nat, NEW h \in Nat,
           Books(e, g, m, h), e.start # Null,
           e.start + TERM_LENGTH > h, TxnCount(e) < m
    PROVE  Books([e EXCEPT !.count = TxnCount(e) + 1], Append(g, h), m, h)
<1> DEFINE new == [e EXCEPT !.count = TxnCount(e) + 1]
           list == Append(g, h)
           s == e.start
           t == e.start - TERM_LENGTH + 1
<1>1. s \in Nat /\ TxnCount(e) \in Nat /\ TERM_LENGTH \in Nat \ {0}
  BY EntryParts, FeeSharingAssumption
<1>2. new.start = s /\ TxnCount(new) = TxnCount(e) + 1
  <2>1. new.start = s /\ new.count = TxnCount(e) + 1
    BY DEF Entry
  <2>2. TxnCount(e) + 1 # Null
    BY <1>1, FeeSharingAssumption
  <2> QED
    BY <2>1, <2>2 DEF TxnCount
<1>3. /\ g \in Seq(Nat) /\ s <= h
      /\ \A i \in DOMAIN g : g[i] < s + TERM_LENGTH
      /\ TxnCount(e) - Since(g, s) \in {0, 1}
      /\ Since(g, s) <= m
      /\ Since(g, t) <= Since(g, s) + m
  BY DEF Books
<1> HIDE DEF new
<1>4. s \in Int /\ t \in Int /\ t <= s
  BY <1>1
<1>5. Since(g, s) \in Nat /\ Since(g, t) \in Nat
  BY <1>3, <1>4, SinceLater
<1>6. h >= s /\ h >= t
  BY <1>1, <1>3
<1> HIDE DEF t
<1>7. /\ list \in Seq(Nat)
      /\ Since(list, s) = Since(g, s) + 1
      /\ Since(list, t) = Since(g, t) + 1
  <2>1. /\ list \in Seq(Nat)
        /\ Since(list, s) = IF h >= s THEN Since(g, s) + 1 ELSE Since(g, s)
    BY <1>3, <1>4, SinceAppend
  <2>2. Since(list, t) = IF h >= t THEN Since(g, t) + 1 ELSE Since(g, t)
    BY <1>3, <1>4, SinceAppend
  <2> QED
    BY <1>6, <2>1, <2>2
<1>8. \A i \in DOMAIN list : list[i] < s + TERM_LENGTH
  <2>1. /\ Len(list) = Len(g) + 1
        /\ \A i \in 1..Len(g) : list[i] = g[i]
        /\ list[Len(g) + 1] = h
        /\ DOMAIN list = 1..(Len(g) + 1) /\ DOMAIN g = 1..Len(g)
        /\ Len(g) \in Nat
    BY <1>3, AppendProperties, LenProperties
  <2>2. \A i \in 1..(Len(g) + 1) : i \in 1..Len(g) \/ i = Len(g) + 1
    BY <2>1
  <2>3. h < s + TERM_LENGTH
    BY <1>1
  <2> HIDE DEF list
  <2> QED
    BY <1>3, <2>1, <2>2, <2>3
<1> HIDE DEF list
<1>9. TxnCount(new) - Since(list, s) \in {0, 1}
  BY <1>1, <1>2, <1>3, <1>5, <1>7
<1>10. Since(list, s) <= m
  <2>1. Since(g, s) <= TxnCount(e)
    BY <1>1, <1>3, <1>5
  <2> QED
    BY <1>1, <1>5, <1>7, <2>1
<1>11. Since(list, t) <= Since(list, s) + m
  BY <1>3, <1>5, <1>7
<1> HIDE DEF s
<1>12. new.start = s /\ new.start - TERM_LENGTH + 1 = t
  BY <1>2 DEF t, s
<1>13. s # Null /\ s <= h
  BY <1>3 DEF s
<1> QED
  BY <1>7, <1>8, <1>9, <1>10, <1>11, <1>12, <1>13 DEF Books, new, list

\* A transfer that begins a new term, which is always paid for: what the
\* old term paid is all that lies within a term's length before it.
LEMMA BooksRenewed ==
    ASSUME NEW e \in Entry, NEW g, NEW m \in Nat \ {0}, NEW h \in Nat,
           Books(e, g, m, h), e.start # Null, ~(e.start + TERM_LENGTH > h)
    PROVE  Books([start |-> h, count |-> 1], Append(g, h), m, h)
<1> DEFINE list == Append(g, h)
           s == e.start
           t == h - TERM_LENGTH + 1
<1>1. s \in Nat /\ TERM_LENGTH \in Nat \ {0}
  BY EntryParts, FeeSharingAssumption
<1>2. /\ g \in Seq(Nat)
      /\ \A i \in DOMAIN g : g[i] < s + TERM_LENGTH
      /\ Since(g, s) <= m
  BY DEF Books
<1>3. s \in Int /\ t \in Int /\ s <= t /\ t <= h /\ h \in Int
  BY <1>1
<1>4. \A i \in DOMAIN g : g[i] \in Nat
  BY <1>2, LenProperties, ElementOfSeq
<1>5. \A i \in DOMAIN g : g[i] < h
  BY <1>1, <1>2, <1>4
<1>6. /\ Since(g, h) = 0
      /\ Since(g, s) \in Nat /\ Since(g, t) \in Nat /\ Since(g, t) <= Since(g, s)
  <2>1. Since(g, h) = 0
    BY <1>2, <1>3, <1>5, SinceNone
  <2>2. Since(g, s) \in Nat /\ Since(g, t) <= Since(g, s)
    BY <1>2, <1>3, SinceLater
  <2>3. Since(g, t) \in Nat
    BY <1>2, <1>3, SinceLater
  <2> QED
    BY <2>1, <2>2, <2>3
<1>7. /\ list \in Seq(Nat)
      /\ Since(list, h) = 1
      /\ Since(list, t) = Since(g, t) + 1
  <2>1. /\ list \in Seq(Nat)
        /\ Since(list, h) = IF h >= h THEN Since(g, h) + 1 ELSE Since(g, h)
    BY <1>2, <1>3, SinceAppend
  <2>2. Since(list, t) = IF h >= t THEN Since(g, t) + 1 ELSE Since(g, t)
    BY <1>2, <1>3, SinceAppend
  <2> HIDE DEF t
  <2> QED
    BY <1>3, <1>6, <2>1, <2>2
<1>8. \A i \in DOMAIN list : list[i] < h + TERM_LENGTH
  <2>1. /\ \A i \in 1..Len(g) : list[i] = g[i]
        /\ list[Len(g) + 1] = h
        /\ DOMAIN list = 1..(Len(g) + 1) /\ DOMAIN g = 1..Len(g)
        /\ Len(g) \in Nat
    BY <1>2, AppendProperties, LenProperties
  <2>2. \A i \in 1..(Len(g) + 1) : i \in 1..Len(g) \/ i = Len(g) + 1
    BY <2>1
  <2>3. h < h + TERM_LENGTH
    BY <1>1
  <2>4. \A i \in DOMAIN g : g[i] < h + TERM_LENGTH
    BY <1>1, <1>4, <1>5
  <2> HIDE DEF list
  <2> QED
    BY <2>1, <2>2, <2>3, <2>4
<1> HIDE DEF list
<1>9. Since(list, t) <= Since(list, h) + m
  <2> HIDE DEF t, s
  <2> QED
    BY <1>2, <1>6, <1>7
<1>10. Since(list, h) <= m
  BY <1>7
<1>11. TxnCount([start |-> h, count |-> 1]) = 1
  BY FeeSharingAssumption DEF TxnCount
<1>12. TxnCount([start |-> h, count |-> 1]) - Since(list, h) \in {0, 1}
  BY <1>7, <1>11
<1>13. h # Null /\ h <= h
  BY FeeSharingAssumption
<1> QED
  BY <1>7, <1>8, <1>9, <1>10, <1>12, <1>13 DEF Books, list

\* A transfer keeps the books of its caller.
LEMMA BooksTransfer ==
    ASSUME NEW e \in Entry, NEW g, NEW m \in Nat \ {0}, NEW h \in Nat,
           NEW limit \in Nat, limit <= m, Books(e, g, m, h)
    PROVE  Books(AfterTransfer(e, limit, h),
                 IF Sponsored(e, limit, h) THEN Append(g, h) ELSE g, m, h)
<1>1. ASSUME NEW o \in Entry, o = Opened(e, h), Books(o, g, m, h), o.start # Null
      PROVE  Books(AfterTransfer(e, limit, h),
                   IF Sponsored(e, limit, h) THEN Append(g, h) ELSE g, m, h)
  <2>1. CASE InTerm(o, h) /\ HasFree(o, limit)
    <3>1. /\ AfterTransfer(e, limit, h) = [o EXCEPT !.count = TxnCount(o) + 1]
          /\ Sponsored(e, limit, h)
      BY <1>1, <2>1 DEF AfterTransfer, Sponsored
    <3>2. o.start + TERM_LENGTH > h /\ TxnCount(o) < m
      BY <2>1, EntryParts DEF InTerm, HasFree
    <3>3. Books([o EXCEPT !.count = TxnCount(o) + 1], Append(g, h), m, h)
      BY <1>1, <3>2, BooksPaid
    <3> QED
      BY <3>1, <3>3
  <2>2. CASE InTerm(o, h) /\ ~HasFree(o, limit)
    <3>1. AfterTransfer(e, limit, h) = o /\ ~Sponsored(e, limit, h)
      BY <1>1, <2>2 DEF AfterTransfer, Sponsored
    <3> QED
      BY <1>1, <3>1
  <2>3. CASE ~InTerm(o, h)
    <3>1. /\ AfterTransfer(e, limit, h) = [start |-> h, count |-> 1]
          /\ Sponsored(e, limit, h)
      BY <1>1, <2>3 DEF AfterTransfer, Sponsored
    <3>2. Books([start |-> h, count |-> 1], Append(g, h), m, h)
      BY <1>1, <2>3, BooksRenewed DEF InTerm
    <3> QED
      BY <3>1, <3>2
  <2> QED
    BY <2>1, <2>2, <2>3
<1>2. CASE e.start = Null
  <2>1. e = NoEntry /\ g = <<>>
    BY <1>2 DEF Books
  <2>2. Opened(e, h) = [start |-> h, count |-> Null]
    BY <2>1 DEF Opened, IsWhitelisted, NoEntry
  <2>3. [start |-> h, count |-> Null] \in Entry
    BY DEF Entry
  <2>4. Books([start |-> h, count |-> Null], g, m, h)
    BY <2>1, BooksOpened
  <2>5. h # Null
    BY FeeSharingAssumption
  <2> QED
    BY <1>1, <2>2, <2>3, <2>4, <2>5
<1>3. CASE e.start # Null
  BY <1>1, <1>3 DEF Opened, IsWhitelisted
<1> QED
  BY <1>2, <1>3

\* Time and a higher limit keep all books.
LEMMA BooksLater ==
    ASSUME NEW e \in Entry, NEW g, NEW m \in Nat, NEW h \in Nat,
           NEW n \in Nat, m <= n, NEW k \in Nat, h <= k, Books(e, g, m, h)
    PROVE  Books(e, g, n, k)
<1>1. CASE e.start = Null
  BY <1>1 DEF Books
<1>2. CASE e.start # Null
  <2> DEFINE s == e.start
             t == e.start - TERM_LENGTH + 1
  <2>1. s \in Nat
    BY <1>2, EntryParts
  <2>2. s \in Int /\ t \in Int /\ t <= s
    BY <2>1, FeeSharingAssumption
  <2>3. g \in Seq(Nat) /\ s <= h /\ Since(g, s) <= m
        /\ Since(g, t) <= Since(g, s) + m
    BY <1>2 DEF Books
  <2>4. Since(g, s) \in Nat /\ Since(g, t) \in Nat
    BY <2>2, <2>3, SinceLater
  <2> HIDE DEF t
  <2>5. s <= k /\ Since(g, s) <= n /\ Since(g, t) <= Since(g, s) + n
    BY <2>1, <2>3, <2>4
  <2> QED
    BY <1>2, <2>5 DEF Books, t
<1> QED
  BY <1>1, <1>2

-----------------------------------------------------------------------------
(* The inductive invariant.                                                *)

Ceiling == Max({1, peak})

\* The contract is sound, and the books of every account are in order.
FInv ==
    /\ IInv
    /\ peak \in Nat
    /\ db.freeDailyTxLimit <= peak
    /\ granted \in [Address -> Seq(Nat)]
    /\ \A a \in Address :
          Books(db.whitelist[a], granted[a], Ceiling, blockHeight)

\* Nothing is in progress between wallets, which alone make calls.
LEMMA NoFrames ==
    ASSUME IInv
    PROVE  frames = <<>> /\ Callers = Users
<1>1. ASSUME frames # <<>>
      PROVE  FALSE
  <2>1. frames[Len(frames)] \in Frame
    BY <1>1, SoundPop DEF IInv
  <2> QED
    BY <2>1, FeeHistoryAssumption DEF Frame
<1> QED
  BY <1>1 DEF Callers

\* The ceiling is at least one and at least the limit, and never sinks.
LEMMA CeilingIsHigh ==
    ASSUME NEW p \in Nat, NEW x \in Nat
    PROVE  /\ Max({1, p}) \in Nat \ {0} /\ p <= Max({1, p})
           /\ Max({p, x}) \in Nat /\ x <= Max({p, x})
           /\ Max({1, p}) <= Max({1, Max({p, x})})
<1>1. /\ Max({1, p}) = (IF 1 >= p THEN 1 ELSE p)
      /\ Max({p, x}) = (IF p >= x THEN p ELSE x)
  BY MaxOfTwo
<1>2. Max({p, x}) \in Nat /\ x <= Max({p, x}) /\ p <= Max({p, x})
  BY <1>1
<1> DEFINE q == Max({p, x})
<1> HIDE DEF q
<1>3. q \in Nat /\ p <= q
  BY <1>2 DEF q
<1>4. Max({1, q}) = (IF 1 >= q THEN 1 ELSE q)
  BY <1>3, MaxOfTwo
<1>5. Max({1, p}) <= Max({1, q})
  BY <1>1, <1>3, <1>4
<1> QED
  BY <1>1, <1>2, <1>5 DEF q

\* What the invariant says of the numbers and the entries.
LEMMA FeeParts ==
    ASSUME FInv
    PROVE  /\ blockHeight \in Nat /\ db.freeDailyTxLimit \in Nat
           /\ db.whitelist \in [Address -> Entry]
           /\ db \in Storage
           /\ Ceiling \in Nat \ {0} /\ db.freeDailyTxLimit <= Ceiling
<1>1. /\ blockHeight \in Nat /\ db.freeDailyTxLimit \in Nat
      /\ db.whitelist \in [Address -> Entry] /\ db \in Storage
  BY StateParts DEF FInv, IInv
<1>2. peak \in Nat /\ db.freeDailyTxLimit <= peak
  BY DEF FInv
<1>3. Ceiling \in Nat \ {0} /\ peak <= Ceiling
  BY <1>2, CeilingIsHigh DEF Ceiling
<1>4. db.freeDailyTxLimit <= Ceiling
  BY <1>1, <1>2, <1>3
<1> QED
  BY <1>1, <1>3, <1>4

LEMMA FeeInitHolds ==
    ASSUME FeeInit
    PROVE  FInv
<1>1. IInv /\ peak = 0 /\ db.freeDailyTxLimit = 0
  BY InitSound DEF FeeInit, Init
<1>2. granted \in [Address -> Seq(Nat)]
  BY DEF FeeInit
<1>3. ASSUME NEW a \in Address
      PROVE  Books(db.whitelist[a], granted[a], Ceiling, blockHeight)
  <2>1. db.whitelist[a] = NoEntry /\ granted[a] = <<>>
    BY DEF FeeInit, Init
  <2>2. NoEntry.start = Null
    BY DEF NoEntry
  <2> QED
    BY <2>1, <2>2 DEF Books
<1> QED
  BY <1>1, <1>2, <1>3 DEF FInv

\* A transfer enters one grant at most, into the books of its caller.
LEMMA FeeTransferHolds ==
    ASSUME FInv, NEW c \in Callers, NEW to \in Address, NEW v \in Amounts,
           FeeTransfer(c, to, v)
    PROVE  /\ granted' \in [Address -> Seq(Nat)]
           /\ \A a \in Address :
                 Books(db'.whitelist[a], granted'[a], Ceiling, blockHeight)
<1> DEFINE e == db.whitelist[c]
           list == IF IsSponsored(c) THEN Append(granted[c], blockHeight)
                                     ELSE granted[c]
<1>1. c \in Address /\ granted \in [Address -> Seq(Nat)]
  BY CallersAreAccounts DEF FInv
<1>2. e \in Entry /\ Books(e, granted[c], Ceiling, blockHeight)
  BY <1>1, FeeParts DEF FInv
<1>3. Books(AfterTransfer(e, db.freeDailyTxLimit, blockHeight), list,
            Ceiling, blockHeight)
  BY <1>2, FeeParts, BooksTransfer DEF IsSponsored
<1>4. db'.whitelist = [db.whitelist EXCEPT ![c] =
                          AfterTransfer(e, db.freeDailyTxLimit, blockHeight)]
  BY FeeParts DEF FeeTransfer, Transfer, Transferred, Storage
<1>5. granted' = [granted EXCEPT ![c] = list]
  <2>1. granted = [granted EXCEPT ![c] = granted[c]]
    BY <1>1
  <2> QED
    BY <2>1 DEF FeeTransfer
<1>6. list \in Seq(Nat)
  BY <1>3 DEF Books
<1> HIDE DEF list
<1>7. granted' \in [Address -> Seq(Nat)]
  BY <1>1, <1>5, <1>6
<1>8. ASSUME NEW a \in Address
      PROVE  Books(db'.whitelist[a], granted'[a], Ceiling, blockHeight)
  <2>1. CASE a = c
    <3>1. /\ db'.whitelist[a] =
                AfterTransfer(e, db.freeDailyTxLimit, blockHeight)
          /\ granted'[a] = list
      BY <1>1, <1>4, <1>5, <2>1, FeeParts
    <3> QED
      BY <1>3, <3>1
  <2>2. CASE a # c
    <3>1. db'.whitelist[a] = db.whitelist[a] /\ granted'[a] = granted[a]
      BY <1>1, <1>4, <1>5, <2>2, FeeParts
    <3> QED
      BY <3>1 DEF FInv
  <2> QED
    BY <2>1, <2>2
<1> QED
  BY <1>7, <1>8

\* Of the other steps only a mint touches an entry, its receiver's.
LEMMA OtherStepsHold ==
    ASSUME FInv, OtherSteps, UNCHANGED granted
    PROVE  \A a \in Address :
               Books(db'.whitelist[a], granted'[a], Ceiling, blockHeight)
<1>1. ASSUME db'.whitelist = db.whitelist
      PROVE  \A a \in Address :
                 Books(db'.whitelist[a], granted'[a], Ceiling, blockHeight)
  BY <1>1 DEF FInv
<1>2. ASSUME NEW c \in Callers, NEW to \in Address, NEW v \in Amounts,
             Mint(c, to, v), NEW a \in Address
      PROVE  Books(db'.whitelist[a], granted'[a], Ceiling, blockHeight)
  <2>1. db.whitelist[to] \in Entry /\ Ceiling \in Nat /\ blockHeight \in Nat
    BY FeeParts
  <2>2. Books(AfterMint(db.whitelist[to], blockHeight), granted[to],
              Ceiling, blockHeight)
    BY <2>1, BooksMint DEF FInv
  <2>3. db'.whitelist = [db.whitelist EXCEPT ![to] =
                            AfterMint(db.whitelist[to], blockHeight)]
    BY <1>2, FeeParts DEF Mint, Minted, Storage
  <2>4. CASE a = to
    <3>1. db'.whitelist[a] = AfterMint(db.whitelist[to], blockHeight)
      BY <2>3, <2>4, FeeParts
    <3> QED
      BY <2>2, <2>4, <3>1
  <2>5. CASE a # to
    <3>1. db'.whitelist[a] = db.whitelist[a]
      BY <2>3, <2>5, FeeParts
    <3> QED
      BY <3>1 DEF FInv
  <2> QED
    BY <2>4, <2>5
<1>3. ASSUME NEW n \in IssuerCaps, NEW a \in Admins, Constructor(n, a)
      PROVE  db'.whitelist = db.whitelist
  BY <1>3, FeeParts DEF Constructor, Storage
<1>4. ASSUME NEW c \in Callers, OtherCall(c),
             ~\E to \in Address, v \in Amounts : Mint(c, to, v)
      PROVE  db'.whitelist = db.whitelist
  <2> USE FeeParts DEF Storage
  <2>1. CASE \E code \in Contracts : CallContract(c, code)
    BY <2>1 DEF CallContract
  <2>2. CASE \E v \in Amounts : Burn(c, v)
    BY <2>2 DEF Burn
  <2>3. CASE \E a \in Address : AddIssuer(c, a)
    BY <2>3 DEF AddIssuer
  <2>4. CASE \E a \in Address : RemoveIssuer(c, a)
    BY <2>4 DEF RemoveIssuer
  <2>5. CASE \E a \in Address, v \in Amounts : Approve(c, a, v)
    BY <2>5 DEF Approve
  <2>6. CASE \E a \in Admins : TransferAdminRight(c, a)
    BY <2>6 DEF TransferAdminRight
  <2>7. CASE TogglePause(c)
    BY <2>7 DEF TogglePause
  <2>8. CASE \E n \in Limits : ChangeFreeDailyTxLimit(c, n)
    BY <2>8 DEF ChangeFreeDailyTxLimit
  <2> QED
    BY <1>4, <2>1, <2>2, <2>3, <2>4, <2>5, <2>6, <2>7, <2>8, Zenon
       DEF OtherCall
<1>5. CASE Return \/ Revert
  BY <1>5, NoFrames DEF FInv, Return, Revert
<1>6. CASE NewBlock
  BY <1>1, <1>6 DEF NewBlock
<1>7. CASE \E c \in Callers : OtherCall(c)
  <2>1. PICK c \in Callers : OtherCall(c)
    BY <1>7
  <2>2. CASE \E to \in Address, v \in Amounts : Mint(c, to, v)
    BY <1>2, <2>2
  <2>3. CASE ~\E to \in Address, v \in Amounts : Mint(c, to, v)
    BY <1>1, <1>4, <2>1, <2>3
  <2> QED
    BY <2>2, <2>3
<1>8. CASE \E n \in IssuerCaps, a \in Admins : Constructor(n, a)
  BY <1>1, <1>3, <1>8
<1> QED
  BY <1>5, <1>6, <1>7, <1>8, Zenon DEF OtherSteps

\* No step turns the time back.
LEMMA TimeAdvances ==
    ASSUME FInv, Next
    PROVE  blockHeight <= blockHeight'
<1>1. blockHeight \in Nat
  BY FeeParts
<1>2. CASE NewBlock
  BY <1>1, <1>2 DEF NewBlock
<1>3. CASE ~NewBlock
  <2>1. blockHeight' = blockHeight
    BY <1>3 DEF Next, Transfers, OtherSteps, OtherCall, Transfer, Constructor,
                Return, Revert, CallContract, Mint, Burn, AddIssuer,
                RemoveIssuer, Approve, TransferAdminRight, TogglePause,
                ChangeFreeDailyTxLimit
  <2> QED
    BY <1>1, <2>1
<1> QED
  BY <1>2, <1>3

LEMMA FeeNextHolds ==
    ASSUME FInv, [FeeNext]_feeVars
    PROVE  FInv'
<1>1. CASE FeeNext
  <2>1. Next
    BY <1>1 DEF FeeNext, FeeTransfer, Next, Transfers
  <2>2. IInv'
    BY <2>1, NextSound DEF FInv
  <2>3. blockHeight \in Nat /\ blockHeight' \in Nat /\ blockHeight <= blockHeight'
    BY <2>1, <2>2, FeeParts, TimeAdvances DEF IInv
  <2>4. /\ granted' \in [Address -> Seq(Nat)]
        /\ \A a \in Address :
              Books(db'.whitelist[a], granted'[a], Ceiling, blockHeight)
    <3>1. CASE \E c \in Callers, to \in Address, v \in Amounts :
                  FeeTransfer(c, to, v)
      BY <3>1, FeeTransferHolds
    <3>2. CASE OtherSteps /\ UNCHANGED granted
      BY <3>2, OtherStepsHold DEF FInv
    <3> QED
      BY <1>1, <3>1, <3>2 DEF FeeNext
  <2>5. peak' = Max({peak, db'.freeDailyTxLimit}) /\ peak \in Nat
    BY <1>1 DEF FeeNext, FInv
  <2>6. db' \in Storage
    BY <2>2 DEF IInv, Sound, Now, Snapshot
  <2>7. db'.freeDailyTxLimit \in Nat /\ db'.whitelist \in [Address -> Entry]
    BY <2>6 DEF Storage
  <2>8. /\ peak' \in Nat /\ db'.freeDailyTxLimit <= peak'
        /\ Ceiling \in Nat /\ Ceiling <= Max({1, peak'})
    BY <2>5, <2>7, CeilingIsHigh DEF Ceiling
  <2>9. Max({1, peak'}) \in Nat
    BY <2>8, CeilingIsHigh
  <2>10. ASSUME NEW a \in Address
         PROVE  Books(db'.whitelist[a], granted'[a], Max({1, peak'}), blockHeight')
    <3>1. db'.whitelist[a] \in Entry
      BY <2>7
    <3> QED
      BY <2>3, <2>4, <2>8, <2>9, <3>1, BooksLater
  <2> QED
    BY <2>2, <2>4, <2>8, <2>10 DEF FInv, Ceiling
<1>2. CASE UNCHANGED feeVars
  <2>1. IInv'
    BY <1>2, NextSound DEF feeVars, vars, FInv
  <2> QED
    BY <1>2, <2>1 DEF feeVars, FInv, Ceiling
<1> QED
  BY <1>1, <1>2

\* The books are in order throughout.
LEMMA FeeInvariant == FeeSpec => []FInv
<1>1. FeeInit => FInv
  BY FeeInitHolds
<1>2. FInv /\ [FeeNext]_feeVars => FInv'
  BY FeeNextHolds
<1> QED
  BY <1>1, <1>2, PTL DEF FeeSpec

-----------------------------------------------------------------------------
\* The count in an account's entry is what the contract has paid for it since
\* its term began, or one more; it survives changes of the limit and stays
\* within the highest limit there was.
THEOREM CountsAreGrants == FeeSpec => []CountIsGrants
<1>1. FInv => CountIsGrants
  <2>1. ASSUME FInv, NEW a \in Address, IsWhitelisted(db.whitelist[a])
        PROVE  /\ TxnCount(db.whitelist[a]) - SinceTermBegan(a) \in {0, 1}
               /\ SinceTermBegan(a) <= Max({1, peak})
    BY <2>1 DEF FInv, Books, IsWhitelisted, SinceTermBegan, Ceiling
  <2> QED
    BY <2>1 DEF CountIsGrants
<1> QED
  BY <1>1, FeeInvariant, PTL

\* However its transfers lie, in any term's length of blocks the contract pays
\* no account more than twice the highest limit there was.
THEOREM BudgetHolds == FeeSpec => []WindowBudget
<1>1. ASSUME FInv, NEW a \in Address
      PROVE  InLastTerm(a) <= 2 * Max({1, peak})
  <2> DEFINE e == db.whitelist[a]
             g == granted[a]
             m == Ceiling
             b == blockHeight - TERM_LENGTH + 1
  <2>1. e \in Entry /\ m \in Nat \ {0} /\ blockHeight \in Nat
    BY <1>1, FeeParts
  <2>2. Books(e, g, m, blockHeight)
    BY <1>1 DEF FInv
  <2>3. b \in Int
    BY <2>1, FeeSharingAssumption
  <2>4. CASE e.start = Null
    <3>1. g = <<>>
      BY <2>2, <2>4 DEF Books
    <3>2. g \in Seq(Nat) /\ \A i \in DOMAIN g : g[i] < b
      BY <3>1
    <3> HIDE DEF g, b
    <3>3. Since(g, b) = 0
      BY <2>3, <3>2, SinceNone
    <3>4. Since(g, b) <= 2 * m
      BY <2>1, <3>3
    <3> QED
      BY <3>4 DEF InLastTerm, Ceiling, g, b
  <2>5. CASE e.start # Null
    <3> DEFINE s == e.start
               t == e.start - TERM_LENGTH + 1
    <3>1. s \in Nat
      BY <2>1, <2>5, EntryParts
    <3>2. /\ g \in Seq(Nat) /\ s <= blockHeight /\ Since(g, s) <= m
          /\ Since(g, t) <= Since(g, s) + m
      BY <2>2, <2>5 DEF Books
    <3>3. s \in Int /\ t \in Int /\ t <= b
      BY <2>1, <3>1, <3>2, FeeSharingAssumption
    <3> HIDE DEF t, b, g, m
    <3>4. Since(g, t) \in Nat /\ Since(g, b) <= Since(g, t)
      BY <2>3, <3>2, <3>3, SinceLater
    <3>5. Since(g, b) \in Nat
      BY <2>3, <3>2, SinceLater
    <3>6. Since(g, s) \in Nat
      BY <3>2, <3>3, SinceLater
    <3>7. Since(g, b) <= 2 * m
      BY <2>1, <3>2, <3>4, <3>5, <3>6
    <3> QED
      BY <3>7 DEF InLastTerm, Ceiling, g, b, m
  <2> QED
    BY <2>4, <2>5
<1>2. FInv => WindowBudget
  BY <1>1 DEF WindowBudget
<1> QED
  BY <1>2, FeeInvariant, PTL

\* With a limit of two or more, an account for which nothing was paid during
\* a term's length has its next transfer paid: only a mint takes one away.
THEOREM FreshAccountsPayNothing == FeeSpec => []FreshIsSponsored
<1>1. ASSUME FInv, NEW a \in Users, db.freeDailyTxLimit >= 2,
             InLastTerm(a) = 0
      PROVE  IsSponsored(a)
  <2> DEFINE e == db.whitelist[a]
             g == granted[a]
             b == blockHeight - TERM_LENGTH + 1
             o == Opened(e, blockHeight)
  <2>1. a \in Address
    BY DEF Users
  <2>2. e \in Entry /\ blockHeight \in Nat /\ db.freeDailyTxLimit \in Nat
    BY <1>1, <2>1, FeeParts
  <2>3. Books(e, g, Ceiling, blockHeight)
    BY <1>1, <2>1 DEF FInv
  <2>4. CASE e.start = Null
    <3>1. o = [start |-> blockHeight, count |-> Null]
      BY <2>3, <2>4 DEF Books, Opened, IsWhitelisted, NoEntry
    <3>2. TxnCount(o) = 0
      BY <3>1 DEF TxnCount
    <3>3. HasFree(o, db.freeDailyTxLimit)
      BY <1>1, <2>2, <3>2 DEF HasFree
    <3> QED
      BY <3>3 DEF IsSponsored, Sponsored
  <2>5. CASE e.start # Null
    <3>1. o = e
      BY <2>5 DEF Opened, IsWhitelisted
    <3>2. SUFFICES ASSUME InTerm(e, blockHeight)
                   PROVE  HasFree(e, db.freeDailyTxLimit)
      BY <3>1 DEF IsSponsored, Sponsored
    <3> DEFINE s == e.start
    <3>3. s \in Nat /\ TxnCount(e) \in Nat
      BY <2>2, <2>5, EntryParts
    <3>4. g \in Seq(Nat) /\ TxnCount(e) - Since(g, s) \in {0, 1}
      BY <2>3, <2>5 DEF Books
    <3>5. s \in Int /\ b \in Int /\ b <= s
      BY <2>2, <3>2, <3>3, FeeSharingAssumption DEF InTerm
    <3>6. Since(g, b) = 0
      BY <1>1 DEF InLastTerm
    <3> HIDE DEF b, g, s, e
    <3>7. Since(g, b) \in Nat /\ Since(g, s) <= Since(g, b)
      BY <3>4, <3>5, SinceLater
    <3>8. Since(g, s) \in Nat
      BY <3>4, <3>5, SinceLater
    <3>9. TxnCount(e) <= 1
      BY <3>3, <3>4, <3>6, <3>7, <3>8
    <3> QED
      BY <1>1, <2>2, <3>3, <3>9 DEF HasFree
  <2> QED
    BY <2>4, <2>5
<1>2. FInv => FreshIsSponsored
  BY <1>1 DEF FreshIsSponsored
<1> QED
  BY <1>2, FeeInvariant, PTL
=============================================================================
