---------------------- MODULE VerificationCodes_proofs ----------------------
(* How an address becomes an account's, for any number of accounts, addresses,
   requests and codes. *)
EXTENDS VerificationCodes, TLAPS

USE NamesAssumption, HomeAssumption, BoundAssumption

-----------------------------------------------------------------------------
(* The inductive invariant. *)

Job == [pc : {"free", "mail", "commit", "change", "verify"},
        who : Accounts \cup {NoOne}, code : 0 .. MaxCodes, row : Rows]

(* A pending row bears the last live code of its account, and has counted all
   the wrong answers. *)
RowOK(x) ==
    \/ pending[x] = NoRow
    \/ /\ pending[x].addr \in Addresses
       /\ pending[x].code \in 1 .. Len(codes) /\ codes[pending[x].code] = x
       /\ pending[x].code \notin void
       /\ wrong[x] = pending[x].attempts

(* What a request in progress knows still holds: the row it has locked is as
   it read it, and the code of a change is void once the row has another. *)
ReqOK(r) ==
    LET q == req[r]  x == q.who IN
    /\ q.pc = "free" => q.row.code = 0
    /\ q.pc # "free" =>
          /\ x \in Accounts /\ q.row.addr \in Addresses
          /\ q.row.code \in 1 .. Len(codes) /\ codes[q.row.code] = x
    /\ q.pc \in {"mail", "commit"} => wrong[x] = q.row.attempts /\ q.row.code \notin void
    /\ q.pc = "verify" =>
          /\ pending[x] # NoRow
          /\ pending[x].code = q.row.code /\ pending[x].addr = q.row.addr
          /\ pending[x].attempts = q.row.attempts /\ q.row.attempts < MaxAttempts
          /\ q.code = 0 \/ \E e \in Addresses : [to |-> e, code |-> q.code] \in mails
    /\ q.pc = "change" => q.code = q.row.code /\ (pending[x].code = q.code \/ q.code \in void)

Mutex == \A r, q \in Reqs : \A x \in Accounts : HoldsRow(r, x) /\ HoldsRow(q, x) => r = q

(* A code is known together with one address only. *)
Said(c, e) ==
    \/ \E x \in Accounts : pending[x].code = c /\ pending[x].addr = e
    \/ \E r \in Reqs : req[r].row.code = c /\ req[r].row.addr = e
    \/ [to |-> e, code |-> c] \in mails

OneAddress ==
    \A c \in 1 .. MaxCodes : \A e, f \in Addresses : Said(c, e) /\ Said(c, f) => e = f

(* An account without codes has answered none. *)
Unasked == \A x \in Accounts : (\A c \in 1 .. Len(codes) : codes[c] # x) => wrong[x] = 0

Live ==
    /\ \A x \in Accounts : RowOK(x)
    /\ \A r \in Reqs : ReqOK(r)
    /\ Mutex /\ OneAddress /\ Unasked /\ GuessesBounded /\ SentCodesKept

IInv == TypeOK /\ Live

-----------------------------------------------------------------------------
(* The effect of a step: a set S of accounts whose pending row, count or codes
   it changes, a set R of requests that it moves, and at most one new code. *)

Extends == Len(codes) <= Len(codes') /\ \A c \in 1 .. Len(codes) : codes'[c] = codes[c]

(* The row may expire. *)
Undisturbed(y) ==
    /\ \/ pending'[y] = pending[y]
       \/ pending[y].fresh /\ pending'[y] = [pending[y] EXCEPT !.fresh = FALSE]
    /\ wrong'[y] = wrong[y]
    /\ \A c \in void' \ void : codes[c] # y

(* Whoever waits for the pending code learns that it is no longer valid. *)
Replaced(x) ==
    \/ pending[x] = NoRow
    \/ pending'[x].code = pending[x].code
    \/ pending[x].code \in void'

Counted(x) ==
    /\ wrong'[x] <= MaxAttempts
    /\ wrong'[x] \in {0, wrong[x]} \/ Pending(x)

Touches(S, R) ==
    /\ Extends
    /\ void \subseteq void' /\ mails \subseteq mails'
    /\ \A y \in Accounts \ S : Undisturbed(y)
    /\ \A x \in S : Replaced(x) /\ RowOK(x)' /\ Counted(x)
    /\ \A q \in Reqs \ R : req'[q] = req[q] /\ \A x \in S : ~HoldsRow(q, x)
    /\ \A r \in R : ReqOK(r)'
    /\ \A c \in sent' \ (sent \cup void') : pending'[codes'[c]].code = c

(* What is known of a code after the step was known before it, or is the new
   code's one address. *)
Known(c, e, a) == c = 0 \/ Said(c, e) \/ (c = NewCode /\ e = a)

Acts(S, R, a) ==
    /\ Touches(S, R)
    /\ \A x \in S : Known(pending'[x].code, pending'[x].addr, a)
    /\ \A m \in mails' \ mails : Known(m.code, m.to, a)
    /\ \A p, q \in R : p = q
    /\ \A r \in R :
          /\ Known(req'[r].row.code, req'[r].row.addr, a)
          /\ \A x \in Accounts : HoldsRow(r, x)' => HoldsRow(r, x) \/ RowFree(x)

LEMMA Typed ==
    ASSUME TypeOK
    PROVE  /\ \A x \in Accounts : pending[x] \in Rows
           /\ \A r \in Reqs : req[r] \in Job
           /\ Len(codes) \in Nat /\ \A c \in 1 .. Len(codes) : codes[c] \in Accounts
  BY DEF TypeOK, Job

LEMMA RowStays ==
    ASSUME TypeOK, TypeOK', Extends, NEW y \in Accounts, Undisturbed(y), RowOK(y)
    PROVE  RowOK(y)'
  <1>1. pending[y] \in Rows
    BY Typed
  <1>2. NoRow.fresh = FALSE
    BY DEF NoRow
  <1>3. CASE pending[y] = NoRow
    <2>1. pending'[y] = pending[y]
      BY <1>2, <1>3 DEF Undisturbed
    <2> QED BY <1>3, <2>1 DEF RowOK
  <1>4. CASE pending[y] # NoRow
    <2>1. /\ pending'[y].addr = pending[y].addr /\ pending'[y].code = pending[y].code
          /\ pending'[y].attempts = pending[y].attempts
      BY <1>1 DEF Undisturbed, Rows
    <2>2. /\ pending[y].addr \in Addresses /\ wrong[y] = pending[y].attempts
          /\ pending[y].code \in 1 .. Len(codes) /\ codes[pending[y].code] = y
          /\ pending[y].code \notin void
      BY <1>4 DEF RowOK
    <2>3. pending[y].code \notin void'
      BY <2>2 DEF Undisturbed
    <2>4. pending[y].code \in 1 .. Len(codes') /\ codes'[pending[y].code] = y
      <3>1. Len(codes) \in Nat /\ Len(codes') \in Nat
        BY DEF TypeOK
      <3> QED BY <2>2, <3>1 DEF Extends
    <2>5. wrong'[y] = wrong[y]
      BY DEF Undisturbed
    <2> QED BY <2>1, <2>2, <2>3, <2>4, <2>5 DEF RowOK
  <1> QED BY <1>3, <1>4

(* The code of a pending row has been generated. *)
LEMMA PendingCode ==
    ASSUME IInv, NEW x \in Accounts, pending[x] # NoRow
    PROVE  /\ pending[x].code \in 1 .. Len(codes) /\ codes[pending[x].code] = x
           /\ pending[x].code \in CodesOf(x) /\ pending[x].code # 0
  BY Typed DEF IInv, Live, RowOK, CodesOf

LEMMA ReqStays ==
    ASSUME IInv, TypeOK', NEW S \in SUBSET Accounts, NEW R \in SUBSET Reqs, Touches(S, R),
           NEW r \in Reqs \ R
    PROVE  ReqOK(r)'
  <1> DEFINE q == req[r]  x == q.who
  <1>1. req'[r] = q /\ \A y \in S : ~HoldsRow(r, y)
    BY DEF Touches
  <1>2. q \in Job /\ ReqOK(r)
    BY Typed DEF IInv, Live
  <1>3. q.pc = "free" => q.row.code = 0
    BY <1>2 DEF ReqOK
  <1>4. ASSUME q.pc # "free"
        PROVE  /\ x \in Accounts /\ q.row.addr \in Addresses
               /\ q.row.code \in 1 .. Len(codes') /\ codes'[q.row.code] = x
    <2>1. /\ x \in Accounts /\ q.row.addr \in Addresses
          /\ q.row.code \in 1 .. Len(codes) /\ codes[q.row.code] = x
      BY <1>2, <1>4 DEF ReqOK
    <2>2. Len(codes) \in Nat /\ Len(codes') \in Nat /\ Extends
      BY DEF IInv, TypeOK, Touches
    <2> QED BY <2>1, <2>2 DEF Extends
  <1>5. ASSUME q.pc \in {"mail", "commit", "verify"}
        PROVE  x \in Accounts /\ Undisturbed(x)
    <2>1. x \in Accounts
      BY <1>4, <1>5
    <2> QED BY <1>1, <1>5, <2>1 DEF HoldsRow, Touches
  <1>6. ASSUME q.pc \in {"mail", "commit"}
        PROVE  wrong'[x] = q.row.attempts /\ q.row.code \notin void'
    <2>1. wrong[x] = q.row.attempts /\ q.row.code \notin void /\ codes[q.row.code] = x
      BY <1>2, <1>6 DEF ReqOK
    <2> QED BY <1>5, <1>6, <2>1 DEF Undisturbed
  <1>7. ASSUME q.pc = "verify"
        PROVE  /\ pending'[x] # NoRow
               /\ pending'[x].code = q.row.code /\ pending'[x].addr = q.row.addr
               /\ pending'[x].attempts = q.row.attempts /\ q.row.attempts < MaxAttempts
               /\ q.code = 0 \/ \E e \in Addresses : [to |-> e, code |-> q.code] \in mails'
    <2>1. /\ pending[x] # NoRow
          /\ pending[x].code = q.row.code /\ pending[x].addr = q.row.addr
          /\ pending[x].attempts = q.row.attempts /\ q.row.attempts < MaxAttempts
          /\ q.code = 0 \/ \E e \in Addresses : [to |-> e, code |-> q.code] \in mails
      BY <1>2, <1>7 DEF ReqOK
    <2>2. x \in Accounts /\ Undisturbed(x)
      BY <1>5, <1>7
    <2>3. pending[x] \in Rows
      BY <2>2, Typed DEF IInv
    <2>4. /\ pending'[x].code = pending[x].code /\ pending'[x].addr = pending[x].addr
          /\ pending'[x].attempts = pending[x].attempts
      BY <2>2, <2>3 DEF Undisturbed, Rows
    <2>5. pending[x].code # 0 /\ NoRow.code = 0
      BY <2>1, <2>2, PendingCode DEF NoRow
    <2>6. pending'[x] # NoRow
      BY <2>4, <2>5
    <2>7. mails \subseteq mails'
      BY DEF Touches
    <2> QED BY <2>1, <2>4, <2>6, <2>7
  <1>8. ASSUME q.pc = "change"
        PROVE  q.code = q.row.code /\ (pending'[x].code = q.code \/ q.code \in void')
    <2>1. q.code = q.row.code /\ (pending[x].code = q.code \/ q.code \in void)
      BY <1>2, <1>8 DEF ReqOK
    <2>2. x \in Accounts /\ q.row.code \in 1 .. Len(codes)
      BY <1>2, <1>8 DEF ReqOK
    <2>3. CASE q.code \in void
      BY <2>1, <2>3 DEF Touches
    <2>4. CASE pending[x].code = q.code
      <3>1. pending[x] \in Rows /\ pending[x] # NoRow
        BY <2>1, <2>2, <2>4, Typed DEF IInv, NoRow
      <3>2. CASE x \in S
        BY <2>1, <2>4, <3>1, <3>2 DEF Touches, Replaced
      <3>3. CASE x \notin S
        <4>1. Undisturbed(x)
          BY <2>2, <3>3 DEF Touches
        <4>2. pending'[x].code = pending[x].code
          BY <3>1, <4>1 DEF Undisturbed, Rows
        <4> QED BY <2>1, <2>4, <4>2
      <3> QED BY <3>2, <3>3
    <2> QED BY <2>1, <2>3, <2>4
  <1> HIDE DEF q
  <1> QED BY <1>1, <1>3, <1>4, <1>6, <1>7, <1>8 DEF ReqOK

(* What a step keeps, given what it touches. *)
LEMMA Kept ==
    ASSUME IInv, TypeOK', NEW S \in SUBSET Accounts, NEW R \in SUBSET Reqs, Touches(S, R)
    PROVE  /\ \A x \in Accounts : RowOK(x)'
           /\ \A r \in Reqs : ReqOK(r)'
           /\ Unasked' /\ GuessesBounded' /\ SentCodesKept'
  <1> USE DEF IInv
  <1>1. ASSUME NEW x \in Accounts
        PROVE  RowOK(x)'
    <2>1. CASE x \in S
      BY <2>1 DEF Touches
    <2>2. CASE x \notin S
      <3>1. Undisturbed(x) /\ Extends /\ RowOK(x)
        BY <2>2 DEF Touches, Live
      <3> QED BY <3>1, RowStays
    <2> QED BY <2>1, <2>2
  <1>2. ASSUME NEW r \in Reqs
        PROVE  ReqOK(r)'
    <2>1. CASE r \in R
      BY <2>1 DEF Touches
    <2>2. CASE r \notin R
      BY <2>2, ReqStays
    <2> QED BY <2>1, <2>2
  <1>3. Unasked'
    <2> SUFFICES ASSUME NEW x \in Accounts, \A c \in 1 .. Len(codes') : codes'[c] # x
                 PROVE  wrong'[x] = 0
      BY DEF Unasked
    <2>1. \A c \in 1 .. Len(codes) : codes[c] # x
      <3>1. Len(codes) \in Nat /\ Len(codes') \in Nat /\ Extends
        BY DEF TypeOK, Touches
      <3> QED BY <3>1 DEF Extends
    <2>2. wrong[x] = 0 /\ ~Pending(x)
      BY <2>1, PendingCode DEF Live, Unasked, Pending
    <2>3. CASE x \in S
      BY <2>2, <2>3 DEF Touches, Counted
    <2>4. CASE x \notin S
      BY <2>2, <2>4 DEF Touches, Undisturbed
    <2> QED BY <2>3, <2>4
  <1>4. GuessesBounded'
    <2> SUFFICES ASSUME NEW x \in Accounts
                 PROVE  wrong'[x] <= MaxAttempts
      BY DEF GuessesBounded
    <2>1. CASE x \in S
      BY <2>1 DEF Touches, Counted
    <2>2. CASE x \notin S
      BY <2>2 DEF Touches, Undisturbed, Live, GuessesBounded
    <2> QED BY <2>1, <2>2
  <1>5. SentCodesKept'
    <2> SUFFICES ASSUME NEW c \in sent' \ void'
                 PROVE  pending'[codes'[c]].code = c
      BY DEF SentCodesKept
    <2>1. CASE c \notin sent
      BY <2>1 DEF Touches
    <2>2. CASE c \in sent
      <3> DEFINE y == codes[c]
      <3>1. c \in 1 .. Len(codes) /\ y \in Accounts /\ codes'[c] = y /\ c # 0
        <4>1. sent \subseteq 1 .. Len(codes) /\ Extends
          BY DEF TypeOK, Touches
        <4>2. c \in 1 .. Len(codes) /\ c # 0
          BY <2>2, <4>1
        <4> QED BY <4>1, <4>2, Typed DEF Extends
      <3>2. c \notin void /\ pending[y].code = c
        BY <2>2 DEF Touches, Live, SentCodesKept
      <3>3. pending[y] \in Rows /\ pending[y] # NoRow
        BY <3>1, <3>2, Typed DEF NoRow
      <3> HIDE DEF y
      <3>4. CASE y \in S
        BY <3>1, <3>2, <3>3, <3>4 DEF Touches, Replaced
      <3>5. CASE y \notin S
        <4>1. Undisturbed(y)
          BY <3>1, <3>5 DEF Touches
        <4>2. pending'[y].code = pending[y].code
          BY <3>3, <4>1 DEF Undisturbed, Rows
        <4> QED BY <3>1, <3>2, <4>2
      <3> QED BY <3>4, <3>5
    <2> QED BY <2>1, <2>2
  <1> QED BY <1>1, <1>2, <1>3, <1>4, <1>5

(* Only codes that have been generated are known. *)
LEMMA SaidGenerated ==
    ASSUME IInv, NEW c \in 1 .. MaxCodes, NEW e \in Addresses, Said(c, e)
    PROVE  c \in 1 .. Len(codes)
  <1> USE DEF IInv
  <1>1. CASE \E x \in Accounts : pending[x].code = c /\ pending[x].addr = e
    <2>1. PICK x \in Accounts : pending[x].code = c /\ pending[x].addr = e
      BY <1>1
    <2>2. pending[x] # NoRow
      BY <2>1 DEF NoRow
    <2> QED BY <2>1, <2>2, PendingCode
  <1>2. CASE \E r \in Reqs : req[r].row.code = c /\ req[r].row.addr = e
    <2>1. PICK r \in Reqs : req[r].row.code = c /\ req[r].row.addr = e
      BY <1>2
    <2> QED BY <2>1 DEF Live, ReqOK
  <1>3. CASE [to |-> e, code |-> c] \in mails
    <2>1. mails \subseteq [to : Addresses, code : 1 .. Len(codes)]
      BY DEF TypeOK
    <2> QED BY <1>3, <2>1
  <1> QED BY <1>1, <1>2, <1>3 DEF Said

(* A new code is mailed to the one address it was generated for. *)
LEMMA AddressKept ==
    ASSUME IInv, TypeOK', NEW S \in SUBSET Accounts, NEW R \in SUBSET Reqs, NEW a,
           Acts(S, R, a)
    PROVE  OneAddress'
  <1>1. ASSUME NEW c \in 1 .. MaxCodes, NEW e \in Addresses, Said(c, e)'
        PROVE  Said(c, e) \/ (c = NewCode /\ e = a)
    <2>1. CASE \E x \in Accounts : pending'[x].code = c /\ pending'[x].addr = e
      <3>1. PICK x \in Accounts : pending'[x].code = c /\ pending'[x].addr = e
        BY <2>1
      <3>2. CASE x \in S
        BY <3>1, <3>2 DEF Acts, Known
      <3>3. CASE x \notin S
        <4>1. Undisturbed(x)
          BY <3>3 DEF Acts, Touches
        <4>2. pending[x] \in Rows
          BY Typed DEF IInv
        <4>3. pending'[x].code = pending[x].code /\ pending'[x].addr = pending[x].addr
          BY <4>1, <4>2 DEF Undisturbed, Rows
        <4> QED BY <3>1, <4>3 DEF Said
      <3> QED BY <3>2, <3>3
    <2>2. CASE \E r \in Reqs : req'[r].row.code = c /\ req'[r].row.addr = e
      <3>1. PICK r \in Reqs : req'[r].row.code = c /\ req'[r].row.addr = e
        BY <2>2
      <3>2. CASE r \in R
        BY <3>1, <3>2 DEF Acts, Known
      <3>3. CASE r \notin R
        <4>1. req'[r] = req[r]
          BY <3>3 DEF Acts, Touches
        <4> QED BY <3>1, <4>1 DEF Said
      <3> QED BY <3>2, <3>3
    <2>3. CASE [to |-> e, code |-> c] \in mails'
      <3>1. CASE [to |-> e, code |-> c] \in mails
        BY <3>1 DEF Said
      <3>2. CASE [to |-> e, code |-> c] \notin mails
        <4>1. Known(c, e, a)
          BY <2>3, <3>2 DEF Acts
        <4> QED BY <4>1 DEF Known
      <3> QED BY <3>1, <3>2
    <2> QED BY <1>1, <2>1, <2>2, <2>3 DEF Said
  <1> SUFFICES ASSUME NEW c \in 1 .. MaxCodes, NEW e \in Addresses, NEW f \in Addresses,
                      Said(c, e)', Said(c, f)'
               PROVE  e = f
    BY DEF OneAddress
  <1>2. CASE c = NewCode
    <2>1. c \notin 1 .. Len(codes)
      BY <1>2, Typed DEF NewCode, IInv
    <2>2. ~Said(c, e) /\ ~Said(c, f)
      BY <2>1, SaidGenerated
    <2> QED BY <1>1, <2>2
  <1>3. CASE c # NewCode
    <2>1. Said(c, e) /\ Said(c, f)
      BY <1>1, <1>3
    <2> QED BY <2>1 DEF IInv, Live, OneAddress
  <1> QED BY <1>2, <1>3

(* A row is locked by a request that finds it free. *)
LEMMA MutexKept ==
    ASSUME Mutex, NEW S \in SUBSET Accounts, NEW R \in SUBSET Reqs, NEW a, Acts(S, R, a)
    PROVE  Mutex'
  <1> SUFFICES ASSUME NEW p \in Reqs, NEW q \in Reqs, NEW x \in Accounts,
                      HoldsRow(p, x)', HoldsRow(q, x)', p # q
               PROVE  FALSE
    BY DEF Mutex
  <1>1. ASSUME NEW i \in Reqs, i \notin R, HoldsRow(i, x)'
        PROVE  HoldsRow(i, x)
    <2>1. req'[i] = req[i]
      BY <1>1 DEF Acts, Touches
    <2> QED BY <1>1, <2>1 DEF HoldsRow
  <1>2. ASSUME NEW i \in Reqs, NEW j \in Reqs, i # j,
               i \in R, j \notin R, HoldsRow(i, x)', HoldsRow(j, x)'
        PROVE  FALSE
    <2>1. HoldsRow(j, x) /\ (HoldsRow(i, x) \/ RowFree(x))
      BY <1>1, <1>2 DEF Acts
    <2> QED BY <1>2, <2>1 DEF RowFree, Mutex
  <1>3. CASE p \notin R /\ q \notin R
    BY <1>1, <1>3 DEF Mutex
  <1>4. CASE p \in R /\ q \in R
    BY <1>4 DEF Acts
  <1> QED BY <1>2, <1>3, <1>4

LEMMA Invariant ==
    ASSUME IInv, TypeOK', NEW S \in SUBSET Accounts, NEW R \in SUBSET Reqs, NEW a,
           Acts(S, R, a)
    PROVE  IInv'
  <1>1. Touches(S, R) /\ Mutex
    BY DEF Acts, IInv, Live
  <1>2. Mutex' /\ OneAddress'
    BY <1>1, MutexKept, AddressKept
  <1> QED BY <1>1, <1>2, Kept DEF IInv, Live

-----------------------------------------------------------------------------
(* Requests, one field at a time. *)

LEMMA JobReplaced ==
    ASSUME TypeOK, NEW r \in Reqs, NEW j \in Job, req' = [req EXCEPT ![r] = j]
    PROVE  /\ req' \in [Reqs -> Job] /\ req'[r] = j
           /\ \A q \in Reqs \ {r} : req'[q] = req[q]
  BY DEF TypeOK, Job

LEMMA FreeJob == Free \in Job /\ NoRow \in Rows
  BY DEF Free, NoRow, Job, Rows

(* A request that ends holds no row and claims nothing. *)
LEMMA Ends ==
    ASSUME TypeOK, NEW r \in Reqs, Reply(r)
    PROVE  /\ req' \in [Reqs -> Job] /\ req'[r] = Free
           /\ \A q \in Reqs \ {r} : req'[q] = req[q]
           /\ ReqOK(r)'
           /\ \A x \in Accounts : ~HoldsRow(r, x)'
           /\ req'[r].row.code = 0
  <1>1. req' = [req EXCEPT ![r] = Free]
    BY DEF Reply
  <1>2. req'[r] = Free
    BY <1>1, FreeJob, JobReplaced
  <1>3. Free.pc = "free" /\ Free.row.code = 0
    BY DEF Free, NoRow
  <1>4. ReqOK(r)' /\ \A x \in Accounts : ~HoldsRow(r, x)'
    BY <1>2, <1>3 DEF ReqOK, HoldsRow
  <1>5. req' \in [Reqs -> Job] /\ \A q \in Reqs \ {r} : req'[q] = req[q]
    BY <1>1, FreeJob, JobReplaced
  <1>6. req'[r].row.code = 0
    BY <1>2, <1>3
  <1> QED BY <1>2, <1>4, <1>5, <1>6

(* A new code at the end of codes. *)
LEMMA Coined ==
    ASSUME TypeOK, NEW x \in Accounts, Generates(x)
    PROVE  /\ codes' \in Seq(Accounts) /\ Len(codes') = Len(codes) + 1
           /\ Len(codes') <= MaxCodes /\ Extends
           /\ NewCode \in 1 .. MaxCodes /\ NewCode = Len(codes')
           /\ codes'[NewCode] = x /\ NewCode \notin void
           /\ 1 .. Len(codes) \subseteq 1 .. Len(codes')
  <1>1. codes \in Seq(Accounts) /\ Len(codes) < MaxCodes /\ codes' = Append(codes, x)
    BY DEF TypeOK, Generates
  <1>2. /\ codes' \in Seq(Accounts) /\ Len(codes') = Len(codes) + 1 /\ Len(codes) \in Nat
        /\ codes'[Len(codes) + 1] = x /\ \A c \in 1 .. Len(codes) : codes'[c] = codes[c]
    BY <1>1
  <1>3. void \subseteq 1 .. Len(codes)
    BY DEF TypeOK
  <1> QED BY <1>1, <1>2, <1>3 DEF Extends, NewCode

(* The other accounts' codes are not void. *)
LEMMA OwnCodes ==
    ASSUME TypeOK, NEW S \in SUBSET Accounts, NEW C \in SUBSET (1 .. Len(codes)),
           \A c \in C : codes[c] \in S, void' = void \cup C
    PROVE  /\ void' \subseteq 1 .. Len(codes) /\ void \subseteq void'
           /\ \A y \in Accounts \ S : \A c \in void' \ void : codes[c] # y
  BY DEF TypeOK

-----------------------------------------------------------------------------
(* One lemma per action.  Each gives the accounts and the request it touches
   and, when it generates a code, the address it will be mailed to. *)

LEMMA SameCodes ==
    ASSUME TypeOK, UNCHANGED codes
    PROVE  Extends
  BY DEF Extends, TypeOK

LEMMA MailAcceptedStays ==
    ASSUME IInv, NEW r \in Reqs, MailAccepted(r)
    PROVE  IInv'
  <1> DEFINE q == req[r]
  <1>1. /\ q.pc \in {"mail", "change"} /\ mails' = mails \cup {Mail(r)}
        /\ UNCHANGED <<email, pending, codes, void, wrong>>
        /\ TypeOK /\ q \in Job /\ ReqOK(r)
    BY Typed DEF MailAccepted, IInv, Live
  <1>2. /\ q.row.addr \in Addresses /\ q.row.code \in 1 .. Len(codes) /\ q.who \in Accounts
        /\ codes[q.row.code] = q.who /\ q.row \in Rows
    BY <1>1 DEF ReqOK, Job
  <1>3. Mail(r) \in [to : Addresses, code : 1 .. Len(codes)]
    BY <1>2 DEF Mail
  <1>4. Known(Mail(r).code, Mail(r).to, NoAddress)
    BY DEF Known, Said, Mail
  <1>5. CASE q.pc = "mail"
    <2> DEFINE j == [q EXCEPT !.pc = "commit"]
    <2>1. j \in Job /\ j.pc = "commit" /\ j.who = q.who /\ j.code = q.code /\ j.row = q.row
      BY <1>1 DEF Job
    <2>2. req' = [req EXCEPT ![r] = j] /\ sent' = sent
      BY <1>5 DEF MailAccepted
    <2> HIDE DEF j
    <2>3. req' \in [Reqs -> Job] /\ req'[r] = j /\ \A p \in Reqs \ {r} : req'[p] = req[p]
      BY <1>1, <2>1, <2>2, JobReplaced
    <2>4. TypeOK'
      BY <1>1, <1>3, <2>2, <2>3 DEF TypeOK, Job
    <2>5. ReqOK(r)'
      BY <1>1, <1>5, <2>1, <2>3 DEF ReqOK
    <2>6. Touches({}, {r})
      BY <1>1, <2>2, <2>3, <2>5, SameCodes DEF Touches, Undisturbed
    <2>7. Acts({}, {r}, NoAddress)
      BY <1>1, <1>4, <1>5, <2>1, <2>3, <2>6 DEF Acts, HoldsRow, Known, Said
    <2> QED BY <2>4, <2>7, Invariant
  <1>6. CASE q.pc = "change"
    <2>1. Reply(r) /\ sent' = sent \cup {q.code} /\ q.code = q.row.code
      BY <1>1, <1>6 DEF MailAccepted, ReqOK
    <2>2. /\ req' \in [Reqs -> Job] /\ \A p \in Reqs \ {r} : req'[p] = req[p]
          /\ ReqOK(r)' /\ req'[r].row.code = 0 /\ \A x \in Accounts : ~HoldsRow(r, x)'
      BY <1>1, <2>1, Ends
    <2>3. TypeOK'
      BY <1>1, <1>2, <1>3, <2>1, <2>2 DEF TypeOK, Job
    <2>4. q.code \in void \/ pending[codes[q.code]].code = q.code
      BY <1>1, <1>2, <1>6, <2>1 DEF ReqOK
    <2>5. Touches({}, {r})
      BY <1>1, <2>1, <2>2, <2>4, SameCodes DEF Touches, Undisturbed
    <2>6. Acts({}, {r}, NoAddress)
      BY <1>1, <1>4, <2>2, <2>5 DEF Acts, Known
    <2> QED BY <2>3, <2>6, Invariant
  <1> QED BY <1>1, <1>5, <1>6

LEMMA CommitSentStays ==
    ASSUME IInv, NEW r \in Reqs, CommitSent(r)
    PROVE  IInv'
  <1> DEFINE q == req[r]  c == req[r].row.code
  <1>1. /\ q.pc = "commit" /\ TypeOK /\ Reply(r) /\ q \in Job /\ ReqOK(r)
        /\ pending' = [pending EXCEPT ![q.who] = q.row]
        /\ sent' = sent \cup {c} /\ void' = void \cup (CodesOf(q.who) \ {c})
        /\ UNCHANGED <<email, codes, mails, wrong>>
    BY Typed DEF CommitSent, IInv, Live
  <1>2. PICK x \in Accounts : x = q.who
    BY <1>1 DEF ReqOK
  <1>3. /\ q.row.addr \in Addresses /\ c \in 1 .. Len(codes) /\ codes[c] = x
        /\ q.row \in Rows /\ wrong[x] = q.row.attempts /\ c \notin void
    BY <1>1, <1>2 DEF ReqOK, Job
  <1>4. /\ req' \in [Reqs -> Job] /\ \A p \in Reqs \ {r} : req'[p] = req[p]
        /\ ReqOK(r)' /\ req'[r].row.code = 0 /\ \A y \in Accounts : ~HoldsRow(r, y)'
    BY <1>1, Ends
  <1>5. pending'[x] = q.row /\ \A y \in Accounts \ {x} : pending'[y] = pending[y]
    BY <1>1, <1>2 DEF TypeOK
  <1>6. /\ void' \subseteq 1 .. Len(codes) /\ void \subseteq void'
        /\ \A y \in Accounts \ {x} : \A d \in void' \ void : codes[d] # y
    BY <1>1, <1>2, OwnCodes DEF CodesOf
  <1>7. TypeOK'
    BY <1>1, <1>3, <1>4, <1>6 DEF TypeOK, Job
  <1>8. RowOK(x)'
    BY <1>1, <1>2, <1>3, <1>5 DEF RowOK
  <1>9. Replaced(x)
    <2>1. CASE pending[x] # NoRow
      <3>1. pending[x].code \in CodesOf(x)
        BY <2>1, PendingCode
      <3> QED BY <1>1, <1>2, <1>5, <3>1 DEF Replaced
    <2> QED BY <2>1 DEF Replaced
  <1>10. Counted(x)
    <2>1. q.row.attempts <= MaxAttempts /\ wrong'[x] = wrong[x]
      BY <1>1, <1>3 DEF Rows
    <2> QED BY <1>3, <2>1 DEF Counted
  <1>11. ASSUME NEW p \in Reqs \ {r}
         PROVE  ~HoldsRow(p, x)
    BY <1>1, <1>2 DEF HoldsRow, IInv, Live, Mutex
  <1>12. pending'[codes'[c]].code = c
    BY <1>1, <1>3, <1>5
  <1>13. Touches({x}, {r})
    <2>1. \A y \in Accounts \ {x} : Undisturbed(y)
      BY <1>1, <1>5, <1>6 DEF Undisturbed
    <2> HIDE DEF q, c
    <2> QED BY <1>1, <1>4, <1>6, <1>8, <1>9, <1>10, <1>11, <1>12, <2>1, SameCodes DEF Touches
  <1>14. Acts({x}, {r}, NoAddress)
    BY <1>1, <1>4, <1>5, <1>13 DEF Acts, Known, Said
  <1> QED BY <1>7, <1>14, Invariant

(* Several ways a pending row goes: the account's codes are void with it. *)
LEMMA RowGone ==
    ASSUME IInv, NEW x \in Accounts, pending' = [pending EXCEPT ![x] = NoRow],
           void' = void \cup CodesOf(x), UNCHANGED <<codes, wrong>>
    PROVE  /\ pending' \in [Accounts -> Rows]
           /\ void' \subseteq 1 .. Len(codes) /\ void \subseteq void'
           /\ \A y \in Accounts \ {x} : Undisturbed(y)
           /\ Replaced(x) /\ RowOK(x)' /\ Counted(x)
           /\ pending'[x].code = 0
  <1> USE DEF IInv
  <1>1. /\ pending' \in [Accounts -> Rows] /\ pending'[x] = NoRow
        /\ \A y \in Accounts \ {x} : pending'[y] = pending[y]
    BY FreeJob DEF TypeOK
  <1>2. /\ void' \subseteq 1 .. Len(codes) /\ void \subseteq void'
        /\ \A y \in Accounts \ {x} : \A d \in void' \ void : codes[d] # y
    <2>1. CodesOf(x) \in SUBSET (1 .. Len(codes)) /\ \A c \in CodesOf(x) : codes[c] \in {x}
      BY DEF CodesOf
    <2>2. TypeOK
      OBVIOUS
    <2> QED BY <2>1, <2>2, OwnCodes
  <1>3. \A y \in Accounts \ {x} : Undisturbed(y)
    BY <1>1, <1>2 DEF Undisturbed
  <1>4. Replaced(x)
    BY PendingCode DEF Replaced
  <1>5. RowOK(x)'
    BY <1>1 DEF RowOK
  <1>6. Counted(x)
    BY DEF Counted, Live, GuessesBounded
  <1> QED BY <1>1, <1>2, <1>3, <1>4, <1>5, <1>6 DEF NoRow

LEMMA CancelStays ==
    ASSUME IInv, NEW x \in Accounts, Cancel(x) \/ (x \in Users /\ ChangePassword(x))
    PROVE  IInv'
  <1>1. /\ RowFree(x) /\ pending' = [pending EXCEPT ![x] = NoRow]
        /\ void' = void \cup CodesOf(x)
        /\ UNCHANGED <<email, req, codes, mails, sent, wrong>> /\ TypeOK
    BY DEF Cancel, ChangePassword, AfterPassword, IInv
  <1>2. TypeOK'
    BY <1>1, RowGone DEF TypeOK
  <1>3. Touches({x}, {})
    BY <1>1, RowGone, SameCodes DEF Touches, RowFree
  <1>4. Acts({x}, {}, NoAddress)
    BY <1>1, <1>3, RowGone DEF Acts, Known
  <1> QED BY <1>2, <1>4, Invariant

LEMMA CorrectStays ==
    ASSUME IInv, NEW r \in Reqs, Correct(r)
    PROVE  IInv'
  <1> DEFINE q == req[r]
  <1>1. /\ q.pc = "verify" /\ TypeOK /\ Reply(r) /\ q \in Job /\ ReqOK(r)
        /\ email' = [email EXCEPT ![q.who] = q.row.addr]
        /\ pending' = [pending EXCEPT ![q.who] = NoRow]
        /\ void' = void \cup CodesOf(q.who)
        /\ UNCHANGED <<codes, mails, sent, wrong>>
    BY Typed DEF Correct, IInv, Live
  <1>2. PICK x \in Accounts : x = q.who
    BY <1>1 DEF ReqOK
  <1>3. q.row.addr \in Addresses
    BY <1>1 DEF ReqOK
  <1>4. /\ req' \in [Reqs -> Job] /\ \A p \in Reqs \ {r} : req'[p] = req[p]
        /\ ReqOK(r)' /\ req'[r].row.code = 0 /\ \A y \in Accounts : ~HoldsRow(r, y)'
    BY <1>1, Ends
  <1>5. ASSUME NEW p \in Reqs \ {r}
        PROVE  ~HoldsRow(p, x)
    BY <1>1, <1>2 DEF HoldsRow, IInv, Live, Mutex
  <1>6. pending' = [pending EXCEPT ![x] = NoRow] /\ void' = void \cup CodesOf(x)
    BY <1>1, <1>2
  <1>7. email' \in [Accounts -> Addresses \cup {NoAddress}]
    BY <1>1, <1>2, <1>3 DEF TypeOK
  <1> HIDE DEF q
  <1>8. TypeOK'
    BY <1>1, <1>4, <1>6, <1>7, RowGone DEF TypeOK, Job
  <1>9. Touches({x}, {r})
    BY <1>1, <1>4, <1>5, <1>6, RowGone, SameCodes DEF Touches
  <1>10. Acts({x}, {r}, NoAddress)
    BY <1>1, <1>4, <1>6, <1>9, RowGone DEF Acts, Known
  <1> QED BY <1>8, <1>10, Invariant

LEMMA AbandonStays ==
    ASSUME IInv, NEW r \in Reqs, Abandon(r)
    PROVE  IInv'
  <1> DEFINE q == req[r]
  <1>1. /\ q.pc # "free" /\ TypeOK /\ Reply(r) /\ q \in Job /\ ReqOK(r)
        /\ mails' \in {mails, mails \cup {Mail(r)}}
        /\ UNCHANGED <<email, pending, codes, sent, void, wrong>>
    BY Typed DEF Abandon, IInv, Live
  <1>2. Mail(r) \in [to : Addresses, code : 1 .. Len(codes)]
    BY <1>1 DEF ReqOK, Mail
  <1>3. Known(Mail(r).code, Mail(r).to, NoAddress)
    BY DEF Known, Said, Mail
  <1>4. /\ req' \in [Reqs -> Job] /\ \A p \in Reqs \ {r} : req'[p] = req[p]
        /\ ReqOK(r)' /\ req'[r].row.code = 0 /\ \A y \in Accounts : ~HoldsRow(r, y)'
    BY <1>1, Ends
  <1>5. TypeOK'
    BY <1>1, <1>2, <1>4 DEF TypeOK, Job
  <1>6. Touches({}, {r})
    BY <1>1, <1>4, SameCodes DEF Touches, Undisturbed
  <1>7. Acts({}, {r}, NoAddress)
    BY <1>1, <1>3, <1>4, <1>6 DEF Acts, Known
  <1> QED BY <1>5, <1>7, Invariant

LEMMA ExpireStays ==
    ASSUME IInv, NEW x \in Accounts, Expire(x)
    PROVE  IInv'
  <1>1. /\ pending[x].fresh /\ pending' = [pending EXCEPT ![x].fresh = FALSE] /\ TypeOK
        /\ UNCHANGED <<email, req, codes, mails, sent, void, wrong>>
    BY DEF Expire, history, IInv
  <1> DEFINE row == [pending[x] EXCEPT !.fresh = FALSE]
  <1>2. row \in Rows
    BY <1>1, Typed DEF Rows
  <1>3. pending' = [pending EXCEPT ![x] = row]
    BY <1>1
  <1>4. /\ pending'[x] = row /\ \A y \in Accounts \ {x} : pending'[y] = pending[y]
        /\ pending' \in [Accounts -> Rows]
    BY <1>1, <1>2, <1>3 DEF TypeOK
  <1>5. \A y \in Accounts : Undisturbed(y)
    BY <1>1, <1>4 DEF Undisturbed
  <1> HIDE DEF row
  <1>6. TypeOK'
    BY <1>1, <1>4 DEF TypeOK
  <1>7. Touches({}, {})
    BY <1>1, <1>5, SameCodes DEF Touches
  <1>8. Acts({}, {}, NoAddress)
    BY <1>1, <1>7 DEF Acts
  <1> QED BY <1>6, <1>8, Invariant

LEMMA PresentStays ==
    ASSUME IInv, NEW r \in Reqs, NEW x \in Accounts, NEW c \in {0} \cup {m.code : m \in mails},
           Present(r, x, c)
    PROVE  IInv'
  <1> DEFINE j == [pc |-> "verify", who |-> x, code |-> c, row |-> pending[x]]
  <1>1. /\ pending[x] # NoRow /\ RowFree(x) /\ pending[x].attempts < MaxAttempts
        /\ req' = [req EXCEPT ![r] = j] /\ TypeOK
        /\ UNCHANGED <<email, pending, codes, mails, sent, void, wrong>>
    <2>1. pending[x] \in Rows
      BY Typed DEF IInv
    <2>2. ~(pending[x].attempts >= MaxAttempts)
      BY DEF Present, Exhausted
    <2>3. pending[x].attempts < MaxAttempts
      BY <2>1, <2>2 DEF Rows
    <2> QED BY <2>3 DEF Present, Pending, history, IInv
  <1>2. c \in 0 .. MaxCodes /\ (c = 0 \/ \E e \in Addresses : [to |-> e, code |-> c] \in mails)
    <2>1. CASE c = 0
      BY <2>1
    <2>2. CASE c # 0
      <3>1. PICK m \in mails : m.code = c
        BY <2>2
      <3>2. m \in [to : Addresses, code : 1 .. Len(codes)] /\ Len(codes) \in Nat
            /\ Len(codes) <= MaxCodes
        BY <1>1 DEF TypeOK
      <3>3. m = [to |-> m.to, code |-> c] /\ m.to \in Addresses /\ c \in 0 .. MaxCodes
        BY <3>1, <3>2
      <3> QED BY <3>1, <3>3
    <2> QED BY <2>1, <2>2
  <1>3. /\ j \in Job /\ j.pc = "verify" /\ j.who = x /\ j.code = c /\ j.row = pending[x]
    BY <1>1, <1>2, Typed DEF Job
  <1> HIDE DEF j
  <1>4. /\ req' \in [Reqs -> Job] /\ req'[r] = j /\ \A p \in Reqs \ {r} : req'[p] = req[p]
    BY <1>1, <1>3, JobReplaced
  <1>5. TypeOK'
    BY <1>1, <1>4 DEF TypeOK, Job
  <1>6. RowOK(x)
    BY DEF IInv, Live
  <1>7. ReqOK(r)'
    BY <1>1, <1>2, <1>3, <1>4, <1>6 DEF ReqOK, RowOK
  <1>8. Touches({}, {r})
    BY <1>1, <1>4, <1>7, SameCodes DEF Touches, Undisturbed
  <1>9. Acts({}, {r}, NoAddress)
    BY <1>1, <1>3, <1>4, <1>8 DEF Acts, HoldsRow, Known, Said
  <1> QED BY <1>5, <1>9, Invariant

LEMMA IncorrectStays ==
    ASSUME IInv, NEW r \in Reqs, Incorrect(r)
    PROVE  IInv'
  <1> DEFINE q == req[r]
  <1>1. /\ q.pc = "verify" /\ TypeOK /\ Reply(r) /\ q \in Job /\ ReqOK(r)
        /\ UNCHANGED <<email, codes, mails, sent, void>>
    BY Typed DEF Incorrect, IInv, Live
  <1>2. PICK x \in Accounts : x = q.who
    BY <1>1 DEF ReqOK
  <1>3. /\ pending[x] # NoRow /\ pending[x].attempts < MaxAttempts /\ pending[x] \in Rows
        /\ RowOK(x)
    BY <1>1, <1>2, Typed DEF ReqOK, IInv, Live
  <1> DEFINE row == [pending[x] EXCEPT !.attempts = @ + 1]
  <1>4. /\ row \in Rows /\ row.attempts = pending[x].attempts + 1
        /\ row.code = pending[x].code /\ row.addr = pending[x].addr
    BY <1>3 DEF Rows
  <1>5. pending' = [pending EXCEPT ![x] = row] /\ wrong' = [wrong EXCEPT ![x] = @ + 1]
    BY <1>2 DEF Incorrect
  <1> HIDE DEF row
  <1>6. /\ pending'[x] = row /\ \A y \in Accounts \ {x} : pending'[y] = pending[y]
        /\ pending' \in [Accounts -> Rows]
    BY <1>1, <1>4, <1>5 DEF TypeOK
  <1>7. /\ wrong'[x] = wrong[x] + 1 /\ \A y \in Accounts \ {x} : wrong'[y] = wrong[y]
        /\ wrong' \in [Accounts -> Nat] /\ wrong[x] \in Nat
    BY <1>1, <1>5 DEF TypeOK
  <1>8. /\ req' \in [Reqs -> Job] /\ \A p \in Reqs \ {r} : req'[p] = req[p]
        /\ ReqOK(r)' /\ req'[r].row.code = 0 /\ \A y \in Accounts : ~HoldsRow(r, y)'
    BY <1>1, Ends
  <1>9. ASSUME NEW p \in Reqs \ {r}
        PROVE  ~HoldsRow(p, x)
    BY <1>1, <1>2 DEF HoldsRow, IInv, Live, Mutex
  <1>10. TypeOK'
    BY <1>1, <1>6, <1>7, <1>8 DEF TypeOK, Job
  <1>11. /\ pending[x].addr \in Addresses /\ pending[x].code \in 1 .. Len(codes)
         /\ codes[pending[x].code] = x /\ pending[x].code \notin void
         /\ wrong[x] = pending[x].attempts
    BY <1>3 DEF RowOK
  <1>12. RowOK(x)'
    BY <1>1, <1>4, <1>6, <1>7, <1>11 DEF RowOK
  <1>13. Replaced(x)
    BY <1>4, <1>6 DEF Replaced
  <1>14. Counted(x)
    <2>1. wrong'[x] <= MaxAttempts
      BY <1>3, <1>7, <1>11 DEF Rows
    <2> QED BY <1>3, <2>1 DEF Counted, Pending
  <1> HIDE DEF q
  <1>15. Touches({x}, {r})
    <2>1. \A y \in Accounts \ {x} : Undisturbed(y)
      BY <1>1, <1>6, <1>7 DEF Undisturbed
    <2> QED BY <1>1, <1>8, <1>9, <1>12, <1>13, <1>14, <2>1, SameCodes DEF Touches
  <1>16. Acts({x}, {r}, NoAddress)
    <2>1. Known(pending'[x].code, pending'[x].addr, NoAddress)
      BY <1>4, <1>6 DEF Known, Said
    <2> QED BY <1>1, <1>8, <1>15, <2>1 DEF Acts, Known
  <1> QED BY <1>10, <1>16, Invariant

LEMMA ChangeMailFailsStays ==
    ASSUME IInv, NEW r \in Reqs, ChangeMailFails(r)
    PROVE  IInv'
  <1> DEFINE q == req[r]
  <1>1. /\ q.pc = "change" /\ RowFree(q.who) /\ TypeOK /\ Reply(r) /\ q \in Job /\ ReqOK(r)
        /\ mails' \in {mails, mails \cup {Mail(r)}}
        /\ pending' = [pending EXCEPT ![q.who] = IF @.code = q.code THEN NoRow ELSE @]
        /\ void' = void \cup {q.code}
        /\ UNCHANGED <<email, codes, sent, wrong>>
    BY Typed DEF ChangeMailFails, Withdrawn, IInv, Live
  <1>2. PICK x \in Accounts : x = q.who
    BY <1>1 DEF ReqOK
  <1>3. /\ q.code \in 1 .. Len(codes) /\ codes[q.code] = x
        /\ q.row.addr \in Addresses /\ q.row.code = q.code
        /\ pending[x] \in Rows /\ RowOK(x)
    BY <1>1, <1>2, Typed DEF ReqOK, IInv, Live
  <1>4. Mail(r) \in [to : Addresses, code : 1 .. Len(codes)]
    BY <1>3 DEF Mail
  <1>5. Known(Mail(r).code, Mail(r).to, NoAddress)
    BY DEF Known, Said, Mail
  <1>6. /\ req' \in [Reqs -> Job] /\ \A p \in Reqs \ {r} : req'[p] = req[p]
        /\ ReqOK(r)' /\ req'[r].row.code = 0 /\ \A y \in Accounts : ~HoldsRow(r, y)'
    BY <1>1, Ends
  <1>7. /\ pending'[x] = (IF pending[x].code = q.code THEN NoRow ELSE pending[x])
        /\ \A y \in Accounts \ {x} : pending'[y] = pending[y]
        /\ pending' \in [Accounts -> Rows]
    BY <1>1, <1>2, FreeJob DEF TypeOK
  <1>8. /\ void' \subseteq 1 .. Len(codes) /\ void \subseteq void'
        /\ \A y \in Accounts \ {x} : \A d \in void' \ void : codes[d] # y
    BY <1>1, <1>3 DEF TypeOK
  <1>9. TypeOK'
    BY <1>1, <1>4, <1>6, <1>7, <1>8 DEF TypeOK, Job
  <1>10. RowOK(x)'
    BY <1>1, <1>3, <1>7 DEF RowOK
  <1>11. Replaced(x)
    BY <1>1, <1>7 DEF Replaced
  <1>12. Counted(x)
    BY <1>1 DEF Counted, IInv, Live, GuessesBounded
  <1> HIDE DEF q
  <1>13. Touches({x}, {r})
    <2>1. \A y \in Accounts \ {x} : Undisturbed(y)
      BY <1>1, <1>7, <1>8 DEF Undisturbed
    <2>2. \A p \in Reqs \ {r} : ~HoldsRow(p, x)
      BY <1>1, <1>2 DEF RowFree
    <2> QED BY <1>1, <1>6, <1>8, <1>10, <1>11, <1>12, <2>1, <2>2, SameCodes DEF Touches
  <1>14. Acts({x}, {r}, NoAddress)
    <2>1. Known(pending'[x].code, pending'[x].addr, NoAddress)
      BY <1>7 DEF Known, Said, NoRow
    <2> QED BY <1>1, <1>5, <1>6, <1>13, <2>1 DEF Acts, Known
  <1> QED BY <1>9, <1>14, Invariant

LEMMA RequestChangeStays ==
    ASSUME IInv, NEW r \in Reqs, NEW u \in Users, NEW e \in Addresses, RequestChange(r, u, e)
    PROVE  IInv'
  <1> DEFINE row == Replacing(u, e)
             j == [pc |-> "change", who |-> u, code |-> NewCode, row |-> row]
  <1>1. /\ RowFree(u) /\ Generates(u) /\ TypeOK /\ u \in Accounts
        /\ pending' = [pending EXCEPT ![u] = row]
        /\ void' = void \cup CodesOf(u) /\ wrong' = [wrong EXCEPT ![u] = 0]
        /\ UNCHANGED <<email, mails, sent>>
    BY DEF RequestChange, IInv, Accounts
  <1>2. /\ codes' \in Seq(Accounts) /\ Len(codes') = Len(codes) + 1
        /\ Len(codes') <= MaxCodes /\ Extends
        /\ NewCode \in 1 .. MaxCodes /\ NewCode = Len(codes')
        /\ codes'[NewCode] = u /\ NewCode \notin void
        /\ 1 .. Len(codes) \subseteq 1 .. Len(codes')
    BY <1>1, Coined
  <1>3. /\ row \in Rows /\ row.addr = e /\ row.code = NewCode /\ row.attempts = 0
        /\ row # NoRow
    BY <1>2 DEF Replacing, Rows, NoRow
  <1>4. req' = [req EXCEPT ![r] = j]
    <2>1. [row EXCEPT !.code = NewCode] = row
      <3>1. row.code = NewCode /\ DOMAIN row = {"addr", "code", "attempts", "sends", "fresh"}
            /\ row = [f \in DOMAIN row |-> row[f]]
        BY DEF Replacing
      <3> QED BY <3>1 DEF Replacing
    <2>2. req' = [req EXCEPT ![r] = [pc |-> "change", who |-> u, code |-> NewCode,
                                     row |-> [row EXCEPT !.code = NewCode]]]
      BY DEF RequestChange
    <2> HIDE DEF row
    <2> QED BY <2>1, <2>2
  <1> HIDE DEF row
  <1>5. j \in Job /\ j.pc = "change" /\ j.who = u /\ j.code = NewCode /\ j.row = row
    BY <1>1, <1>2, <1>3 DEF Job
  <1> HIDE DEF j
  <1>6. /\ req' \in [Reqs -> Job] /\ req'[r] = j /\ \A p \in Reqs \ {r} : req'[p] = req[p]
    BY <1>1, <1>4, <1>5, JobReplaced
  <1>7. /\ pending'[u] = row /\ \A y \in Accounts \ {u} : pending'[y] = pending[y]
        /\ pending' \in [Accounts -> Rows]
    BY <1>1, <1>3 DEF TypeOK
  <1>8. /\ wrong'[u] = 0 /\ \A y \in Accounts \ {u} : wrong'[y] = wrong[y]
        /\ wrong' \in [Accounts -> Nat]
    BY <1>1 DEF TypeOK
  <1>9. /\ void' \subseteq 1 .. Len(codes) /\ void \subseteq void'
        /\ \A y \in Accounts \ {u} : \A d \in void' \ void : codes[d] # y
    <2>1. CodesOf(u) \in SUBSET (1 .. Len(codes)) /\ \A c \in CodesOf(u) : codes[c] \in {u}
      BY DEF CodesOf
    <2> QED BY <1>1, <2>1, OwnCodes
  <1>10. NewCode \in 1 .. Len(codes') /\ NewCode \notin void' /\ Len(codes) \in Nat
    BY <1>1, <1>2, <1>9, Typed DEF NewCode
  <1>11. TypeOK'
    <2>1. mails \subseteq [to : Addresses, code : 1 .. Len(codes')]
          /\ sent \subseteq 1 .. Len(codes') /\ void' \subseteq 1 .. Len(codes')
      BY <1>1, <1>2, <1>9 DEF TypeOK
    <2> QED BY <1>1, <1>2, <1>6, <1>7, <1>8, <2>1 DEF TypeOK, Job
  <1>12. RowOK(u)'
    BY <1>2, <1>3, <1>7, <1>8, <1>10 DEF RowOK
  <1>13. Replaced(u)
    <2>1. CASE pending[u] # NoRow
      BY <1>1, <2>1, PendingCode DEF Replaced
    <2> QED BY <2>1 DEF Replaced
  <1>14. Counted(u)
    BY <1>8 DEF Counted
  <1>15. ReqOK(r)'
    BY <1>1, <1>2, <1>3, <1>5, <1>6, <1>7, <1>10 DEF ReqOK
  <1>16. Touches({u}, {r})
    <2>1. \A y \in Accounts \ {u} : Undisturbed(y)
      BY <1>7, <1>8, <1>9 DEF Undisturbed
    <2>2. \A p \in Reqs \ {r} : ~HoldsRow(p, u)
      BY <1>1 DEF RowFree
    <2> QED BY <1>1, <1>2, <1>6, <1>9, <1>12, <1>13, <1>14, <1>15, <2>1, <2>2 DEF Touches
  <1>17. Acts({u}, {r}, e)
    <2>1. Known(pending'[u].code, pending'[u].addr, e) /\ Known(j.row.code, j.row.addr, e)
      BY <1>3, <1>5, <1>7 DEF Known
    <2>2. \A y \in Accounts : ~HoldsRow(r, y)'
      BY <1>5, <1>6 DEF HoldsRow
    <2> QED BY <1>1, <1>6, <1>16, <2>1, <2>2 DEF Acts
  <1> QED BY <1>1, <1>11, <1>17, Invariant

LEMMA ResendStays ==
    ASSUME IInv, NEW r \in Reqs, NEW s \in Signups, Resend(r, s)
    PROVE  IInv'
  <1> DEFINE row == Renewed(pending[s])
             j == [pc |-> "mail", who |-> s, code |-> 0, row |-> row]
  <1>1. /\ pending[s] # NoRow /\ RowFree(s) /\ pending[s].sends < MaxSends /\ Generates(s)
        /\ req' = [req EXCEPT ![r] = j]
        /\ TypeOK /\ s \in Accounts
        /\ UNCHANGED <<email, pending, mails, sent, void, wrong>>
    BY DEF Resend, Pending, IInv, Accounts
  <1>2. /\ codes' \in Seq(Accounts) /\ Len(codes') = Len(codes) + 1
        /\ Len(codes') <= MaxCodes /\ Extends
        /\ NewCode \in 1 .. MaxCodes /\ NewCode = Len(codes')
        /\ codes'[NewCode] = s /\ NewCode \notin void
        /\ 1 .. Len(codes) \subseteq 1 .. Len(codes')
    BY <1>1, Coined
  <1>3. pending[s] \in Rows /\ RowOK(s)
    BY <1>1, Typed DEF IInv, Live
  <1>4. /\ row \in Rows /\ row.addr = pending[s].addr /\ row.code = NewCode
        /\ row.attempts = pending[s].attempts
    <2>1. PICK n \in 0 .. MaxCodes : n = NewCode
      BY <1>2
    <2>2. pending[s].sends + 1 \in 0 .. MaxSends
      BY <1>1, <1>3 DEF Rows
    <2>3. row = [pending[s] EXCEPT !.code = n, !.sends = @ + 1, !.fresh = TRUE]
      BY <2>1 DEF Renewed
    <2> HIDE DEF row
    <2> QED BY <1>3, <2>1, <2>2, <2>3 DEF Rows
  <1> HIDE DEF row
  <1>5. j \in Job /\ j.pc = "mail" /\ j.who = s /\ j.code = 0 /\ j.row = row
    BY <1>1, <1>4 DEF Job
  <1> HIDE DEF j
  <1>6. /\ req' \in [Reqs -> Job] /\ req'[r] = j /\ \A p \in Reqs \ {r} : req'[p] = req[p]
    BY <1>1, <1>5, JobReplaced
  <1>7. TypeOK'
    <2>1. mails \subseteq [to : Addresses, code : 1 .. Len(codes')]
          /\ sent \subseteq 1 .. Len(codes') /\ void \subseteq 1 .. Len(codes')
      BY <1>1, <1>2 DEF TypeOK
    <2> QED BY <1>1, <1>2, <1>6, <2>1 DEF TypeOK, Job
  <1>8. ReqOK(r)'
    <2>1. pending[s].addr \in Addresses /\ wrong[s] = pending[s].attempts
      BY <1>1, <1>3 DEF RowOK
    <2>2. NewCode \in 1 .. Len(codes')
      BY <1>2 DEF NewCode
    <2> QED BY <1>1, <1>2, <1>4, <1>5, <1>6, <2>1, <2>2 DEF ReqOK
  <1>9. Touches({}, {r})
    BY <1>1, <1>2, <1>6, <1>8 DEF Touches, Undisturbed
  <1>10. Acts({}, {r}, row.addr)
    <2>1. Known(j.row.code, j.row.addr, row.addr)
      BY <1>4, <1>5 DEF Known
    <2>2. \A y \in Accounts : HoldsRow(r, y)' => RowFree(y)
      BY <1>1, <1>5, <1>6 DEF HoldsRow
    <2> QED BY <1>1, <1>6, <1>9, <2>1, <2>2 DEF Acts
  <1>11. PICK a : a = row.addr
    OBVIOUS
  <1> QED BY <1>7, <1>10, <1>11, Invariant

LEMMA RequestSignupStays ==
    ASSUME IInv, NEW r \in Reqs, NEW s \in Signups, NEW e \in Addresses,
           RequestSignup(r, s, e)
    PROVE  IInv'
  <1> DEFINE row == [addr |-> e, code |-> NewCode, attempts |-> 0, sends |-> 1, fresh |-> TRUE]
             j == [pc |-> "mail", who |-> s, code |-> 0, row |-> row]
  <1>1. PICK E \in SUBSET Accounts : E = {t \in Signups : Pending(t) /\ ~pending[t].fresh}
    BY DEF Accounts
  <1>2. /\ s \notin Range(codes) /\ \A t \in E : RowFree(t)
        /\ Generates(s) /\ TypeOK /\ s \in Accounts
        /\ req' = [req EXCEPT ![r] = j]
        /\ pending' = [x \in Accounts |-> IF x \in E THEN NoRow ELSE pending[x]]
        /\ void' = void \cup UNION {CodesOf(t) : t \in E}
        /\ UNCHANGED <<email, mails, sent, wrong>>
    BY <1>1 DEF RequestSignup, IInv, Accounts
  <1>3. /\ codes' \in Seq(Accounts) /\ Len(codes') = Len(codes) + 1
        /\ Len(codes') <= MaxCodes /\ Extends
        /\ NewCode \in 1 .. MaxCodes /\ NewCode = Len(codes')
        /\ codes'[NewCode] = s /\ NewCode \notin void
        /\ 1 .. Len(codes) \subseteq 1 .. Len(codes')
    BY <1>2, Coined
  <1>4. /\ row \in Rows /\ row.addr = e /\ row.code = NewCode /\ row.attempts = 0
    BY <1>3 DEF Rows
  <1> HIDE DEF row
  <1>5. j \in Job /\ j.pc = "mail" /\ j.who = s /\ j.code = 0 /\ j.row = row
    BY <1>2, <1>4 DEF Job
  <1> HIDE DEF j
  <1>6. /\ req' \in [Reqs -> Job] /\ req'[r] = j /\ \A p \in Reqs \ {r} : req'[p] = req[p]
    BY <1>2, <1>5, JobReplaced
  (* The signup is new: nothing is known of it. *)
  <1>7. \A c \in 1 .. Len(codes) : codes[c] # s
    <2>1. DOMAIN codes = 1 .. Len(codes)
      BY <1>2 DEF TypeOK
    <2> QED BY <1>2, <2>1 DEF Range
  <1>8. wrong[s] = 0 /\ s \notin E
    BY <1>1, <1>2, <1>7, PendingCode DEF IInv, Live, Unasked, Pending
  <1>9. RowFree(s)
    <2> SUFFICES ASSUME NEW q \in Reqs, HoldsRow(q, s)
                 PROVE  FALSE
      BY DEF RowFree
    <2>1. req[q].row.code \in 1 .. Len(codes) /\ codes[req[q].row.code] = s
      BY DEF HoldsRow, ReqOK, IInv, Live
    <2> QED BY <1>7, <2>1
  <1>10. /\ \A t \in E : pending'[t] = NoRow
         /\ \A y \in Accounts \ E : pending'[y] = pending[y]
         /\ pending' \in [Accounts -> Rows]
    BY <1>2, FreeJob DEF TypeOK
  <1>11. /\ void' \subseteq 1 .. Len(codes) /\ void \subseteq void'
         /\ \A y \in Accounts \ E : \A d \in void' \ void : codes[d] # y
    <2>1. PICK C : C = UNION {CodesOf(t) : t \in E}
      OBVIOUS
    <2>2. C \in SUBSET (1 .. Len(codes)) /\ \A c \in C : codes[c] \in E
      BY <2>1 DEF CodesOf
    <2> QED BY <1>2, <2>1, <2>2, OwnCodes
  <1>12. NewCode \in 1 .. Len(codes') /\ NewCode \notin void' /\ Len(codes) \in Nat
    BY <1>2, <1>3, <1>11, Typed DEF NewCode
  <1>13. TypeOK'
    <2>1. mails \subseteq [to : Addresses, code : 1 .. Len(codes')]
          /\ sent \subseteq 1 .. Len(codes') /\ void' \subseteq 1 .. Len(codes')
      BY <1>2, <1>3, <1>11 DEF TypeOK
    <2> QED BY <1>2, <1>3, <1>6, <1>10, <2>1 DEF TypeOK, Job
  <1>14. ReqOK(r)'
    BY <1>2, <1>3, <1>4, <1>5, <1>6, <1>8, <1>12 DEF ReqOK
  <1>15. ASSUME NEW t \in E
         PROVE  Replaced(t) /\ RowOK(t)' /\ Counted(t)
    <2>1. Replaced(t)
      <3>1. CASE pending[t] # NoRow
        BY <1>2, <3>1, PendingCode DEF Replaced
      <3> QED BY <3>1 DEF Replaced
    <2>2. RowOK(t)'
      BY <1>10 DEF RowOK
    <2>3. Counted(t)
      BY <1>2 DEF Counted, IInv, Live, GuessesBounded
    <2> QED BY <2>1, <2>2, <2>3
  <1>16. Touches(E, {r})
    <2>1. \A y \in Accounts \ E : Undisturbed(y)
      BY <1>2, <1>10, <1>11 DEF Undisturbed
    <2>2. \A p \in Reqs \ {r} : \A t \in E : ~HoldsRow(p, t)
      BY <1>2 DEF RowFree
    <2> QED BY <1>2, <1>3, <1>6, <1>11, <1>14, <1>15, <2>1, <2>2 DEF Touches
  <1>17. Acts(E, {r}, e)
    <2>1. Known(j.row.code, j.row.addr, e) /\ \A t \in E : Known(pending'[t].code, pending'[t].addr, e)
      BY <1>4, <1>5, <1>10 DEF Known, NoRow
    <2>2. \A y \in Accounts : HoldsRow(r, y)' => RowFree(y)
      BY <1>5, <1>6, <1>9 DEF HoldsRow
    <2> QED BY <1>2, <1>6, <1>16, <2>1, <2>2 DEF Acts
  <1> QED BY <1>13, <1>17, Invariant

-----------------------------------------------------------------------------
(* The theorems. *)

LEMMA Start == Init => IInv
  <1> SUFFICES ASSUME Init PROVE IInv
    OBVIOUS
  <1>1. /\ pending = [x \in Accounts |-> NoRow] /\ req = [r \in Reqs |-> Free]
        /\ codes = << >> /\ mails = {} /\ sent = {} /\ void = {}
        /\ wrong = [x \in Accounts |-> 0]
    BY DEF Init
  <1>2. email \in [Accounts -> Addresses \cup {NoAddress}]
    BY DEF Init, Accounts
  <1>3. codes \in Seq(Accounts) /\ Len(codes) = 0
    BY <1>1
  <1>4. TypeOK
    BY <1>1, <1>2, <1>3, FreeJob DEF TypeOK, Job
  <1>5. \A x \in Accounts : RowOK(x)
    BY <1>1 DEF RowOK
  <1>6. \A r \in Reqs : ReqOK(r)
    BY <1>1 DEF ReqOK, Free, NoRow
  <1>7. Mutex
    BY <1>1 DEF Mutex, HoldsRow, Free
  <1>8. OneAddress
    BY <1>1 DEF OneAddress, Said, Free, NoRow
  <1>9. Unasked /\ GuessesBounded /\ SentCodesKept
    BY <1>1 DEF Unasked, GuessesBounded, SentCodesKept
  <1> QED BY <1>4, <1>5, <1>6, <1>7, <1>8, <1>9 DEF IInv, Live

LEMMA Stutter ==
    ASSUME IInv, UNCHANGED vars
    PROVE  IInv'
  <1>1. UNCHANGED <<email, pending, req, codes, mails, sent, void, wrong>> /\ TypeOK
    BY DEF vars, IInv
  <1>2. TypeOK'
    BY <1>1 DEF TypeOK
  <1>3. Touches({}, {})
    BY <1>1, SameCodes DEF Touches, Undisturbed
  <1>4. Acts({}, {}, NoAddress)
    BY <1>1, <1>3 DEF Acts
  <1> QED BY <1>2, <1>4, Invariant

LEMMA Inductive == IInv /\ [Next]_vars => IInv'
  <1> SUFFICES ASSUME IInv, [Next]_vars PROVE IInv'
    OBVIOUS
  <1>1. CASE UNCHANGED vars
    BY <1>1, Stutter
  <1>2. ASSUME NEW r \in Reqs, NEW s \in Signups, NEW e \in Addresses, RequestSignup(r, s, e)
        PROVE  IInv'
    BY <1>2, RequestSignupStays
  <1>3. ASSUME NEW r \in Reqs, NEW s \in Signups, Resend(r, s)
        PROVE  IInv'
    BY <1>3, ResendStays
  <1>4. ASSUME NEW r \in Reqs, NEW u \in Users, NEW e \in Addresses, RequestChange(r, u, e)
        PROVE  IInv'
    BY <1>4, RequestChangeStays
  <1>5. ASSUME NEW r \in Reqs, NEW x \in Accounts, NEW c \in {0} \cup {m.code : m \in mails},
               Present(r, x, c)
        PROVE  IInv'
    BY <1>5, PresentStays
  <1>6. ASSUME NEW r \in Reqs, Serve(r)
        PROVE  IInv'
    BY <1>6, MailAcceptedStays, CommitSentStays, ChangeMailFailsStays, AbandonStays,
       IncorrectStays, CorrectStays DEF Serve
  <1>7. ASSUME NEW x \in Accounts, Cancel(x) \/ Expire(x)
        PROVE  IInv'
    BY <1>7, CancelStays, ExpireStays
  <1>8. ASSUME NEW u \in Users, ChangePassword(u)
        PROVE  IInv'
    BY <1>8, CancelStays DEF Accounts
  <1> QED BY <1>1, <1>2, <1>3, <1>4, <1>5, <1>6, <1>7, <1>8 DEF Next

LEMMA Always == Spec => []IInv
  BY Start, Inductive, PTL DEF Spec

(* The rows, requests, codes and mails of signup.js and profile.js keep their
   shape, and a row never counts more wrong answers or mails than its columns
   allow. *)
THEOREM TypeCorrect == Spec => []TypeOK
  <1>1. IInv => TypeOK
    BY DEF IInv
  <1> QED BY <1>1, Always, PTL

(* No account answers more than MaxAttempts wrong codes for a pending request,
   however many requests present them together: the row lock of verify is held
   from the check of attempts to its increment, and a resend keeps the count. *)
THEOREM Guesses == Spec => []GuessesBounded
  <1>1. IInv => GuessesBounded
    BY DEF IInv, Live
  <1> QED BY <1>1, Always, PTL

(* A code whose request was answered with success is the pending one until it
   is void: no rolled back mail, failed send or overlapping request of another
   slot takes it away. *)
THEOREM CodesKept == Spec => []SentCodesKept
  <1>1. IInv => SentCodesKept
    BY DEF IInv, Live
  <1> QED BY <1>1, Always, PTL

(* An address becomes an account's only by a code, not yet void, that reached
   this very address and was generated for this account. *)
THEOREM Proven == Spec => AddressProven
  <1> DEFINE Proof(x) ==
        \E r \in Reqs :
            /\ HoldsRow(r, x)
            /\ req[r].code \in CodesOf(x) \ void
            /\ [to |-> email'[x], code |-> req[r].code] \in mails
  <1>1. ASSUME IInv, Next, NEW x \in Accounts, email'[x] # email[x]
        PROVE  Proof(x)
    <2>1. PICK r \in Reqs : Correct(r)
      BY <1>1 DEF Next, Serve, RequestSignup, Resend, RequestChange, Present, MailAccepted,
         CommitSent, ChangeMailFails, Abandon, Incorrect, Cancel, Expire, ChangePassword
    <2> DEFINE q == req[r]
    <2>2. /\ q.pc = "verify" /\ q.code = q.row.code
          /\ email' = [email EXCEPT ![q.who] = q.row.addr]
          /\ ReqOK(r) /\ TypeOK /\ OneAddress /\ q \in Job
      BY <1>1, <2>1, Typed DEF Correct, IInv, Live
    <2>3. x = q.who /\ email'[x] = q.row.addr
      BY <1>1, <2>2 DEF TypeOK, ReqOK
    <2>4. /\ q.row.addr \in Addresses /\ q.code \in 1 .. Len(codes)
          /\ pending[x] # NoRow /\ pending[x].code = q.code
          /\ q.code = 0 \/ \E e \in Addresses : [to |-> e, code |-> q.code] \in mails
      BY <2>2, <2>3 DEF ReqOK
    <2>5. q.code \in CodesOf(x) \ void
      BY <1>1, <2>4, PendingCode DEF IInv, Live, RowOK
    <2>6. q.code \in 1 .. MaxCodes
      <3>1. Len(codes) \in Nat /\ Len(codes) <= MaxCodes
        BY <2>2 DEF TypeOK
      <3> QED BY <2>4, <3>1
    <2>7. PICK e \in Addresses : [to |-> e, code |-> q.code] \in mails
      BY <2>4, <2>6
    <2>8. Said(q.code, e) /\ Said(q.code, q.row.addr)
      BY <2>2, <2>7 DEF Said
    <2>9. e = q.row.addr
      BY <2>2, <2>4, <2>6, <2>8 DEF OneAddress
    <2> QED BY <2>2, <2>3, <2>5, <2>7, <2>9 DEF HoldsRow
  <1>2. IInv /\ [Next]_vars =>
           [\A x \in Accounts : email'[x] # email[x] => Proof(x)]_vars
    BY <1>1
  <1> QED BY <1>2, Always, PTL DEF Spec, AddressProven
=============================================================================
