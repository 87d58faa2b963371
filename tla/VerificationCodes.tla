------------------------- MODULE VerificationCodes -------------------------
(***************************************************************************)
(* How an address becomes the e-mail address of an account: signup.js and  *)
(* the e-mail change of profile.js, with the mails between their requests. *)
(* A signup and a user who changes address are one thing here: an account  *)
(* with at most one pending row.                                           *)
(*                                                                         *)
(* A request that locks the row and then awaits (a mail, bcrypt) keeps it  *)
(* until it commits or rolls back; its pc says so.  Codes are numbered in  *)
(* the order in which they are generated; 0 is a wrong guess.              *)
(***************************************************************************)
EXTENDS Naturals, Sequences, Functions

CONSTANTS
    Users, Signups,          \* existing accounts; ids of pending_signups
    Addresses, NoAddress,
    HomeAddress,             \* the address of each user at the start
    Reqs, NoOne,             \* slots for requests; the account of a free slot
    MaxAttempts, MaxSends,   \* both 5 in the code
    MaxCodes                 \* bound on the codes generated

Accounts == Users \cup Signups

ASSUME NamesAssumption ==
    NoAddress \notin Addresses /\ NoOne \notin Accounts /\ Users \cap Signups = {}
ASSUME HomeAssumption == HomeAddress \in [Users -> Addresses]
ASSUME BoundAssumption ==
    MaxAttempts \in Nat /\ MaxSends \in Nat \ {0} /\ MaxCodes \in Nat

VARIABLES
    email,     \* users.email; NoAddress where there is no account yet
    pending,   \* pending_signups and user_email_changes
    req,       \* the requests in progress
    codes,     \* history: the account each code was generated for
    mails,     \* history: the codes and the addresses they reached
    sent,      \* history: codes whose request was answered with success
    void,      \* history: codes that were used, replaced, cancelled, expired
    wrong      \* history: "Incorrect" answers for the pending request

vars == <<email, pending, req, codes, mails, sent, void, wrong>>
history == <<codes, mails, sent, void, wrong>>

NoRow == [addr |-> NoAddress, code |-> 0, attempts |-> 0, sends |-> 0, fresh |-> FALSE]
Free == [pc |-> "free", who |-> NoOne, code |-> 0, row |-> NoRow]

Rows == [addr : Addresses \cup {NoAddress}, code : 0 .. MaxCodes,
         attempts : 0 .. MaxAttempts, sends : 0 .. MaxSends, fresh : BOOLEAN]

TypeOK ==
    /\ email \in [Accounts -> Addresses \cup {NoAddress}]
    /\ pending \in [Accounts -> Rows]
    /\ req \in [Reqs -> [pc : {"free", "mail", "commit", "change", "verify"},
                         who : Accounts \cup {NoOne}, code : 0 .. MaxCodes, row : Rows]]
    /\ codes \in Seq(Accounts) /\ Len(codes) <= MaxCodes
    /\ mails \subseteq [to : Addresses, code : 1 .. Len(codes)]
    /\ sent \subseteq 1 .. Len(codes) /\ void \subseteq 1 .. Len(codes)
    /\ wrong \in [Accounts -> Nat]

Init ==
    /\ email = [x \in Accounts |-> IF x \in Users THEN HomeAddress[x] ELSE NoAddress]
    /\ pending = [x \in Accounts |-> NoRow]
    /\ req = [r \in Reqs |-> Free]
    /\ codes = << >> /\ mails = {} /\ sent = {} /\ void = {}
    /\ wrong = [x \in Accounts |-> 0]

-----------------------------------------------------------------------------
(* SELECT ... FOR UPDATE on the signup or on the user.  (X_Y is a faulty
   variant of X, see the README.) *)
HoldsRow(r, x) == req[r].who = x /\ req[r].pc \in {"mail", "commit", "verify"}
RowFree(x) == \A r \in Reqs : ~HoldsRow(r, x)

Taken(e) == \E x \in Accounts : email[x] = e
Pending(x) == pending[x] # NoRow
CodesOf(x) == {c \in 1 .. Len(codes) : codes[c] = x}
NewCode == Len(codes) + 1
Generates(x) == Len(codes) < MaxCodes /\ codes' = Append(codes, x)
Reply(r) == req' = [req EXCEPT ![r] = Free]

(* POST /signup/request-code: expired signups are deleted, the row is inserted,
   and the transaction stays open while the code is mailed. *)
RequestSignup(r, s, e) ==
    LET expired == {t \in Signups : Pending(t) /\ ~pending[t].fresh} IN
    /\ req[r].pc = "free"
    /\ s \notin Range(codes)
    /\ ~Taken(e)
    /\ \A t \in expired : RowFree(t)
    /\ Generates(s)
    /\ req' = [req EXCEPT ![r] =
                 [pc |-> "mail", who |-> s, code |-> 0,
                  row |-> [addr |-> e, code |-> NewCode, attempts |-> 0,
                           sends |-> 1, fresh |-> TRUE]]]
    /\ pending' = [x \in Accounts |-> IF x \in expired THEN NoRow ELSE pending[x]]
    /\ void' = void \cup UNION {CodesOf(t) : t \in expired}
    /\ UNCHANGED <<email, mails, sent, wrong>>

(* POST /signup/resend-code: a new code and a new lease of life; the wrong
   guesses made so far are kept.  The row may have expired. *)
Renewed_ResetsAttempts(row) ==
    [row EXCEPT !.code = NewCode, !.sends = @ + 1, !.fresh = TRUE, !.attempts = 0]
Renewed(row) == [row EXCEPT !.code = NewCode, !.sends = @ + 1, !.fresh = TRUE]

Resend(r, s) ==
    /\ req[r].pc = "free"
    /\ Pending(s) /\ RowFree(s)
    /\ pending[s].sends < MaxSends
    /\ Generates(s)
    /\ req' = [req EXCEPT ![r] =
                 [pc |-> "mail", who |-> s, code |-> 0, row |-> Renewed(pending[s])]]
    /\ UNCHANGED <<email, pending, mails, sent, void, wrong>>

(* POST /profile/email: the upsert commits before the code is mailed. *)
Replacing(u, e) ==
    [addr |-> e, code |-> NewCode, attempts |-> 0, sends |-> 1, fresh |-> TRUE]

RequestChange(r, u, e) ==
    /\ req[r].pc = "free"
    /\ RowFree(u)
    /\ ~Taken(e)
    /\ Generates(u)
    /\ pending' = [pending EXCEPT ![u] = Replacing(u, e)]
    /\ req' = [req EXCEPT ![r] =
                 [pc |-> "change", who |-> u, code |-> NewCode,
                  row |-> [Replacing(u, e) EXCEPT !.code = NewCode]]]
    /\ void' = void \cup CodesOf(u)
    /\ wrong' = [wrong EXCEPT ![u] = 0]
    /\ UNCHANGED <<email, mails, sent>>

-----------------------------------------------------------------------------
Mail(r) == [to |-> req[r].row.addr, code |-> req[r].row.code]

(* The mail server accepts the mail; an e-mail change is answered at once. *)
MailAccepted(r) ==
    /\ req[r].pc \in {"mail", "change"}
    /\ mails' = mails \cup {Mail(r)}
    /\ IF req[r].pc = "mail"
         THEN req' = [req EXCEPT ![r].pc = "commit"] /\ UNCHANGED sent
         ELSE Reply(r) /\ sent' = sent \cup {req[r].code}
    /\ UNCHANGED <<email, pending, codes, void, wrong>>

CommitSent(r) ==
    LET x == req[r].who  c == req[r].row.code IN
    /\ req[r].pc = "commit"
    /\ pending' = [pending EXCEPT ![x] = req[r].row]
    /\ sent' = sent \cup {c}
    /\ void' = void \cup (CodesOf(x) \ {c})
    /\ Reply(r)
    /\ UNCHANGED <<email, codes, mails, wrong>>

(* send() reports an error, although the mail may be on its way.  An e-mail
   change takes back its own pending row, not a later one. *)
Withdrawn_ByUser(r) == [pending EXCEPT ![req[r].who] = NoRow]
Withdrawn(r) ==
    [pending EXCEPT ![req[r].who] = IF @.code = req[r].code THEN NoRow ELSE @]

ChangeMailFails(r) ==
    /\ req[r].pc = "change"
    /\ RowFree(req[r].who)
    /\ mails' \in {mails, mails \cup {Mail(r)}}
    /\ pending' = Withdrawn(r)
    /\ void' = void \cup {req[r].code}
    /\ Reply(r)
    /\ UNCHANGED <<email, codes, sent, wrong>>

(* The same for a signup, and every other way a transaction is rolled back or
   a request is cut off: what has committed stays. *)
Abandon(r) ==
    /\ req[r].pc # "free"
    /\ \/ mails' = mails
       \/ req[r].pc \in {"mail", "change"} /\ mails' = mails \cup {Mail(r)}
    /\ Reply(r)
    /\ UNCHANGED <<email, pending, codes, sent, void, wrong>>

-----------------------------------------------------------------------------
Exhausted_OffByOne(x) == pending[x].attempts > MaxAttempts
Exhausted(x) == pending[x].attempts >= MaxAttempts

(* POST /signup/verify and /profile/email/verify: lock and read the row. *)
Present(r, x, c) ==
    /\ req[r].pc = "free"
    /\ Pending(x) /\ RowFree(x)
    /\ pending[x].fresh /\ ~Exhausted(x)
    /\ req' = [req EXCEPT ![r] = [pc |-> "verify", who |-> x, code |-> c, row |-> pending[x]]]
    /\ UNCHANGED <<email, pending, history>>

(* A wrong code is counted and committed. *)
Incorrect(r) ==
    LET x == req[r].who IN
    /\ req[r].pc = "verify"
    /\ req[r].code # req[r].row.code
    /\ pending' = [pending EXCEPT ![x].attempts = @ + 1]
    /\ wrong' = [wrong EXCEPT ![x] = @ + 1]
    /\ Reply(r)
    /\ UNCHANGED <<email, codes, mails, sent, void>>

(* The address is written, unless users.email already has it: then the unique
   key rolls the transaction back (Abandon). *)
Correct(r) ==
    LET x == req[r].who IN
    /\ req[r].pc = "verify"
    /\ req[r].code = req[r].row.code
    /\ ~Taken(req[r].row.addr)
    /\ email' = [email EXCEPT ![x] = req[r].row.addr]
    /\ pending' = [pending EXCEPT ![x] = NoRow]
    /\ void' = void \cup CodesOf(x)
    /\ Reply(r)
    /\ UNCHANGED <<codes, mails, sent, wrong>>

(* POST /signup/cancel and DELETE /profile/email. *)
Cancel(x) ==
    /\ RowFree(x)
    /\ Pending(x)
    /\ pending' = [pending EXCEPT ![x] = NoRow]
    /\ void' = void \cup CodesOf(x)
    /\ UNCHANGED <<email, req, codes, mails, sent, wrong>>

(* POST /profile/password also deletes the pending change. *)
AfterPassword_Kept(u) == pending
AfterPassword(u) == [pending EXCEPT ![u] = NoRow]

ChangePassword(u) ==
    /\ RowFree(u)
    /\ pending' = AfterPassword(u)
    /\ void' = void \cup CodesOf(u)
    /\ UNCHANGED <<email, req, codes, mails, sent, wrong>>

Expire(x) ==
    /\ pending[x].fresh
    /\ pending' = [pending EXCEPT ![x].fresh = FALSE]
    /\ UNCHANGED <<email, req, history>>

-----------------------------------------------------------------------------
Serve(r) ==
    \/ MailAccepted(r) \/ CommitSent(r) \/ ChangeMailFails(r) \/ Abandon(r)
    \/ Incorrect(r) \/ Correct(r)

Next ==
    \/ \E r \in Reqs :
        \/ \E s \in Signups, e \in Addresses : RequestSignup(r, s, e)
        \/ \E s \in Signups : Resend(r, s)
        \/ \E u \in Users, e \in Addresses : RequestChange(r, u, e)
        \/ \E x \in Accounts, c \in {0} \cup {m.code : m \in mails} : Present(r, x, c)
        \/ Serve(r)
    \/ \E x \in Accounts : Cancel(x) \/ Expire(x)
    \/ \E u \in Users : ChangePassword(u)

Spec == Init /\ [][Next]_vars

-----------------------------------------------------------------------------
(* An address becomes an account's only through a code that was mailed to that
   very address for that account, and that has not been used, replaced,
   cancelled or overtaken by a change of password since
   (PROFILE_EDITING_SETUP.md: "Requesting another code replaces the previous
   code", "Password changes also cancel pending email changes"). *)
AddressProven ==
    [][\A x \in Accounts : email'[x] # email[x] =>
          \E r \in Reqs :
            /\ HoldsRow(r, x)
            /\ req[r].code \in CodesOf(x) \ void
            /\ [to |-> email'[x], code |-> req[r].code] \in mails]_vars

(* However requests overlap, a signup answers at most MaxAttempts wrong codes
   in all, its resends included, and an e-mail change at most as many per code
   (SIGNUP_VERIFICATION_SETUP.md: "resending does not reset that allowance"). *)
GuessesBounded == \A x \in Accounts : wrong[x] <= MaxAttempts

(* A code the user was told to expect stays the account's pending one until it
   is used, replaced, cancelled or overtaken: the failure of another request's
   mail or commit does not take it away. *)
SentCodesKept ==
    \A c \in sent \ void : pending[codes[c]].code = c
=============================================================================
