---------------------------- MODULE FilterRules ----------------------------
(***************************************************************************)
(* What is archived: the filter rules and switches of an account           *)
(* (filterRules.js, filters.js, filters.check.js, telegram-accounts.js),   *)
(* the two checks of a message on its way from the worker, and the         *)
(* transaction of Ingestion that stores it.                                *)
(*                                                                         *)
(* A channel has an id for Telegram and a title, which its owner may       *)
(* change; the rules the page shows are joined by id, those that decide    *)
(* are looked up by title.  A sender's name stands for the sender.         *)
(***************************************************************************)
EXTENDS Ingestion, FiniteSets

CONSTANTS
    Chats, Titles, Senders,
    Private,        \* the chat of a direct message
    NoChat,         \* the telegram_chat_id of a rule created by name
    NoTitle,        \* the title of a direct message
    NoSender,       \* Telegram names no sender
    NoMsg,
    MaxErrors,      \* bound on the failures of the filter queries
    MaxRules        \* bound on the rules

ASSUME NamesAssumption ==
    /\ Private \notin Chats /\ NoChat \notin Chats /\ NoTitle \notin Titles
    /\ NoSender \notin Senders /\ MaxErrors \in Nat /\ MaxRules \in Nat

VARIABLES
    archiveOn, filtersOn,         \* switches of telegram_accounts
    title,          \* the channels' titles at Telegram
    channels,       \* rows of channels
    channelRules,   \* rows of channel_filters
    senderRules,    \* rows of sender_filters
    msg,            \* the message each handler and its request carry
    errors,         \* history: failed filter queries
    blocked         \* history: what has stood against a message all its way

ruleVars == <<archiveOn, filtersOn, title, channels, channelRules, senderRules>>
filterVars == <<vars, ruleVars, msg, errors, blocked>>

Modes == {"allow", "deny"}
Message == [chat : Chats \cup {Private}, title : Titles \cup {NoTitle},
            sender : Senders \cup {NoSender}]
Carried == [pc : {"worker", "server", "posted"}, rule : BOOLEAN,
            acct : Accounts, of : Message]

ASSUME NoMsgAssumption == NoMsg \notin Carried

(* With the unique keys of channels and channel_filters. *)
FilterTypeOK ==
    /\ TypeOK
    /\ archiveOn \in [Accounts -> BOOLEAN] /\ filtersOn \in [Accounts -> BOOLEAN]
    /\ title \in [Chats -> Titles]
    /\ channels \subseteq [acct : Accounts, chat : Chats, title : Titles]
    /\ channelRules \subseteq [acct : Accounts, chat : Chats \cup {NoChat},
                               key : Titles, mode : Modes]
    /\ senderRules \subseteq [acct : Accounts, sender : Senders,
                              by : {"id", "name"}, mode : Modes]
    /\ msg \in [Posts -> Carried \cup {NoMsg}]
    /\ \A p \in Posts : post[p].pc # "free" => msg[p] # NoMsg /\ msg[p].pc = "posted"
    /\ errors \in 0 .. MaxErrors
    /\ blocked \subseteq Posts \X {"paused", "denied"}
    /\ \A r, s \in channelRules : r.acct = s.acct /\ r # s =>
          r.key # s.key /\ (r.chat = s.chat => r.chat = NoChat)
    /\ \A r, s \in channels : r.acct = s.acct /\ r # s =>
          r.chat # s.chat /\ r.title # s.title

FilterInit ==
    /\ Init
    /\ archiveOn = [a \in Accounts |-> TRUE] /\ filtersOn = [a \in Accounts |-> TRUE]
    /\ title \in [Chats -> Titles]
    /\ channels = {} /\ channelRules = {} /\ senderRules = {}
    /\ msg = [p \in Posts |-> NoMsg]
    /\ errors = 0
    /\ blocked = {}

-----------------------------------------------------------------------------
(* isMessageAllowed.  In a channel the rule for its title decides, and the
   sender's is not consulted; the LIMIT 1 of the sender query returns any of
   the matching rows; without a rule the message is archived.  (X_Y is a
   faulty variant of X, see the README.) *)
Matching(a, m) ==
    IF m.chat # Private THEN {r \in channelRules : r.acct = a /\ r.key = m.title}
                        ELSE {r \in senderRules : r.acct = a /\ r.sender = m.sender}

Known(m) == m.chat # Private \/ m.sender # NoSender

Allows(a, m) ==
    Known(m) /\ (Matching(a, m) = {} \/ \E r \in Matching(a, m) : r.mode = "allow")

Denies(a, m) == ~Known(m) \/ \E r \in Matching(a, m) : r.mode = "deny"

(* UPDATE telegram_accounts waits for a transaction that has locked the row. *)
AccountRowFree(a) == \A p \in Posts : ~(post[p].pc = "locked" /\ post[p].acct = a)

Drop(p) == msg' = [msg EXCEPT ![p] = NoMsg]

Checking(p) == msg[p] # NoMsg /\ msg[p].pc # "posted"

(* A check lets the message pass: the worker's download follows, then the
   request; the server asks again, then the transaction follows. *)
Passed_Once(p) ==
    /\ msg' = [msg EXCEPT ![p].pc = "posted", ![p].rule = FALSE]
    /\ \E g \in 0 .. MaxVer : Receive(p, msg[p].acct, g)

Passed(p) ==
    IF msg[p].pc = "worker"
    THEN /\ msg' = [msg EXCEPT ![p].pc = "server", ![p].rule = FALSE]
         /\ UNCHANGED vars
    ELSE /\ msg' = [msg EXCEPT ![p].pc = "posted", ![p].rule = FALSE]
         /\ \E g \in 0 .. MaxVer : Receive(p, msg[p].acct, g)

-----------------------------------------------------------------------------
(* A message is delivered to the worker. *)
Arrive(p, a, c, s) ==
    LET m == [chat |-> c, sender |-> s,
              title |-> IF c = Private THEN NoTitle ELSE title[c]] IN
    /\ msg[p] = NoMsg
    /\ msg' = [msg EXCEPT ![p] = [pc |-> "worker", rule |-> FALSE, acct |-> a, of |-> m]]
    /\ UNCHANGED <<vars, ruleVars, errors>>

(* The first query of a check: the switches of the account. *)
CheckSwitches(p) ==
    LET a == msg[p].acct IN
    /\ Checking(p) /\ ~msg[p].rule
    /\ CASE ~archiveOn[a] -> Drop(p) /\ UNCHANGED vars
         [] archiveOn[a] /\ ~filtersOn[a] -> Passed(p)
         [] OTHER -> msg' = [msg EXCEPT ![p].rule = TRUE] /\ UNCHANGED vars
    /\ UNCHANGED <<ruleVars, errors>>

(* The second query: the rule. *)
CheckRule(p) ==
    /\ Checking(p) /\ msg[p].rule
    /\ \/ Allows(msg[p].acct, msg[p].of) /\ Passed(p)
       \/ Denies(msg[p].acct, msg[p].of) /\ Drop(p) /\ UNCHANGED vars
    /\ UNCHANGED <<ruleVars, errors>>

(* Either query fails, and the message passes. *)
CheckFails(p) ==
    /\ Checking(p)
    /\ errors < MaxErrors
    /\ errors' = errors + 1
    /\ Passed(p)
    /\ UNCHANGED ruleVars

(* The worker could not ask, could not download, or was stopped. *)
GiveUp(p) ==
    /\ Checking(p)
    /\ Drop(p)
    /\ UNCHANGED <<vars, ruleVars, errors>>

(* INSERT INTO channels ... ON DUPLICATE KEY UPDATE name: the row of the chat
   takes the new title, unless another row has it, which is an error.  A chat
   without a row is filed under the row that has its title. *)
RowOf(a, c) == {r \in channels : r.acct = a /\ r.chat = c}
Titled(a, t) == {r \in channels : r.acct = a /\ r.title = t}

UpsertChannel_ByChat(a, m) ==
    channels' = IF m.chat = Private THEN channels
                ELSE (channels \ RowOf(a, m.chat)) \cup
                     {[acct |-> a, chat |-> m.chat, title |-> m.title]}

UpsertChannel(a, m) ==
    /\ RowOf(a, m.chat) # {} => Titled(a, m.title) \subseteq RowOf(a, m.chat)
    /\ channels' =
         IF m.chat = Private \/ (RowOf(a, m.chat) = {} /\ Titled(a, m.title) # {})
         THEN channels
         ELSE (channels \ RowOf(a, m.chat)) \cup
              {[acct |-> a, chat |-> m.chat, title |-> m.title]}

Begin(p) ==
    /\ Lock(p)
    /\ UNCHANGED <<ruleVars, msg, errors>>

Store(p) ==
    /\ Commit(p)
    /\ UpsertChannel(msg[p].acct, msg[p].of)
    /\ Drop(p)
    /\ UNCHANGED <<archiveOn, filtersOn, title, channelRules, senderRules, errors>>

Fail(p) ==
    /\ Reject(p) \/ Abort(p)
    /\ Drop(p)
    /\ UNCHANGED <<ruleVars, errors>>

-----------------------------------------------------------------------------
(* PATCH archive-enabled, filters-enabled; a removal and a new login set the
   first too. *)
SwitchArchive(a) ==
    /\ AccountRowFree(a)
    /\ archiveOn' = [archiveOn EXCEPT ![a] = ~@]
    /\ UNCHANGED <<vars, filtersOn, title, channels, channelRules, senderRules, msg, errors>>

SwitchFilters(a) ==
    /\ AccountRowFree(a)
    /\ filtersOn' = [filtersOn EXCEPT ![a] = ~@]
    /\ UNCHANGED <<vars, archiveOn, title, channels, channelRules, senderRules, msg, errors>>

ChangesRules == UNCHANGED <<vars, archiveOn, filtersOn, title, channels, msg, errors>>

Room == Cardinality(channelRules) + Cardinality(senderRules) < MaxRules

(* PUT /api/filters/channel/:id inserts under the row's chat and title; where
   either has a rule already, only its mode changes. *)
OldRules(r) ==
    LET same == {f \in channelRules : f.acct = r.acct /\ f.chat = r.chat}
        key == {f \in channelRules : f.acct = r.acct /\ f.key = r.title} IN
    IF same # {} THEN same ELSE key

SetChannel(r, mode) ==
    /\ IF OldRules(r) = {}
       THEN Room /\ channelRules' = channelRules \cup
              {[acct |-> r.acct, chat |-> r.chat, key |-> r.title, mode |-> mode]}
       ELSE channelRules' = (channelRules \ OldRules(r)) \cup
              {[f EXCEPT !.mode = mode] : f \in OldRules(r)}
    /\ ChangesRules /\ UNCHANGED senderRules

(* PUT /api/filters/sender/:id, by the sender's id. *)
SetSender(a, s, mode) ==
    LET row(m) == [acct |-> a, sender |-> s, by |-> "id", mode |-> m] IN
    /\ Room \/ senderRules \cap {row(m) : m \in Modes} # {}
    /\ senderRules' = (senderRules \ {row(m) : m \in Modes}) \cup {row(mode)}
    /\ ChangesRules /\ UNCHANGED channelRules

(* POST /filters/create, by name. *)
CreateRule(a, mode) ==
    /\ ChangesRules
    /\ Room
    /\ \/ \E t \in Titles :
            /\ \A f \in channelRules : f.acct = a => f.key # t
            /\ channelRules' = channelRules \cup
                 {[acct |-> a, chat |-> NoChat, key |-> t, mode |-> mode]}
            /\ UNCHANGED senderRules
       \/ \E s \in Senders :
            /\ senderRules' = senderRules \cup
                 {[acct |-> a, sender |-> s, by |-> "name", mode |-> mode]}
            /\ UNCHANGED channelRules

(* POST /filters/update and /filters/delete. *)
EditRule ==
    /\ ChangesRules
    /\ \/ \E f \in channelRules, mode \in Modes :
            channelRules' = (channelRules \ {f}) \cup {[f EXCEPT !.mode = mode]}
       \/ \E f \in channelRules : channelRules' = channelRules \ {f}
    /\ UNCHANGED senderRules

EditSenderRule ==
    /\ ChangesRules
    /\ \/ \E f \in senderRules, mode \in Modes :
            senderRules' = (senderRules \ {f}) \cup {[f EXCEPT !.mode = mode]}
       \/ \E f \in senderRules : senderRules' = senderRules \ {f}
    /\ UNCHANGED channelRules

(* A channel is given another title in Telegram. *)
Rename(c, t) ==
    /\ title[c] # t
    /\ title' = [title EXCEPT ![c] = t]
    /\ UNCHANGED <<vars, archiveOn, filtersOn, channels, channelRules, senderRules,
                   msg, errors>>

(* The transactions of Ingestion that revoke. *)
Authority ==
    /\ \E u \in Users : Approve(u) \/ Suspend(u) \/ ChangeCredential(u)
    /\ UNCHANGED <<ruleVars, msg, errors>>

-----------------------------------------------------------------------------
Step ==
    \/ \E p \in Posts :
        \/ \E a \in Accounts, c \in Chats \cup {Private}, s \in Senders \cup {NoSender} :
              Arrive(p, a, c, s)
        \/ CheckSwitches(p) \/ CheckRule(p) \/ CheckFails(p) \/ GiveUp(p)
        \/ Begin(p) \/ Store(p) \/ Fail(p)
    \/ \E a \in Accounts :
        \/ SwitchArchive(a) \/ SwitchFilters(a)
        \/ \E mode \in Modes :
             \/ CreateRule(a, mode)
             \/ \E s \in Senders : SetSender(a, s, mode)
    \/ \E r \in channels, mode \in Modes : SetChannel(r, mode)
    \/ EditRule \/ EditSenderRule
    \/ \E c \in Chats, t \in Titles : Rename(c, t)
    \/ Authority

(* Reasons to refuse p: each is kept as long as it has stood since p arrived. *)
Reasons(p) ==
    IF msg[p] = NoMsg THEN {}
    ELSE LET a == msg[p].acct IN
         {why \in {"paused", "denied"} :
             IF why = "paused" THEN ~archiveOn[a]
                               ELSE filtersOn[a] /\ ~Allows(a, msg[p].of)}

FilterNext ==
    /\ Step
    /\ blocked' = {b \in Posts \X {"paused", "denied"} :
                     /\ b[2] \in Reasons(b[1])'
                     /\ b \in blocked \/ msg[b[1]] = NoMsg}

FilterSpec == FilterInit /\ [][FilterNext]_filterVars

-----------------------------------------------------------------------------
(* A message of a paused account, or one that the rules deny, and that for all
   of its way, is not archived, also when one of the two checks fails and so
   lets it pass (accountControls.test.js: "archive pause is persistent and
   blocks incoming messages before filters"). *)
BlockedNotArchived ==
    [][\A p \in Posts : Store(p) => \A b \in blocked : b[1] # p]_filterVars

(* GET /api/filters: the rule shown for a row of channels is the rule of its
   chat, or one created for its title. *)
Shown(r) ==
    {f \in channelRules : /\ f.acct = r.acct
                          /\ f.chat = r.chat \/ (f.chat = NoChat /\ f.key = r.title)}

(* A channel that the filter page shows as denied, under its present title, is
   not archived while the account's filters are on (filterRules.js: "Channel
   rules override sender rules"). *)
DeniedIsDenied ==
    \A r \in channels :
        (\E f \in Shown(r) : f.mode = "deny") /\ r.title = title[r.chat] /\ filtersOn[r.acct]
            => ~Allows(r.acct, [chat |-> r.chat, title |-> r.title, sender |-> NoSender])
=============================================================================
