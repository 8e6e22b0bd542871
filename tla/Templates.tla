------------------------------ MODULE Templates ------------------------------
(***************************************************************************)
(* Subscription templates: administrators create, edit and publish them.   *)
(* Each client type is to have one default template; publishing numbers    *)
(* the draft and copies it into the history.                               *)
(*                                                                         *)
(* Each request is one transaction at read committed: SELECT ... FOR       *)
(* UPDATE and UPDATE lock the rows they touch until the end, a statement   *)
(* sees the rows committed when it starts, and what a transaction has      *)
(* written is in tx until it commits.  Names only ever refuse a request,   *)
(* which is Rollback, and are left out.                                    *)
(***************************************************************************)
EXTENDS Naturals, FiniteSets

CONSTANTS
  Template,     \* ids
  Client,       \* client types
  Content,      \* what a template may say
  Admin,        \* requests in progress
  Keep,         \* a field the request does not mention
  Edit,         \* bound: what updates ask for
  MaxVersion    \* bound: publications of one template

ASSUME KeepAssumption == Keep \notin Content /\ Keep \notin BOOLEAN

ASSUME EditAssumption ==
  Edit \subseteq [content : Content \cup {Keep}, default : BOOLEAN \cup {Keep}]

ASSUME MaxVersionAssumption == MaxVersion \in Nat \ {0}

VARIABLES
  templates,  \* the rows, by id
  history,    \* the published contents of each template, by version
  tx,         \* the open transaction of each request
  overlap     \* auxiliary: see Begin

templateVars == <<templates, history, tx, overlap>>

Row == [client : Client, content : Content, default : BOOLEAN, version : 0..MaxVersion]

Closed == [at |-> "closed"]

(* id, row: the template and the row this transaction leaves; ask: what    *)
(* the request mentions; makes: it turns the template into the default;    *)
(* clearing, cleared: the other rows of the client whose flag the UPDATE   *)
(* has still to reset, and has reset; held: its row locks.                 *)
OpenTx ==
  [at : {"clear", "save"}, op : {"create", "update", "publish"},
   id : Template, row : Row, makes : BOOLEAN,
   ask : [content : Content \cup {Keep}, default : BOOLEAN \cup {Keep}],
   clearing : SUBSET Template, cleared : SUBSET Template, held : SUBSET Template]

TemplatesTypeOK ==
  /\ DOMAIN templates \subseteq Template
  /\ templates \in [DOMAIN templates -> Row]
  /\ DOMAIN history = Template
  /\ \A t \in Template :
       /\ DOMAIN history[t] \subseteq 1..MaxVersion
       /\ history[t] \in [DOMAIN history[t] -> Content]
  /\ tx \in [Admin -> {Closed} \cup OpenTx]
  /\ overlap \subseteq Admin

TemplatesInit ==
  /\ templates = <<>>
  /\ history = [t \in Template |-> <<>>]
  /\ tx = [a \in Admin |-> Closed]
  /\ overlap = {}

(* Seeding fills an empty table: two published defaults of two clients.    *)
SeedTemplates ==
  /\ templates = <<>>
  /\ \E t, u \in Template, c, d \in Client, x, y \in Content :
       LET new == [i \in {t, u} |-> IF i = t THEN x ELSE y]
       IN  /\ t # u /\ c # d
           /\ \A a \in Admin : tx[a] # Closed => tx[a].id \notin {t, u}
           /\ templates' = [i \in {t, u} |->
                [client |-> IF i = t THEN c ELSE d, content |-> new[i],
                 default |-> TRUE, version |-> 1]]
           /\ history' = [i \in Template |-> IF i \in {t, u} THEN <<new[i]>> ELSE <<>>]
           /\ overlap' = overlap \cup {a \in Admin : /\ tx[a] # Closed /\ tx[a].makes
                                                     /\ tx[a].row.client \in {c, d}}
  /\ UNCHANGED tx

-----------------------------------------------------------------------------
Open(a) == tx[a] # Closed

Free(a, t) == \A b \in Admin \ {a} : Open(b) => t \notin tx[b].held

(* overlap collects the requests that make a default while another one of  *)
(* the client does, when one of the two creates its template.              *)
Begin(a, x) ==
  LET rivals == {b \in Admin : /\ Open(b) /\ tx[b].makes /\ x.makes
                               /\ tx[b].row.client = x.row.client
                               /\ "create" \in {tx[b].op, x.op}}
  IN  /\ ~ Open(a)
      /\ tx' = [tx EXCEPT ![a] = x]
      /\ overlap' = IF rivals = {} THEN overlap ELSE overlap \cup rivals \cup {a}
      /\ UNCHANGED <<templates, history>>

(* A transaction that has its row and has yet to write.                    *)
Opened(op, t, row, ask, makes, held) ==
  [op |-> op, id |-> t, row |-> row, ask |-> ask, makes |-> makes, held |-> held,
   clearing |-> {}, cleared |-> {}, at |-> IF makes THEN "clear" ELSE "save"]

(* Create inserts the draft, which nobody sees before it commits.          *)
Create(a) ==
  \E t \in Template \ DOMAIN templates, c \in Client, x \in Content, d \in BOOLEAN :
    /\ \A b \in Admin : Open(b) => tx[b].id # t
    /\ Begin(a, Opened("create", t,
                       [client |-> c, content |-> x, default |-> d, version |-> 0],
                       [content |-> x, default |-> d], d, {}))

Edited(row, ask) ==
  [row EXCEPT !.content = IF ask.content = Keep THEN @ ELSE ask.content,
              !.default = IF ask.default = Keep THEN @ ELSE ask.default]

(* Mutation: the row is read without FOR UPDATE. *)
UpdateUnlocked(a) ==
  \E t \in DOMAIN templates, ask \in Edit :
    Begin(a, Opened("update", t, Edited(templates[t], ask), ask,
                    ask.default = TRUE /\ ~ templates[t].default, {}))

(* Update locks and reads its row, and puts in what the request mentions.  *)
Update(a) ==
  \E t \in DOMAIN templates, ask \in Edit :
    /\ Free(a, t)
    /\ Begin(a, Opened("update", t, Edited(templates[t], ask), ask,
                       ask.default = TRUE /\ ~ templates[t].default, {t}))

NextVersion(row) == [row EXCEPT !.version = @ + 1]

NoAsk == [content |-> Keep, default |-> Keep]

(* Mutation: the row is read without FOR UPDATE. *)
PublishUnlocked(a) ==
  \E t \in DOMAIN templates :
    /\ templates[t].version < MaxVersion
    /\ Begin(a, Opened("publish", t, NextVersion(templates[t]), NoAsk, FALSE, {}))

Publish(a) ==
  \E t \in DOMAIN templates :
    /\ templates[t].version < MaxVersion
    /\ Free(a, t)
    /\ Begin(a, Opened("publish", t, NextVersion(templates[t]), NoAsk, FALSE, {t}))

-----------------------------------------------------------------------------
(* Mutation: only the rows that have the flag are looked at. *)
OthersWithFlag(x) ==
  {t \in DOMAIN templates : templates[t].client = x.row.client /\ t # x.id
                              /\ templates[t].default}

(* The rows the UPDATE that resets the flag finds: all of the client's.    *)
Others(x) == {t \in DOMAIN templates : templates[t].client = x.row.client /\ t # x.id}

ClearBegins(a) ==
  /\ tx[a].at = "clear"
  /\ tx' = [tx EXCEPT ![a].at = "save", ![a].clearing = Others(tx[a])]
  /\ UNCHANGED <<templates, history, overlap>>

(* ... one by one, in no particular order, each when it is free.           *)
ClearRow(a) ==
  /\ tx[a].at = "save"
  /\ \E t \in tx[a].clearing :
       /\ Free(a, t)
       /\ tx' = [tx EXCEPT ![a].clearing = @ \ {t},
                           ![a].cleared = @ \cup {t}, ![a].held = @ \cup {t}]
  /\ UNCHANGED <<templates, history, overlap>>

Ends(a) ==
  /\ tx' = [tx EXCEPT ![a] = Closed]
  /\ overlap' = overlap \ {a}

(* The row is saved whole; a publication inserts its history under the key *)
(* (template, version), which must be new.                                 *)
Commit(a) ==
  LET x == tx[a]
  IN  /\ x.at = "save" /\ x.clearing = {}
      /\ templates' = [t \in DOMAIN templates \cup {x.id} |->
                         IF t = x.id THEN x.row
                         ELSE [templates[t] EXCEPT !.default = @ /\ t \notin x.cleared]]
      /\ \/ x.op # "publish" /\ UNCHANGED history
         \/ /\ x.op = "publish" /\ x.row.version \notin DOMAIN history[x.id]
            /\ history' = [history EXCEPT ![x.id] =
                 [v \in DOMAIN @ \cup {x.row.version} |->
                    IF v = x.row.version THEN x.row.content ELSE @[v]]]
      /\ Ends(a)

(* A refused statement, a deadlock the database breaks, a crash.           *)
Rollback(a) ==
  /\ Open(a)
  /\ Ends(a)
  /\ UNCHANGED <<templates, history>>

AdminStep(a) ==
  \/ Create(a) \/ Update(a) \/ Publish(a)
  \/ ClearBegins(a) \/ ClearRow(a)
  \/ Commit(a) \/ Rollback(a)

TemplatesNext == SeedTemplates \/ \E a \in Admin : AdminStep(a)

TemplatesSpec == TemplatesInit /\ [][TemplatesNext]_templateVars

-----------------------------------------------------------------------------
(* The history of a template holds each version from 1 to the current one, *)
(* once: no publication is lost, repeated or overtaken by an edit that     *)
(* saves an older version number.                                          *)
HistoryMatches ==
  \A t \in DOMAIN templates : DOMAIN history[t] = 1..templates[t].version

(* What is published is the newest draft anybody saved, and stays in the   *)
(* history as it was.                                                      *)
PublishesDraft ==
  [][\A t \in DOMAIN templates :
       /\ DOMAIN history[t] \subseteq DOMAIN history'[t]
       /\ \A v \in DOMAIN history'[t] :
            history'[t][v] = IF v \in DOMAIN history[t] THEN history[t][v]
                             ELSE templates[t].content]_templateVars

(* Whose step it is.                                                       *)
Commits(a) == Open(a) /\ tx'[a] = Closed /\ templates' # templates

(* An edit is undone only by a request that asks for it: contents change   *)
(* to what an update of that template says, a default flag is set by an    *)
(* update that asks for it, and reset by one that asks for it or by one    *)
(* that makes another template of the client the default.                  *)
OnlyAsked ==
  [][\A t \in DOMAIN templates :
       LET old == templates[t]
           new == templates'[t]
       IN  /\ old.content # new.content =>
                \E a \in Admin : Commits(a) /\ tx[a].id = t /\ tx[a].ask.content = new.content
           /\ old.default # new.default =>
                \E a \in Admin :
                  /\ Commits(a)
                  /\ \/ tx[a].id = t /\ tx[a].ask.default = new.default
                     \/ /\ ~ new.default /\ tx[a].makes
                        /\ tx[a].id # t /\ tx[a].row.client = old.client]_templateVars

(* A request that makes a template the default leaves it the only one of   *)
(* its client, whatever updates and publications overlap: two that switch  *)
(* at once wait for each other's rows.  Only the creation of a default     *)
(* that overlaps, whose row the UPDATE does not see, may leave a second.   *)
SoleDefault ==
  [][\A a \in Admin :
       Commits(a) /\ tx[a].makes /\ a \notin overlap =>
         {t \in DOMAIN templates' : /\ templates'[t].default
                                    /\ templates'[t].client = tx[a].row.client}
           = {tx[a].id}]_templateVars

-----------------------------------------------------------------------------
(* What makes these true: the inductive invariant.                         *)

LocksExclusive ==
  \A a, b \in Admin : a # b /\ Open(a) /\ Open(b) => tx[a].held \cap tx[b].held = {}

(* What a transaction has read of its own row stands, as it has the lock.  *)
ReadsStand ==
  \A a \in Admin : Open(a) =>
    LET x == tx[a]
    IN  /\ x.op = "create" =>
             /\ x.id \notin DOMAIN templates
             /\ x.row.version = 0 /\ x.makes = x.row.default
        /\ x.op # "create" => x.id \in DOMAIN templates /\ x.id \in x.held
        /\ x.op = "update" =>
             /\ x.row = Edited(templates[x.id], x.ask)
             /\ x.makes = (x.ask.default = TRUE /\ ~ templates[x.id].default)
        /\ x.op = "publish" => x.row = NextVersion(templates[x.id]) /\ ~ x.makes

(* The rows cleared and to be cleared are others of the client; those      *)
(* cleared are locked.  Only a request that makes a default has any.       *)
ClearsOthers ==
  \A a \in Admin : Open(a) =>
    /\ tx[a].at = "clear" => tx[a].makes
    /\ tx[a].clearing \cup tx[a].cleared \subseteq Others(tx[a])
    /\ tx[a].cleared \subseteq tx[a].held
    /\ ~ tx[a].makes \/ tx[a].at = "clear" => tx[a].clearing \cup tx[a].cleared = {}

CreatesApart ==
  \A a, b \in Admin :
    a # b /\ Open(a) /\ Open(b) /\ tx[a].op = "create" => tx[a].id # tx[b].id

Rivals(a, b) ==
  a # b /\ Open(a) /\ Open(b) /\ tx[a].makes /\ tx[b].makes
        /\ tx[a].row.client = tx[b].row.client

OverlapMarked ==
  \A a, b \in Admin :
    Rivals(a, b) /\ (tx[a].op = "create" \/ tx[b].op = "create") => a \in overlap

(* A row the UPDATE of a did not find, being newer, is no default; and an  *)
(* update that would make it one has to wait for a, which has its own row. *)
NewerUnflagged ==
  \A a \in Admin : Open(a) /\ tx[a].makes /\ tx[a].at = "save" /\ a \notin overlap =>
    \A t \in Others(tx[a]) \ (tx[a].clearing \cup tx[a].cleared) : ~ templates[t].default

NewerWaits ==
  \A a, b \in Admin :
    /\ Rivals(a, b) /\ tx[a].op = "update" /\ tx[b].op = "update"
    /\ tx[a].at = "save" /\ tx[b].id \notin tx[a].clearing \cup tx[a].cleared
    => tx[b].at = "clear" \/ tx[a].id \in tx[b].clearing

TemplatesIInv ==
  /\ TemplatesTypeOK
  /\ HistoryMatches
  /\ \A t \in Template \ DOMAIN templates : history[t] = <<>>
  /\ LocksExclusive /\ ReadsStand /\ ClearsOthers /\ CreatesApart
  /\ OverlapMarked /\ NewerUnflagged /\ NewerWaits
=============================================================================
