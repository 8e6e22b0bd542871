------------------------- MODULE SubscriptionsProofs -------------------------
(***************************************************************************)
(* Theorems about the template transactions, for every number of templates *)
(* and clients and any number of requests that overlap, and on top of them *)
(* about the subscriptions that select a template and preview it.          *)
(***************************************************************************)
EXTENDS Subscriptions, TLAPS

-----------------------------------------------------------------------------
(* The templates. *)

(* What an open transaction carries. *)
LEMMA Fields ==
  ASSUME TemplatesTypeOK, NEW a \in Admin, Open(a)
  PROVE  /\ tx[a] \in OpenTx
         /\ tx[a].at \in {"clear", "save"}
         /\ tx[a].op \in {"create", "update", "publish"}
         /\ tx[a].id \in Template
         /\ tx[a].row \in Row
         /\ tx[a].makes \in BOOLEAN
         /\ tx[a].clearing \subseteq Template
         /\ tx[a].cleared \subseteq Template
         /\ tx[a].held \subseteq Template
<1>1. tx[a] \in OpenTx
  BY DEF TemplatesTypeOK, Open
<1> QED  BY <1>1 DEF OpenTx

LEMMA ClosedIsNoTx == Closed \notin OpenTx
<1>1. \A x \in OpenTx : x.at \in {"clear", "save"}
  BY DEF OpenTx
<1>2. Closed.at = "closed"
  BY DEF Closed
<1> QED  BY <1>1, <1>2

LEMMA EditedRow ==
  ASSUME NEW row \in Row, NEW ask \in Edit
  PROVE  /\ Edited(row, ask) \in Row
         /\ Edited(row, ask).client = row.client
         /\ Edited(row, ask).version = row.version
         /\ Edited(row, ask).content = IF ask.content = Keep THEN row.content ELSE ask.content
         /\ Edited(row, ask).default = IF ask.default = Keep THEN row.default ELSE ask.default
<1>1. ask \in [content : Content \cup {Keep}, default : BOOLEAN \cup {Keep}]
  BY EditAssumption
<1>2. /\ ask.content # Keep => ask.content \in Content
      /\ ask.default # Keep => ask.default \in BOOLEAN
  BY <1>1
<1> QED  BY <1>2 DEF Edited, Row

LEMMA PublishedRow ==
  ASSUME NEW row \in Row, row.version < MaxVersion
  PROVE  /\ NextVersion(row) \in Row
         /\ NextVersion(row).client = row.client
         /\ NextVersion(row).content = row.content
         /\ NextVersion(row).default = row.default
         /\ NextVersion(row).version = row.version + 1
BY MaxVersionAssumption DEF NextVersion, Row

-----------------------------------------------------------------------------
(* The three ways to begin, and what they have in common. *)
Begins(a, x) ==
  /\ Begin(a, x)
  /\ x \in OpenTx
  /\ x.clearing = {} /\ x.cleared = {}
  /\ x.at = IF x.makes THEN "clear" ELSE "save"
  /\ x.held \subseteq {x.id} /\ \A t \in x.held : Free(a, t)
  /\ x.op = "create" =>
       /\ x.id \notin DOMAIN templates /\ x.row.version = 0 /\ x.makes = x.row.default
       /\ \A b \in Admin : Open(b) => tx[b].id # x.id
  /\ x.op # "create" => x.id \in DOMAIN templates /\ x.id \in x.held
  /\ x.op = "update" =>
       /\ x.ask \in Edit
       /\ x.row = Edited(templates[x.id], x.ask)
       /\ x.makes = (x.ask.default = TRUE /\ ~ templates[x.id].default)
  /\ x.op = "publish" =>
       /\ x.row = NextVersion(templates[x.id]) /\ ~ x.makes
       /\ templates[x.id].version < MaxVersion

LEMMA OpenedTyped ==
  ASSUME NEW op \in {"create", "update", "publish"}, NEW t \in Template, NEW row \in Row,
         NEW ask \in [content : Content \cup {Keep}, default : BOOLEAN \cup {Keep}],
         NEW makes \in BOOLEAN, NEW held \in SUBSET Template
  PROVE  /\ Opened(op, t, row, ask, makes, held) \in OpenTx
         /\ Opened(op, t, row, ask, makes, held).op = op
         /\ Opened(op, t, row, ask, makes, held).id = t
         /\ Opened(op, t, row, ask, makes, held).row = row
         /\ Opened(op, t, row, ask, makes, held).ask = ask
         /\ Opened(op, t, row, ask, makes, held).makes = makes
         /\ Opened(op, t, row, ask, makes, held).held = held
         /\ Opened(op, t, row, ask, makes, held).clearing = {}
         /\ Opened(op, t, row, ask, makes, held).cleared = {}
         /\ Opened(op, t, row, ask, makes, held).at = IF makes THEN "clear" ELSE "save"
BY DEF Opened, OpenTx

LEMMA StepShape ==
  ASSUME TemplatesTypeOK, NEW a \in Admin, AdminStep(a)
  PROVE  \/ \E x : Begins(a, x)
         \/ ClearBegins(a) \/ ClearRow(a) \/ Commit(a) \/ Rollback(a)
<1>1. ASSUME Create(a) PROVE \E x : Begins(a, x)
  <2>1. PICK t \in Template \ DOMAIN templates, c \in Client, y \in Content, d \in BOOLEAN :
          /\ \A b \in Admin : Open(b) => tx[b].id # t
          /\ Begin(a, Opened("create", t,
                       [client |-> c, content |-> y, default |-> d, version |-> 0],
                       [content |-> y, default |-> d], d, {}))
    BY <1>1 DEF Create
  <2> DEFINE row == [client |-> c, content |-> y, default |-> d, version |-> 0]
             ask == [content |-> y, default |-> d]
             x == Opened("create", t, row, ask, d, {})
  <2>2. row \in Row /\ row.version = 0 /\ row.default = d
    BY MaxVersionAssumption DEF Row
  <2>3. ask \in [content : Content \cup {Keep}, default : BOOLEAN \cup {Keep}]
    OBVIOUS
  <2>4. Begin(a, x)
    BY <2>1
  <2> HIDE DEF row, ask
  <2>5. /\ x \in OpenTx /\ x.op = "create" /\ x.id = t /\ x.row = row /\ x.makes = d
        /\ x.held = {} /\ x.clearing = {} /\ x.cleared = {}
        /\ x.at = IF d THEN "clear" ELSE "save"
    BY <2>2, <2>3, OpenedTyped
  <2> HIDE DEF x
  <2> QED  BY <2>1, <2>2, <2>4, <2>5 DEF Begins
<1>2. ASSUME Update(a) PROVE \E x : Begins(a, x)
  <2>1. PICK t \in DOMAIN templates, ask \in Edit :
          /\ Free(a, t)
          /\ Begin(a, Opened("update", t, Edited(templates[t], ask), ask,
                             ask.default = TRUE /\ ~ templates[t].default, {t}))
    BY <1>2 DEF Update
  <2> DEFINE row == Edited(templates[t], ask)
             makes == ask.default = TRUE /\ ~ templates[t].default
             x == Opened("update", t, row, ask, makes, {t})
  <2>2. t \in Template /\ row \in Row /\ makes \in BOOLEAN
    BY EditedRow DEF TemplatesTypeOK
  <2>3. ask \in [content : Content \cup {Keep}, default : BOOLEAN \cup {Keep}]
    BY EditAssumption
  <2>4. Begin(a, x)
    BY <2>1
  <2>5. row = Edited(templates[t], ask) /\ makes = (ask.default = TRUE /\ ~ templates[t].default)
    OBVIOUS
  <2> HIDE DEF row, makes
  <2>6. /\ x \in OpenTx /\ x.op = "update" /\ x.id = t /\ x.row = row /\ x.makes = makes
        /\ x.ask = ask /\ x.held = {t} /\ x.clearing = {} /\ x.cleared = {}
        /\ x.at = IF makes THEN "clear" ELSE "save"
    BY <2>2, <2>3, OpenedTyped
  <2> HIDE DEF x
  <2> QED  BY <2>1, <2>4, <2>5, <2>6 DEF Begins
<1>3. ASSUME Publish(a) PROVE \E x : Begins(a, x)
  <2>1. PICK t \in DOMAIN templates :
          /\ templates[t].version < MaxVersion
          /\ Free(a, t)
          /\ Begin(a, Opened("publish", t, NextVersion(templates[t]), NoAsk, FALSE, {t}))
    BY <1>3 DEF Publish
  <2> DEFINE row == NextVersion(templates[t])
             makes == FALSE
             x == Opened("publish", t, row, NoAsk, makes, {t})
  <2>2. t \in Template /\ row \in Row
    BY <2>1, PublishedRow DEF TemplatesTypeOK
  <2>3. NoAsk \in [content : Content \cup {Keep}, default : BOOLEAN \cup {Keep}]
    BY DEF NoAsk
  <2>4. Begin(a, x)
    BY <2>1
  <2>5. row = NextVersion(templates[t]) /\ makes \in BOOLEAN /\ ~ makes
    OBVIOUS
  <2> HIDE DEF row, makes
  <2>6. /\ x \in OpenTx /\ x.op = "publish" /\ x.id = t /\ x.row = row /\ x.makes = makes
        /\ x.held = {t} /\ x.clearing = {} /\ x.cleared = {}
        /\ x.at = IF makes THEN "clear" ELSE "save"
    BY <2>2, <2>3, <2>5, OpenedTyped
  <2> HIDE DEF x
  <2> QED  BY <2>1, <2>4, <2>5, <2>6 DEF Begins
<1> QED  BY <1>1, <1>2, <1>3 DEF AdminStep

-----------------------------------------------------------------------------
(* Each kind of step preserves the inductive invariant. *)

LEMMA BeginStep ==
  ASSUME TemplatesIInv, NEW a \in Admin, NEW x, Begins(a, x)
  PROVE  TemplatesIInv'
<1> USE DEF TemplatesIInv
<1>1. /\ ~ Open(a) /\ x \in OpenTx /\ x # Closed
      /\ tx' = [tx EXCEPT ![a] = x]
      /\ templates' = templates /\ history' = history
  BY ClosedIsNoTx DEF Begins, Begin
<1>2. \A b \in Admin : tx'[b] = IF b = a THEN x ELSE tx[b]
  BY <1>1 DEF TemplatesTypeOK
<1>3. \A b \in Admin : Open(b)' <=> b = a \/ Open(b)
  BY <1>1, <1>2 DEF Open
<1>4. overlap \subseteq overlap' /\ overlap' \subseteq Admin
  BY DEF Begins, Begin, TemplatesTypeOK
<1>5. TemplatesTypeOK'
  BY <1>1, <1>4 DEF TemplatesTypeOK
<1>6. HistoryMatches' /\ \A t \in Template \ DOMAIN templates' : history'[t] = <<>>
  BY <1>1 DEF HistoryMatches
<1>7. LocksExclusive'
  <2> SUFFICES ASSUME NEW b \in Admin, NEW c \in Admin, b # c, Open(b)', Open(c)'
               PROVE  tx'[b].held \cap tx'[c].held = {}
    BY DEF LocksExclusive
  <2>1. CASE b # a /\ c # a
    BY <2>1, <1>2, <1>3 DEF LocksExclusive
  <2>2. \A d \in Admin \ {a} : Open(d) => x.held \cap tx[d].held = {}
    BY DEF Begins, Free
  <2> QED  BY <2>1, <2>2, <1>2, <1>3
<1>8. ReadsStand'
  BY <1>1, <1>2, <1>3 DEF ReadsStand, Begins
<1>9. ClearsOthers'
  <2> SUFFICES ASSUME NEW b \in Admin, Open(b)'
               PROVE  /\ tx'[b].at = "clear" => tx'[b].makes
                      /\ tx'[b].clearing \cup tx'[b].cleared \subseteq Others(tx[b])'
                      /\ tx'[b].cleared \subseteq tx'[b].held
                      /\ ~ tx'[b].makes \/ tx'[b].at = "clear" =>
                           tx'[b].clearing \cup tx'[b].cleared = {}
    BY DEF ClearsOthers
  <2>1. CASE b = a
    BY <2>1, <1>1, <1>2 DEF Begins
  <2>2. CASE b # a
    BY <2>2, <1>1, <1>2, <1>3 DEF ClearsOthers, Others
  <2> QED  BY <2>1, <2>2
<1>10. CreatesApart'
  <2> SUFFICES ASSUME NEW b \in Admin, NEW c \in Admin, b # c, Open(b)', Open(c)',
                      tx'[b].op = "create"
               PROVE  tx'[b].id # tx'[c].id
    BY DEF CreatesApart
  <2>1. CASE b # a /\ c # a
    BY <2>1, <1>2, <1>3 DEF CreatesApart
  <2>2. CASE b = a
    BY <2>2, <1>2, <1>3 DEF Begins
  <2>3. CASE c = a
    BY <2>3, <1>2, <1>3 DEF Begins, ReadsStand
  <2> QED  BY <2>1, <2>2, <2>3
<1>11. OverlapMarked'
  <2> SUFFICES ASSUME NEW b \in Admin, NEW c \in Admin, Rivals(b, c)',
                      tx'[b].op = "create" \/ tx'[c].op = "create"
               PROVE  b \in overlap'
    BY DEF OverlapMarked
  <2>0. /\ b # c /\ Open(b)' /\ Open(c)' /\ tx'[b].makes /\ tx'[c].makes
        /\ tx'[b].row.client = tx'[c].row.client
    BY DEF Rivals
  <2>1. CASE b # a /\ c # a
    <3>1. Rivals(b, c)
      BY <2>0, <2>1, <1>2, <1>3 DEF Rivals
    <3> QED  BY <3>1, <2>1, <1>2, <1>4 DEF OverlapMarked
  <2> DEFINE rivals == {d \in Admin : /\ Open(d) /\ tx[d].makes /\ x.makes
                                      /\ tx[d].row.client = x.row.client
                                      /\ "create" \in {tx[d].op, x.op}}
  <2>2. overlap' = IF rivals = {} THEN overlap ELSE overlap \cup rivals \cup {a}
    BY DEF Begins, Begin
  <2>3. CASE b = a
    <3>1. c \in rivals
      BY <2>0, <2>3, <1>2, <1>3
    <3> QED  BY <3>1, <2>2, <2>3
  <2>4. CASE c = a
    <3>1. b \in rivals
      BY <2>0, <2>4, <1>2, <1>3
    <3> QED  BY <3>1, <2>2
  <2> QED  BY <2>1, <2>3, <2>4
<1>12. NewerUnflagged'
  <2> SUFFICES ASSUME NEW b \in Admin, Open(b)', tx'[b].makes, tx'[b].at = "save",
                      b \notin overlap',
                      NEW t \in Others(tx[b])' \ (tx'[b].clearing \cup tx'[b].cleared)
               PROVE  ~ templates'[t].default
    BY DEF NewerUnflagged
  <2>1. b # a
    BY <1>2 DEF Begins
  <2>2. t \in Others(tx[b])
    BY <2>1, <1>1, <1>2 DEF Others
  <2> QED  BY <2>1, <2>2, <1>1, <1>2, <1>3, <1>4 DEF NewerUnflagged
<1>13. NewerWaits'
  <2> SUFFICES ASSUME NEW b \in Admin, NEW c \in Admin, Rivals(b, c)',
                      tx'[b].op = "update", tx'[c].op = "update",
                      tx'[b].at = "save", tx'[c].id \notin tx'[b].clearing \cup tx'[b].cleared
               PROVE  tx'[c].at = "clear" \/ tx'[b].id \in tx'[c].clearing
    BY DEF NewerWaits
  <2>0. /\ b # c /\ Open(b)' /\ Open(c)' /\ tx'[b].makes /\ tx'[c].makes
        /\ tx'[b].row.client = tx'[c].row.client
    BY DEF Rivals
  <2>1. b # a
    BY <2>0, <1>2 DEF Begins
  <2>2. CASE c = a
    BY <2>0, <2>2, <1>2 DEF Begins
  <2>3. CASE c # a
    <3>1. Rivals(b, c)
      BY <2>0, <2>1, <2>3, <1>2, <1>3 DEF Rivals
    <3> QED  BY <3>1, <2>1, <2>3, <1>2 DEF NewerWaits
  <2> QED  BY <2>2, <2>3
<1> QED  BY <1>5, <1>6, <1>7, <1>8, <1>9, <1>10, <1>11, <1>12, <1>13

(* An UPDATE that resets the flag finds every row of the client that another *)
(* update holds.                                                             *)
LEMMA RivalIsOther ==
  ASSUME TemplatesIInv, NEW a \in Admin, NEW b \in Admin, Rivals(a, b),
         tx[a].op = "update", tx[b].op = "update"
  PROVE  tx[b].id \in Others(tx[a])
<1>1. /\ a # b /\ Open(a) /\ Open(b) /\ tx[a].row.client = tx[b].row.client
  BY DEF Rivals
<1>2. /\ tx[a].id \in DOMAIN templates /\ tx[a].id \in tx[a].held
      /\ tx[b].id \in DOMAIN templates /\ tx[b].id \in tx[b].held
      /\ tx[b].row = Edited(templates[tx[b].id], tx[b].ask)
  BY <1>1 DEF TemplatesIInv, ReadsStand
<1>3. tx[a].id # tx[b].id
  BY <1>1, <1>2 DEF TemplatesIInv, LocksExclusive
<1>4. tx[b].row.client = templates[tx[b].id].client
  <2>1. templates[tx[b].id] \in Row
    BY <1>2 DEF TemplatesIInv, TemplatesTypeOK
  <2> QED  BY <2>1, <1>2 DEF Edited, Row
<1> QED  BY <1>1, <1>2, <1>3, <1>4 DEF Others

LEMMA ClearBeginsStep ==
  ASSUME TemplatesIInv, NEW a \in Admin, ClearBegins(a)
  PROVE  TemplatesIInv'
<1> USE DEF TemplatesIInv
<1> DEFINE x == [tx[a] EXCEPT !.at = "save", !.clearing = Others(tx[a])]
<1>1. /\ tx[a].at = "clear" /\ Open(a)
      /\ templates' = templates /\ history' = history /\ overlap' = overlap
  <2>1. tx[a].at = "clear"
    BY DEF ClearBegins
  <2> QED  BY <2>1 DEF ClearBegins, Open, Closed
<1>2. tx[a] \in OpenTx
  BY <1>1, Fields
<1>3. /\ x \in OpenTx /\ x.at = "save" /\ x.clearing = Others(tx[a])
      /\ x.op = tx[a].op /\ x.id = tx[a].id /\ x.row = tx[a].row /\ x.ask = tx[a].ask
      /\ x.makes = tx[a].makes /\ x.cleared = tx[a].cleared /\ x.held = tx[a].held
  <2>1. Others(tx[a]) \subseteq Template
    BY DEF Others, TemplatesTypeOK
  <2> QED  BY <2>1, <1>2 DEF OpenTx
<1>4. tx' = [tx EXCEPT ![a] = x]
  BY <1>1, <1>2 DEF ClearBegins, TemplatesTypeOK
<1> HIDE DEF x
<1>5. x # Closed
  BY <1>3, ClosedIsNoTx
<1>6. \A b \in Admin : tx'[b] = IF b = a THEN x ELSE tx[b]
  BY <1>4 DEF TemplatesTypeOK
<1>7. \A b \in Admin : Open(b)' <=> Open(b)
  BY <1>1, <1>5, <1>6 DEF Open
<1>8. \A b \in Admin : /\ tx'[b].op = tx[b].op /\ tx'[b].id = tx[b].id
                       /\ tx'[b].row = tx[b].row /\ tx'[b].ask = tx[b].ask
                       /\ tx'[b].makes = tx[b].makes /\ tx'[b].cleared = tx[b].cleared
                       /\ tx'[b].held = tx[b].held
  BY <1>3, <1>6
<1>9. \A b \in Admin : Others(tx[b])' = Others(tx[b])
  BY <1>1, <1>8 DEF Others
<1>10. \A b, c \in Admin : Rivals(b, c)' <=> Rivals(b, c)
  BY <1>7, <1>8 DEF Rivals
<1>11. TemplatesTypeOK'
  BY <1>1, <1>3, <1>4 DEF TemplatesTypeOK
<1>12. HistoryMatches' /\ \A t \in Template \ DOMAIN templates' : history'[t] = <<>>
  BY <1>1 DEF HistoryMatches
<1>13. LocksExclusive' /\ ReadsStand' /\ CreatesApart'
  <2>1. LocksExclusive'
    BY <1>7, <1>8 DEF LocksExclusive
  <2>2. ReadsStand'
    BY <1>1, <1>7, <1>8 DEF ReadsStand
  <2>3. CreatesApart'
    BY <1>7, <1>8 DEF CreatesApart
  <2> QED  BY <2>1, <2>2, <2>3
<1>14. ClearsOthers'
  <2> SUFFICES ASSUME NEW b \in Admin, Open(b)
               PROVE  /\ tx'[b].at = "clear" => tx'[b].makes
                      /\ tx'[b].clearing \cup tx'[b].cleared \subseteq Others(tx[b])'
                      /\ tx'[b].cleared \subseteq tx'[b].held
                      /\ ~ tx'[b].makes \/ tx'[b].at = "clear" =>
                           tx'[b].clearing \cup tx'[b].cleared = {}
    BY <1>7 DEF ClearsOthers
  <2>1. CASE b = a
    BY <2>1, <1>1, <1>3, <1>6, <1>9 DEF ClearsOthers
  <2>2. CASE b # a
    BY <2>2, <1>6, <1>9 DEF ClearsOthers
  <2> QED  BY <2>1, <2>2
<1>15. OverlapMarked'
  BY <1>1, <1>8, <1>10 DEF OverlapMarked
<1>16. NewerUnflagged'
  <2> SUFFICES ASSUME NEW b \in Admin, Open(b), tx[b].makes, tx'[b].at = "save",
                      b \notin overlap,
                      NEW t \in Others(tx[b]) \ (tx'[b].clearing \cup tx'[b].cleared)
               PROVE  ~ templates[t].default
    BY <1>1, <1>7, <1>8, <1>9 DEF NewerUnflagged
  <2>1. b # a
    BY <1>3, <1>6
  <2> QED  BY <2>1, <1>6 DEF NewerUnflagged
<1>17. NewerWaits'
  <2> SUFFICES ASSUME NEW b \in Admin, NEW c \in Admin, Rivals(b, c),
                      tx[b].op = "update", tx[c].op = "update",
                      tx'[b].at = "save", tx[c].id \notin tx'[b].clearing \cup tx'[b].cleared
               PROVE  tx'[c].at = "clear" \/ tx[b].id \in tx'[c].clearing
    BY <1>8, <1>10 DEF NewerWaits
  <2>1. b # a
    BY <1>3, <1>6, RivalIsOther
  <2>2. CASE c = a
    <3>1. Rivals(c, b)
      BY DEF Rivals
    <3> QED  BY <3>1, <2>2, <1>3, <1>6, RivalIsOther
  <2>3. CASE c # a
    BY <2>1, <2>3, <1>6 DEF NewerWaits
  <2> QED  BY <2>2, <2>3
<1> QED  BY <1>11, <1>12, <1>13, <1>14, <1>15, <1>16, <1>17

LEMMA ClearRowStep ==
  ASSUME TemplatesIInv, NEW a \in Admin, ClearRow(a)
  PROVE  TemplatesIInv'
<1> USE DEF TemplatesIInv
<1>1. PICK r \in tx[a].clearing :
        /\ Free(a, r)
        /\ tx' = [tx EXCEPT ![a].clearing = @ \ {r},
                            ![a].cleared = @ \cup {r}, ![a].held = @ \cup {r}]
  BY DEF ClearRow
<1>2. /\ tx[a].at = "save" /\ Open(a)
      /\ templates' = templates /\ history' = history /\ overlap' = overlap
  <2>1. tx[a].at = "save"
    BY DEF ClearRow
  <2> QED  BY <2>1 DEF ClearRow, Open, Closed
<1>3. tx[a] \in OpenTx
  BY <1>2, Fields
<1> DEFINE x == [tx[a] EXCEPT !.clearing = @ \ {r}, !.cleared = @ \cup {r}, !.held = @ \cup {r}]
<1>4. /\ x \in OpenTx /\ x.at = tx[a].at
      /\ x.op = tx[a].op /\ x.id = tx[a].id /\ x.row = tx[a].row /\ x.ask = tx[a].ask
      /\ x.makes = tx[a].makes
      /\ x.clearing = tx[a].clearing \ {r} /\ x.cleared = tx[a].cleared \cup {r}
      /\ x.held = tx[a].held \cup {r}
  BY <1>3 DEF OpenTx
<1>5. tx' = [tx EXCEPT ![a] = x]
  BY <1>1, <1>3 DEF TemplatesTypeOK, OpenTx
<1> HIDE DEF x
<1>6. x # Closed
  BY <1>4, ClosedIsNoTx
<1>7. \A b \in Admin : tx'[b] = IF b = a THEN x ELSE tx[b]
  BY <1>5 DEF TemplatesTypeOK
<1>8. \A b \in Admin : Open(b)' <=> Open(b)
  BY <1>2, <1>6, <1>7 DEF Open
<1>9. \A b \in Admin : /\ tx'[b].op = tx[b].op /\ tx'[b].id = tx[b].id /\ tx'[b].at = tx[b].at
                       /\ tx'[b].row = tx[b].row /\ tx'[b].ask = tx[b].ask
                       /\ tx'[b].makes = tx[b].makes /\ tx[b].held \subseteq tx'[b].held
                       /\ tx'[b].clearing \cup tx'[b].cleared = tx[b].clearing \cup tx[b].cleared
  BY <1>4, <1>7
<1>10. \A b \in Admin : Others(tx[b])' = Others(tx[b])
  BY <1>2, <1>9 DEF Others
<1>11. \A b, c \in Admin : Rivals(b, c)' <=> Rivals(b, c)
  BY <1>8, <1>9 DEF Rivals
<1>12. TemplatesTypeOK'
  BY <1>2, <1>4, <1>5 DEF TemplatesTypeOK
<1>13. HistoryMatches' /\ \A t \in Template \ DOMAIN templates' : history'[t] = <<>>
  BY <1>2 DEF HistoryMatches
<1>14. LocksExclusive'
  <2> SUFFICES ASSUME NEW b \in Admin, NEW c \in Admin, b # c, Open(b), Open(c)
               PROVE  tx'[b].held \cap tx'[c].held = {}
    BY <1>8 DEF LocksExclusive
  <2>1. tx[b].held \cap tx[c].held = {}
    BY DEF LocksExclusive
  <2>2. \A d \in Admin : d # a /\ Open(d) => r \notin tx[d].held
    BY <1>1 DEF Free
  <2> QED  BY <2>1, <2>2, <1>4, <1>7
<1>15. ReadsStand' /\ CreatesApart'
  <2>1. ReadsStand'
    BY <1>2, <1>8, <1>9 DEF ReadsStand
  <2>2. CreatesApart'
    BY <1>8, <1>9 DEF CreatesApart
  <2> QED  BY <2>1, <2>2
<1>16. ClearsOthers'
  <2>1. tx[a].makes
    BY <1>1, <1>2 DEF ClearsOthers
  <2> SUFFICES ASSUME NEW b \in Admin, Open(b)
               PROVE  tx'[b].cleared \subseteq tx'[b].held
    BY <2>1, <1>2, <1>8, <1>9, <1>10, <1>4, <1>7 DEF ClearsOthers
  <2> QED  BY <1>4, <1>7 DEF ClearsOthers
<1>17. OverlapMarked'
  BY <1>2, <1>9, <1>11 DEF OverlapMarked
<1>18. NewerUnflagged'
  BY <1>2, <1>8, <1>9, <1>10 DEF NewerUnflagged
<1>19. NewerWaits'
  <2> SUFFICES ASSUME NEW b \in Admin, NEW c \in Admin, Rivals(b, c),
                      tx[b].op = "update", tx[c].op = "update",
                      tx[b].at = "save", tx[c].id \notin tx[b].clearing \cup tx[b].cleared
               PROVE  tx[c].at = "clear" \/ tx[b].id \in tx'[c].clearing
    BY <1>9, <1>11 DEF NewerWaits
  <2>1. tx[c].at = "clear" \/ tx[b].id \in tx[c].clearing
    BY DEF NewerWaits
  <2>2. CASE c = a
    <3>1. tx[b].id \in tx[b].held /\ b # a
      BY <2>2 DEF ReadsStand, Rivals
    <3>2. tx[b].id # r
      BY <3>1, <1>1 DEF Free, Rivals
    <3> QED  BY <2>1, <2>2, <3>2, <1>4, <1>7
  <2> QED  BY <2>1, <2>2, <1>7
<1> QED  BY <1>12, <1>13, <1>14, <1>15, <1>16, <1>17, <1>18, <1>19

(* What a commit writes: its own row, and the flags it has locked. *)
LEMMA CommitWrites ==
  ASSUME TemplatesIInv, NEW a \in Admin, Commit(a)
  PROVE  /\ Open(a) /\ tx[a] \in OpenTx /\ tx[a].at = "save" /\ tx[a].clearing = {}
         /\ tx[a].row \in Row
         /\ templates' \in [DOMAIN templates \cup {tx[a].id} -> Row]
         /\ templates'[tx[a].id] = tx[a].row
         /\ \A t \in DOMAIN templates \ {tx[a].id} :
              /\ templates'[t].client = templates[t].client
              /\ templates'[t].content = templates[t].content
              /\ templates'[t].version = templates[t].version
              /\ templates'[t].default = (templates[t].default /\ t \notin tx[a].cleared)
              /\ t \notin tx[a].cleared => templates'[t] = templates[t]
<1> USE DEF TemplatesIInv
<1> DEFINE x == tx[a]
<1>1. x.at = "save" /\ x.clearing = {} /\ Open(a)
  BY DEF Commit, Open, Closed
<1>2. x \in OpenTx /\ x.row \in Row /\ x.id \in Template
  BY <1>1, Fields
<1>3. templates' = [t \in DOMAIN templates \cup {x.id} |->
                     IF t = x.id THEN x.row
                     ELSE [templates[t] EXCEPT !.default = @ /\ t \notin x.cleared]]
  BY DEF Commit
<1>4. templates'[x.id] = x.row
  BY <1>3
<1>5. ASSUME NEW t \in DOMAIN templates \ {x.id}
      PROVE  /\ templates'[t] \in Row
             /\ templates'[t].client = templates[t].client
             /\ templates'[t].content = templates[t].content
             /\ templates'[t].version = templates[t].version
             /\ templates'[t].default = (templates[t].default /\ t \notin x.cleared)
             /\ t \notin x.cleared => templates'[t] = templates[t]
  <2> DEFINE d == templates[t].default /\ t \notin x.cleared
  <2>1. templates[t] \in Row
    BY DEF TemplatesTypeOK
  <2>2. templates'[t] = [templates[t] EXCEPT !.default = d]
    BY <1>3
  <2>3. d \in BOOLEAN /\ (t \notin x.cleared => d = templates[t].default)
    BY <2>1 DEF Row
  <2>4. d = (templates[t].default /\ t \notin x.cleared)
    OBVIOUS
  <2> HIDE DEF d
  <2>5. /\ templates'[t] \in Row
        /\ templates'[t].client = templates[t].client
        /\ templates'[t].content = templates[t].content
        /\ templates'[t].version = templates[t].version
        /\ templates'[t].default = d
    BY <2>1, <2>2, <2>3 DEF Row
  <2>6. d = templates[t].default => templates'[t] = templates[t]
    BY <2>1, <2>2 DEF Row
  <2> QED  BY <2>3, <2>4, <2>5, <2>6
<1>6. templates' \in [DOMAIN templates \cup {x.id} -> Row]
  BY <1>2, <1>3, <1>4, <1>5
<1> QED  BY <1>1, <1>2, <1>4, <1>5, <1>6

(* What the commit of a leaves of what another request b has read. *)
LEMMA CommitSpares ==
  ASSUME TemplatesIInv, NEW a \in Admin, Commit(a), NEW b \in Admin, b # a, Open(b)
  PROVE  /\ tx[b].id # tx[a].id
         /\ tx[b].op # "create" =>
              tx[b].id \in DOMAIN templates /\ templates'[tx[b].id] = templates[tx[b].id]
<1> USE DEF TemplatesIInv
<1>1. Open(a) /\ tx[a].held \cap tx[b].held = {}
  BY CommitWrites DEF LocksExclusive
<1>2. tx[b].id # tx[a].id
  BY <1>1 DEF CreatesApart, ReadsStand
<1>3. tx[b].op # "create" => tx[b].id \in DOMAIN templates /\ tx[b].id \notin tx[a].cleared
  BY <1>1 DEF ReadsStand, ClearsOthers
<1> QED  BY <1>2, <1>3, CommitWrites

(* A row keeps its client. *)
LEMMA CommitKeepsClient ==
  ASSUME TemplatesIInv, NEW a \in Admin, Commit(a), NEW t \in DOMAIN templates
  PROVE  templates'[t].client = templates[t].client
<1> USE DEF TemplatesIInv
<1>1. CASE t # tx[a].id
  BY <1>1, CommitWrites
<1>2. CASE t = tx[a].id
  <2>1. templates[t] \in Row
    BY DEF TemplatesTypeOK
  <2>2. tx[a].row = Edited(templates[t], tx[a].ask) \/ tx[a].row = NextVersion(templates[t])
    BY <1>2, CommitWrites, Fields DEF ReadsStand
  <2>3. tx[a].row.client = templates[t].client
    BY <2>1, <2>2 DEF Edited, NextVersion, Row
  <2> QED  BY <1>2, <2>3, CommitWrites
<1> QED  BY <1>1, <1>2

(* The end of a transaction leaves the others alone. *)
LEMMA EndsShape ==
  ASSUME TemplatesTypeOK, NEW a \in Admin, Ends(a)
  PROVE  /\ tx' \in [Admin -> {Closed} \cup OpenTx] /\ overlap' \subseteq Admin
         /\ \A b \in Admin : b # a => tx'[b] = tx[b] /\ (b \in overlap' <=> b \in overlap)
         /\ \A b \in Admin : Open(b)' <=> b # a /\ Open(b)
BY DEF Ends, Open, TemplatesTypeOK

LEMMA CommitHistory ==
  ASSUME TemplatesIInv, NEW a \in Admin, Commit(a)
  PROVE  /\ HistoryMatches'
         /\ \A t \in Template \ DOMAIN templates' : history'[t] = <<>>
         /\ DOMAIN history' = Template
         /\ \A t \in Template : /\ DOMAIN history'[t] \subseteq 1..MaxVersion
                                /\ history'[t] \in [DOMAIN history'[t] -> Content]
<1> USE DEF TemplatesIInv
<1> DEFINE x == tx[a]
           entry == [v \in DOMAIN history[x.id] \cup {x.row.version} |->
                       IF v = x.row.version THEN x.row.content ELSE history[x.id][v]]
<1>1. /\ x \in OpenTx /\ x.id \in Template /\ x.row \in Row /\ Open(a)
      /\ x.op \in {"create", "update", "publish"}
  BY CommitWrites, Fields
<1>2. /\ DOMAIN templates' = DOMAIN templates \cup {x.id}
      /\ templates'[x.id].version = x.row.version
      /\ \A t \in DOMAIN templates \ {x.id} : templates'[t].version = templates[t].version
  BY CommitWrites
<1>3. /\ DOMAIN history = Template
      /\ \A t \in Template : /\ DOMAIN history[t] \subseteq 1..MaxVersion
                             /\ history[t] \in [DOMAIN history[t] -> Content]
  BY DEF TemplatesTypeOK
<1>4. CASE x.op = "publish"
  <2>1. x.id \in DOMAIN templates /\ x.row = NextVersion(templates[x.id])
    BY <1>1, <1>4 DEF ReadsStand
  <2>2. templates[x.id] \in Row
    BY <2>1 DEF TemplatesTypeOK
  <2>3. /\ templates[x.id].version \in Nat
        /\ x.row.version = templates[x.id].version + 1
        /\ x.row.version \in 0..MaxVersion /\ x.row.content \in Content
    BY <1>1, <2>1, <2>2, MaxVersionAssumption DEF NextVersion, Row
  <2>4. DOMAIN history[x.id] = 1..templates[x.id].version
    BY <2>1 DEF HistoryMatches
  <2>5. history' = [history EXCEPT ![x.id] = entry]
    BY <1>4 DEF Commit
  <2>6. DOMAIN entry = 1..x.row.version
    BY <2>3, <2>4
  <2>7. entry \in [DOMAIN entry -> Content]
    BY <1>1, <1>3, <2>3
  <2>8. 1..x.row.version \subseteq 1..MaxVersion
    BY <2>3, MaxVersionAssumption
  <2> HIDE DEF entry
  <2>9. \A t \in Template : history'[t] = IF t = x.id THEN entry ELSE history[t]
    BY <2>5, <1>3
  <2>10. HistoryMatches'
    BY <1>1, <1>2, <2>6, <2>9 DEF HistoryMatches, TemplatesTypeOK
  <2> QED  BY <1>1, <1>2, <1>3, <2>5, <2>6, <2>7, <2>8, <2>9, <2>10
<1>5. CASE x.op # "publish"
  <2>1. history' = history
    BY <1>5 DEF Commit
  <2>2. DOMAIN history[x.id] = 1..x.row.version
    <3>1. CASE x.op = "create"
      <4>1. x.id \notin DOMAIN templates /\ x.row.version = 0
        BY <1>1, <3>1 DEF ReadsStand
      <4>2. history[x.id] = <<>>
        BY <1>1, <4>1
      <4>3. 1..x.row.version = {}
        BY <4>1
      <4> QED  BY <4>2, <4>3
    <3>2. CASE x.op = "update"
      <4>1. x.id \in DOMAIN templates /\ x.row = Edited(templates[x.id], x.ask)
        BY <1>1, <3>2 DEF ReadsStand
      <4>2. templates[x.id] \in Row
        BY <4>1 DEF TemplatesTypeOK
      <4>3. x.row.version = templates[x.id].version
        BY <4>1, <4>2 DEF Edited, Row
      <4> QED  BY <4>1, <4>3 DEF HistoryMatches
    <3> QED  BY <1>1, <1>5, <3>1, <3>2
  <2>3. HistoryMatches'
    BY <1>2, <2>1, <2>2 DEF HistoryMatches
  <2> QED  BY <1>2, <1>3, <2>1, <2>3
<1> QED  BY <1>4, <1>5

LEMMA CommitStep ==
  ASSUME TemplatesIInv, NEW a \in Admin, Commit(a)
  PROVE  TemplatesIInv'
<1> USE DEF TemplatesIInv
<1> DEFINE x == tx[a]
<1>1. /\ Open(a) /\ x \in OpenTx /\ x.at = "save" /\ x.clearing = {} /\ x.row \in Row
      /\ x.id \in Template /\ x.op \in {"create", "update", "publish"}
  BY CommitWrites, Fields
<1>2. Ends(a)
  BY DEF Commit
<1>3. /\ \A b \in Admin : b # a => tx'[b] = tx[b] /\ (b \in overlap' <=> b \in overlap)
      /\ \A b \in Admin : Open(b)' <=> b # a /\ Open(b)
  BY <1>2, EndsShape
<1>4. TemplatesTypeOK'
  <2>1. tx' \in [Admin -> {Closed} \cup OpenTx] /\ overlap' \subseteq Admin
    BY <1>2, EndsShape
  <2>2. templates' \in [DOMAIN templates \cup {x.id} -> Row] /\ DOMAIN templates \subseteq Template
    BY CommitWrites DEF TemplatesTypeOK
  <2> QED  BY <2>1, <2>2, <1>1, CommitHistory DEF TemplatesTypeOK
<1>5. HistoryMatches' /\ \A t \in Template \ DOMAIN templates' : history'[t] = <<>>
  BY CommitHistory
<1>6. LocksExclusive' /\ CreatesApart'
  BY <1>3 DEF LocksExclusive, CreatesApart
<1>7. DOMAIN templates' = DOMAIN templates \cup {x.id}
  BY CommitWrites
<1>8. ReadsStand'
  <2> SUFFICES ASSUME NEW b \in Admin, b # a, Open(b)
               PROVE  /\ tx[b].op = "create" =>
                           /\ tx[b].id \notin DOMAIN templates'
                           /\ tx[b].row.version = 0 /\ tx[b].makes = tx[b].row.default
                      /\ tx[b].op # "create" => tx[b].id \in DOMAIN templates' /\ tx[b].id \in tx[b].held
                      /\ tx[b].op = "update" =>
                           /\ tx[b].row = Edited(templates'[tx[b].id], tx[b].ask)
                           /\ tx[b].makes = (tx[b].ask.default = TRUE /\ ~ templates'[tx[b].id].default)
                      /\ tx[b].op = "publish" =>
                           tx[b].row = NextVersion(templates'[tx[b].id]) /\ ~ tx[b].makes
    BY <1>3 DEF ReadsStand
  <2>1. /\ tx[b].id # x.id
        /\ tx[b].op # "create" =>
             tx[b].id \in DOMAIN templates /\ templates'[tx[b].id] = templates[tx[b].id]
    BY CommitSpares
  <2> QED  BY <2>1, <1>7 DEF ReadsStand
<1>9. \A b \in Admin : b # a /\ Open(b) => Others(tx[b]) \subseteq Others(tx[b])'
  <2> SUFFICES ASSUME NEW b \in Admin, b # a, Open(b), NEW t \in Others(tx[b])
               PROVE  t \in Others(tx[b])'
    OBVIOUS
  <2>1. t \in DOMAIN templates /\ templates[t].client = tx[b].row.client /\ t # tx[b].id
    BY DEF Others
  <2>2. templates'[t].client = templates[t].client
    BY <2>1, CommitKeepsClient
  <2> QED  BY <2>1, <2>2, <1>3, <1>7 DEF Others
<1>10. ClearsOthers'
  <2> SUFFICES ASSUME NEW b \in Admin, b # a, Open(b)
               PROVE  /\ tx'[b].at = "clear" => tx'[b].makes
                      /\ tx'[b].clearing \cup tx'[b].cleared \subseteq Others(tx[b])'
                      /\ tx'[b].cleared \subseteq tx'[b].held
                      /\ ~ tx'[b].makes \/ tx'[b].at = "clear" =>
                           tx'[b].clearing \cup tx'[b].cleared = {}
    BY <1>3 DEF ClearsOthers
  <2> QED  BY <1>3, <1>9 DEF ClearsOthers
<1>11. \A b, c \in Admin : Rivals(b, c)' => b # a /\ c # a /\ Rivals(b, c)
  BY <1>3 DEF Rivals
<1>12. OverlapMarked'
  BY <1>3, <1>11 DEF OverlapMarked
<1>13. NewerUnflagged'
  <2> SUFFICES ASSUME NEW b \in Admin, b # a, Open(b), tx[b].makes, tx[b].at = "save",
                      b \notin overlap, NEW t \in DOMAIN templates',
                      templates'[t].client = tx[b].row.client, t # tx[b].id,
                      t \notin tx[b].clearing \cup tx[b].cleared
               PROVE  ~ templates'[t].default
    BY <1>3 DEF NewerUnflagged, Others
  <2>1. t \in DOMAIN templates => ~ templates[t].default
    <3> SUFFICES ASSUME t \in DOMAIN templates  PROVE ~ templates[t].default
      OBVIOUS
    <3>1. t \in Others(tx[b])
      BY CommitKeepsClient DEF Others
    <3> QED  BY <3>1 DEF NewerUnflagged
  <2>2. CASE t # x.id
    <3>1. t \in DOMAIN templates \ {x.id}
      BY <2>2, <1>7
    <3>2. templates'[t].default = (templates[t].default /\ t \notin x.cleared)
      BY <3>1, CommitWrites
    <3> QED  BY <3>1, <3>2, <2>1
  <2>3. CASE t = x.id
    <3>1. templates'[t] = x.row
      BY <2>3, CommitWrites
    <3> SUFFICES ASSUME x.row.default = TRUE  PROVE FALSE
      BY <3>1, <1>1 DEF Row
    <3>2. x.makes
      <4>1. CASE x.op = "create"
        BY <4>1, <1>1 DEF ReadsStand
      <4>2. CASE x.op = "update"
        <5>1. x.row = Edited(templates[t], x.ask) /\ t \in DOMAIN templates
          BY <1>1, <2>3, <4>2 DEF ReadsStand
        <5>2. templates[t] \in Row
          BY <5>1 DEF TemplatesTypeOK
        <5>3. x.row.default = IF x.ask.default = Keep THEN templates[t].default ELSE x.ask.default
          BY <5>1, <5>2 DEF Edited, Row
        <5>4. x.ask.default = TRUE
          BY <5>1, <5>3, <2>1
        <5> QED  BY <1>1, <2>1, <2>3, <4>2, <5>1, <5>4 DEF ReadsStand
      <4>3. CASE x.op = "publish"
        <5>1. x.row = NextVersion(templates[t]) /\ t \in DOMAIN templates
          BY <1>1, <2>3, <4>3 DEF ReadsStand
        <5>2. templates[t] \in Row
          BY <5>1 DEF TemplatesTypeOK
        <5>3. x.row.default = templates[t].default
          BY <5>1, <5>2 DEF NextVersion, Row
        <5> QED  BY <5>1, <5>3, <2>1
      <4> QED  BY <1>1, <4>1, <4>2, <4>3
    <3>3. Rivals(b, a)
      BY <1>1, <3>1, <3>2 DEF Rivals
    <3>4. x.op = "update" /\ tx[b].op = "update"
      BY <3>2, <3>3, <1>1, Fields DEF OverlapMarked, ReadsStand
    <3>5. x.at = "clear" \/ tx[b].id \in x.clearing
      BY <3>3, <3>4, <2>3 DEF NewerWaits
    <3> QED  BY <3>5, <1>1
  <2> QED  BY <2>2, <2>3
<1>14. NewerWaits'
  BY <1>3, <1>11 DEF NewerWaits
<1> QED  BY <1>4, <1>5, <1>6, <1>8, <1>10, <1>12, <1>13, <1>14

LEMMA RollbackStep ==
  ASSUME TemplatesIInv, NEW a \in Admin, Rollback(a)
  PROVE  TemplatesIInv'
<1> USE DEF TemplatesIInv
<1>1. Ends(a) /\ templates' = templates /\ history' = history
  BY DEF Rollback
<1>2. /\ \A b \in Admin : b # a => tx'[b] = tx[b] /\ (b \in overlap' <=> b \in overlap)
      /\ \A b \in Admin : Open(b)' <=> b # a /\ Open(b)
      /\ tx' \in [Admin -> {Closed} \cup OpenTx] /\ overlap' \subseteq Admin
  BY <1>1, EndsShape
<1>3. \A b \in Admin : b # a => Others(tx[b])' = Others(tx[b])
  BY <1>1, <1>2 DEF Others
<1>4. \A b, c \in Admin : Rivals(b, c)' => b # a /\ c # a /\ Rivals(b, c)
  BY <1>2 DEF Rivals
<1>5. TemplatesTypeOK'
  BY <1>1, <1>2 DEF TemplatesTypeOK
<1>6. HistoryMatches' /\ \A t \in Template \ DOMAIN templates' : history'[t] = <<>>
  BY <1>1 DEF HistoryMatches
<1>7. LocksExclusive' /\ CreatesApart'
  BY <1>2 DEF LocksExclusive, CreatesApart
<1>8. ReadsStand'
  BY <1>1, <1>2 DEF ReadsStand
<1>9. ClearsOthers'
  BY <1>2, <1>3 DEF ClearsOthers
<1>10. OverlapMarked'
  BY <1>2, <1>4 DEF OverlapMarked
<1>11. NewerUnflagged'
  BY <1>1, <1>2, <1>3 DEF NewerUnflagged
<1>12. NewerWaits'
  BY <1>2, <1>4 DEF NewerWaits
<1> QED  BY <1>5, <1>6, <1>7, <1>8, <1>9, <1>10, <1>11, <1>12

LEMMA SeedStep ==
  ASSUME TemplatesIInv, SeedTemplates
  PROVE  TemplatesIInv'
<1> USE DEF TemplatesIInv
<1>1. PICK t \in Template, u \in Template, c \in Client, d \in Client, y \in Content, z \in Content :
        LET new == [i \in {t, u} |-> IF i = t THEN y ELSE z]
        IN  /\ t # u /\ c # d
            /\ \A a \in Admin : tx[a] # Closed => tx[a].id \notin {t, u}
            /\ templates' = [i \in {t, u} |->
                 [client |-> IF i = t THEN c ELSE d, content |-> new[i],
                  default |-> TRUE, version |-> 1]]
            /\ history' = [i \in Template |-> IF i \in {t, u} THEN <<new[i]>> ELSE <<>>]
            /\ overlap' = overlap \cup {a \in Admin : /\ tx[a] # Closed /\ tx[a].makes
                                                      /\ tx[a].row.client \in {c, d}}
  BY DEF SeedTemplates
<1> DEFINE new == [i \in {t, u} |-> IF i = t THEN y ELSE z]
<1>2. /\ DOMAIN templates = {} /\ tx' = tx
      /\ \A a \in Admin : Open(a)' <=> Open(a)
  BY DEF SeedTemplates, Open
<1>3. /\ DOMAIN templates' = {t, u}
      /\ \A i \in {t, u} : /\ templates'[i].client \in {c, d}
                           /\ templates'[i].version = 1
                           /\ templates'[i] \in Row
  <2>1. templates' = [i \in {t, u} |->
                       [client |-> IF i = t THEN c ELSE d, content |-> new[i],
                        default |-> TRUE, version |-> 1]]
    BY <1>1
  <2>2. 1 \in 0..MaxVersion /\ \A i \in {t, u} : new[i] \in Content
    BY MaxVersionAssumption
  <2> HIDE DEF new
  <2> QED  BY <2>1, <2>2 DEF Row
<1>4. \A a \in Admin : Open(a) => tx[a].op = "create" /\ tx[a].id \notin {t, u}
                                  /\ tx[a].clearing \cup tx[a].cleared = {}
  BY <1>1, <1>2, Fields DEF Open, ReadsStand, ClearsOthers, Others
<1>5. /\ overlap \subseteq overlap' /\ overlap' \subseteq Admin
      /\ \A a \in Admin : Open(a) /\ tx[a].makes /\ tx[a].row.client \in {c, d} => a \in overlap'
  BY <1>1 DEF Open, TemplatesTypeOK
<1>6. /\ DOMAIN history' = Template
      /\ \A i \in Template : /\ DOMAIN history'[i] = IF i \in {t, u} THEN 1..1 ELSE {}
                             /\ history'[i] \in [DOMAIN history'[i] -> Content]
                             /\ i \notin {t, u} => history'[i] = <<>>
  <2>1. history' = [i \in Template |-> IF i \in {t, u} THEN <<new[i]>> ELSE <<>>]
    BY <1>1
  <2>2. \A i \in {t, u} : new[i] \in Content
    OBVIOUS
  <2> HIDE DEF new
  <2>3. \A i \in {t, u} : DOMAIN <<new[i]>> = 1..1 /\ <<new[i]>> \in [1..1 -> Content]
    BY <2>2
  <2>4. DOMAIN <<>> = {} /\ <<>> \in [{} -> Content]
    OBVIOUS
  <2> QED  BY <2>1, <2>3, <2>4
<1>7. TemplatesTypeOK'
  <2>1. templates' \in [DOMAIN templates' -> Row] /\ DOMAIN templates' \subseteq Template
    BY <1>1, <1>3
  <2>2. \A i \in Template : DOMAIN history'[i] \subseteq 1..MaxVersion
    BY <1>6, MaxVersionAssumption
  <2> QED  BY <2>1, <2>2, <1>2, <1>5, <1>6 DEF TemplatesTypeOK
<1>8. HistoryMatches' /\ \A i \in Template \ DOMAIN templates' : history'[i] = <<>>
  BY <1>3, <1>6 DEF HistoryMatches
<1>9. LocksExclusive' /\ CreatesApart'
  BY <1>2 DEF LocksExclusive, CreatesApart
<1>10. ReadsStand'
  BY <1>2, <1>3, <1>4 DEF ReadsStand
<1>11. ClearsOthers'
  BY <1>2, <1>4 DEF ClearsOthers
<1>12. OverlapMarked'
  BY <1>2, <1>5 DEF OverlapMarked, Rivals
<1>13. NewerUnflagged'
  BY <1>2, <1>3, <1>5 DEF NewerUnflagged, Others
<1>14. NewerWaits'
  BY <1>2 DEF NewerWaits, Rivals
<1> QED  BY <1>7, <1>8, <1>9, <1>10, <1>11, <1>12, <1>13, <1>14

(* Every step of the templates preserves the invariant. *)
LEMMA TemplatesStep ==
  ASSUME TemplatesIInv, [TemplatesNext]_templateVars
  PROVE  TemplatesIInv'
<1>1. CASE SeedTemplates
  BY <1>1, SeedStep
<1>2. ASSUME NEW a \in Admin, AdminStep(a)  PROVE TemplatesIInv'
  BY <1>2, StepShape, BeginStep, ClearBeginsStep, ClearRowStep, CommitStep, RollbackStep
     DEF TemplatesIInv
<1>3. CASE UNCHANGED templateVars
  BY <1>3 DEF templateVars, TemplatesIInv, TemplatesTypeOK, HistoryMatches, LocksExclusive,
              ReadsStand, ClearsOthers, CreatesApart, OverlapMarked, NewerUnflagged,
              NewerWaits, Rivals, Others, Open
<1> QED  BY <1>1, <1>2, <1>3 DEF TemplatesNext

LEMMA TemplatesStart == TemplatesInit => TemplatesIInv
<1> SUFFICES ASSUME TemplatesInit  PROVE TemplatesIInv
  OBVIOUS
<1>1. DOMAIN templates = {} /\ templates \in [DOMAIN templates -> Row]
  BY DEF TemplatesInit
<1>2. /\ DOMAIN history = Template
      /\ \A t \in Template : history[t] = <<>> /\ DOMAIN history[t] = {}
                             /\ history[t] \in [DOMAIN history[t] -> Content]
  BY DEF TemplatesInit
<1>3. tx \in [Admin -> {Closed} \cup OpenTx] /\ overlap \subseteq Admin
      /\ \A a \in Admin : ~ Open(a)
  BY DEF TemplatesInit, Open
<1> QED
  BY <1>1, <1>2, <1>3 DEF TemplatesIInv, TemplatesTypeOK, HistoryMatches, LocksExclusive,
     ReadsStand, ClearsOthers, CreatesApart, OverlapMarked, NewerUnflagged, NewerWaits, Rivals

-----------------------------------------------------------------------------
(* The inductive invariant of the template transactions: locks are         *)
(* exclusive, what is read under them stands, and two requests that switch *)
(* a client's default wait for each other.                                 *)
THEOREM TemplatesInvariant == TemplatesSpec => []TemplatesIInv
<1>1. TemplatesInit => TemplatesIInv
  BY TemplatesStart
<1>2. TemplatesIInv /\ [TemplatesNext]_templateVars => TemplatesIInv'
  BY TemplatesStep
<1> QED  BY <1>1, <1>2, PTL DEF TemplatesSpec

(* The history of every template holds each version up to its current one, *)
(* whatever updates and publications overlap.                              *)
THEOREM HistoryAlwaysMatches == TemplatesSpec => []HistoryMatches
<1>1. TemplatesIInv => HistoryMatches
  BY DEF TemplatesIInv
<1> QED  BY <1>1, TemplatesInvariant, PTL

-----------------------------------------------------------------------------
(* What a step changes, a commit changes. *)

LEMMA ChangesAreCommits ==
  ASSUME TemplatesIInv, TemplatesNext, NEW t \in DOMAIN templates,
         templates' # templates \/ history' # history
  PROVE  \E a \in Admin : Commit(a)
<1>1. ~ SeedTemplates
  BY DEF SeedTemplates
<1>2. PICK a \in Admin : AdminStep(a)
  BY <1>1 DEF TemplatesNext
<1>3. (\E x : Begins(a, x)) \/ ClearBegins(a) \/ ClearRow(a) \/ Commit(a) \/ Rollback(a)
  BY <1>2, StepShape DEF TemplatesIInv
<1> QED  BY <1>3 DEF Begins, Begin, ClearBegins, ClearRow, Rollback

LEMMA OnlyItCommits ==
  ASSUME TemplatesIInv, [TemplatesNext]_templateVars, NEW a \in Admin, Commits(a)
  PROVE  Commit(a)
<1>1. Open(a) /\ tx'[a] = Closed /\ templates' # templates
  BY DEF Commits
<1>2. ~ SeedTemplates
  BY <1>1 DEF SeedTemplates, Open
<1>3. PICK b \in Admin : AdminStep(b)
  BY <1>1, <1>2 DEF TemplatesNext, templateVars
<1>4. Commit(b)
  BY <1>1, <1>3, StepShape
     DEF TemplatesIInv, Begins, Begin, ClearBegins, ClearRow, Rollback
<1>5. b = a
  BY <1>1, <1>4, EndsShape DEF TemplatesIInv, Commit, Open
<1> QED  BY <1>4, <1>5

LEMMA CommitCommits ==
  ASSUME TemplatesIInv, NEW a \in Admin, Commit(a), templates' # templates
  PROVE  Commits(a)
<1>1. Open(a) /\ tx \in [Admin -> {Closed} \cup OpenTx]
  BY CommitWrites DEF TemplatesIInv, TemplatesTypeOK
<1> QED  BY <1>1 DEF Commits, Commit, Ends

(* A commit leaves what it makes the default as the only default of its    *)
(* client, unless a creation overlapped.                                   *)
LEMMA SoleAtCommit ==
  ASSUME TemplatesIInv, NEW a \in Admin, Commit(a), tx[a].makes, a \notin overlap
  PROVE  {t \in DOMAIN templates' : /\ templates'[t].default
                                    /\ templates'[t].client = tx[a].row.client} = {tx[a].id}
<1> DEFINE x == tx[a]
<1>1. /\ Open(a) /\ x.at = "save" /\ x.clearing = {} /\ x.row \in Row
      /\ x.op \in {"create", "update", "publish"}
      /\ DOMAIN templates' = DOMAIN templates \cup {x.id} /\ templates'[x.id] = x.row
  BY CommitWrites, Fields DEF TemplatesIInv
<1>2. x.row.default
  <2>1. CASE x.op = "create"
    BY <1>1, <2>1 DEF TemplatesIInv, ReadsStand
  <2>2. CASE x.op = "update"
    <3>1. /\ x.id \in DOMAIN templates /\ x.row = Edited(templates[x.id], x.ask)
          /\ x.makes = (x.ask.default = TRUE /\ ~ templates[x.id].default)
      BY <1>1, <2>2 DEF TemplatesIInv, ReadsStand
    <3>2. templates[x.id] \in Row
      BY <3>1 DEF TemplatesIInv, TemplatesTypeOK
    <3>3. x.ask.default = TRUE
      BY <3>1
    <3>4. x.row.default = IF x.ask.default = Keep THEN templates[x.id].default ELSE x.ask.default
      BY <3>1, <3>2 DEF Edited, Row
    <3> QED  BY <3>3, <3>4, KeepAssumption
  <2>3. x.op # "publish"
    BY <1>1 DEF TemplatesIInv, ReadsStand
  <2> QED  BY <1>1, <2>1, <2>2, <2>3
<1>3. ASSUME NEW t \in DOMAIN templates \ {x.id}, templates'[t].client = x.row.client
      PROVE  ~ templates'[t].default
  <2>1. t \in Others(x)
    BY <1>3, CommitWrites DEF Others
  <2>2. templates'[t].default = (templates[t].default /\ t \notin x.cleared)
    BY CommitWrites
  <2>3. t \notin x.cleared => ~ templates[t].default
    BY <1>1, <2>1 DEF TemplatesIInv, NewerUnflagged
  <2> QED  BY <2>2, <2>3
<1> QED  BY <1>1, <1>2, <1>3

(* A request that makes a template the default leaves it the only one of   *)
(* its client, unless the creation of a default overlapped it.             *)
THEOREM DefaultIsSole == TemplatesSpec => SoleDefault
<1>1. TemplatesIInv /\ [TemplatesNext]_templateVars =>
        [\A a \in Admin :
           Commits(a) /\ tx[a].makes /\ a \notin overlap =>
             {t \in DOMAIN templates' : /\ templates'[t].default
                                        /\ templates'[t].client = tx[a].row.client}
               = {tx[a].id}]_templateVars
  <2> SUFFICES ASSUME TemplatesIInv, [TemplatesNext]_templateVars,
                      NEW a \in Admin, Commits(a), tx[a].makes, a \notin overlap
               PROVE  {t \in DOMAIN templates' : /\ templates'[t].default
                                                 /\ templates'[t].client = tx[a].row.client}
                        = {tx[a].id}
    OBVIOUS
  <2> QED  BY OnlyItCommits, SoleAtCommit
<1> QED  BY <1>1, TemplatesInvariant, PTL DEF TemplatesSpec, SoleDefault

LEMMA PublishedAtCommit ==
  ASSUME TemplatesIInv, NEW a \in Admin, Commit(a), NEW t \in DOMAIN templates
  PROVE  /\ DOMAIN history[t] \subseteq DOMAIN history'[t]
         /\ \A v \in DOMAIN history'[t] :
              history'[t][v] = IF v \in DOMAIN history[t] THEN history[t][v]
                               ELSE templates[t].content
<1> DEFINE x == tx[a]
           entry == [v \in DOMAIN history[x.id] \cup {x.row.version} |->
                       IF v = x.row.version THEN x.row.content ELSE history[x.id][v]]
<1>1. CASE x.op = "publish" /\ t = x.id
  <2>1. /\ x.row.version \notin DOMAIN history[t]
        /\ history' = [history EXCEPT ![x.id] = entry]
    BY <1>1 DEF Commit
  <2>2. history'[t] = entry
    BY <1>1, <2>1 DEF TemplatesIInv, TemplatesTypeOK
  <2>3. x.row = NextVersion(templates[t]) /\ templates[t] \in Row
    BY <1>1, CommitWrites DEF TemplatesIInv, TemplatesTypeOK, ReadsStand
  <2>4. x.row.content = templates[t].content
    BY <2>3 DEF NextVersion, Row
  <2> QED  BY <1>1, <2>1, <2>2, <2>4
<1>2. CASE ~ (x.op = "publish" /\ t = x.id)
  <2>1. history'[t] = history[t]
    BY <1>2 DEF Commit, TemplatesIInv, TemplatesTypeOK
  <2> QED  BY <2>1
<1> QED  BY <1>1, <1>2

(* What is published is the newest draft anybody saved, and the history is *)
(* never rewritten.                                                        *)
THEOREM DraftIsPublished == TemplatesSpec => PublishesDraft
<1> DEFINE Kept(t) ==
      /\ DOMAIN history[t] \subseteq DOMAIN history'[t]
      /\ \A v \in DOMAIN history'[t] :
           history'[t][v] = IF v \in DOMAIN history[t] THEN history[t][v]
                            ELSE templates[t].content
<1>1. TemplatesIInv /\ [TemplatesNext]_templateVars =>
        [\A t \in DOMAIN templates : Kept(t)]_templateVars
  <2> SUFFICES ASSUME TemplatesIInv, TemplatesNext, NEW t \in DOMAIN templates
               PROVE  Kept(t)
    BY DEF templateVars
  <2>1. CASE history' = history
    BY <2>1
  <2>2. CASE history' # history
    BY <2>2, ChangesAreCommits, PublishedAtCommit
  <2> QED  BY <2>1, <2>2
<1> QED  BY <1>1, TemplatesInvariant, PTL DEF TemplatesSpec, PublishesDraft

(* A commit changes its own row as its request asks and resets flags of    *)
(* the client's other rows when it makes a default.                        *)
LEMMA AskedAtCommit ==
  ASSUME TemplatesIInv, NEW a \in Admin, Commit(a), NEW t \in DOMAIN templates
  PROVE  /\ templates[t].content # templates'[t].content =>
              tx[a].id = t /\ tx[a].ask.content = templates'[t].content
         /\ templates[t].default # templates'[t].default =>
              \/ tx[a].id = t /\ tx[a].ask.default = templates'[t].default
              \/ /\ ~ templates'[t].default /\ tx[a].makes
                 /\ tx[a].id # t /\ tx[a].row.client = templates[t].client
<1> DEFINE x == tx[a]
<1>1. Open(a) /\ templates[t] \in Row /\ x.op \in {"create", "update", "publish"}
  BY CommitWrites, Fields DEF TemplatesIInv, TemplatesTypeOK
<1>2. CASE t = x.id
  <2>1. templates'[t] = x.row /\ x.op # "create"
    BY <1>1, <1>2, CommitWrites DEF TemplatesIInv, ReadsStand
  <2>2. CASE x.op = "update"
    <3>1. x.row = Edited(templates[t], x.ask)
      BY <1>1, <1>2, <2>2 DEF TemplatesIInv, ReadsStand
    <3>2. /\ x.row.content = IF x.ask.content = Keep THEN templates[t].content ELSE x.ask.content
          /\ x.row.default = IF x.ask.default = Keep THEN templates[t].default ELSE x.ask.default
      BY <1>1, <3>1 DEF Edited, Row
    <3> QED  BY <1>2, <2>1, <3>2
  <2>3. CASE x.op = "publish"
    <3>1. x.row = NextVersion(templates[t])
      BY <1>1, <1>2, <2>3 DEF TemplatesIInv, ReadsStand
    <3>2. x.row.content = templates[t].content /\ x.row.default = templates[t].default
      BY <1>1, <3>1 DEF NextVersion, Row
    <3> QED  BY <2>1, <3>2
  <2> QED  BY <1>1, <2>1, <2>2, <2>3
<1>3. CASE t # x.id
  <2>1. /\ templates'[t].content = templates[t].content
        /\ templates'[t].default = (templates[t].default /\ t \notin x.cleared)
    BY <1>3, CommitWrites
  <2>2. templates[t].default \in BOOLEAN
    BY <1>1 DEF Row
  <2>3. t \in x.cleared => t \in Others(x) /\ x.makes
    BY <1>1 DEF TemplatesIInv, ClearsOthers
  <2> QED  BY <1>3, <2>1, <2>2, <2>3 DEF Others
<1> QED  BY <1>2, <1>3

(* An edit is undone only by a request that asks for it, or that makes     *)
(* another template of the client the default.                             *)
THEOREM ChangesAreAsked == TemplatesSpec => OnlyAsked
<1> DEFINE Asked(t) ==
      LET old == templates[t]
          new == templates'[t]
      IN  /\ old.content # new.content =>
               \E a \in Admin : Commits(a) /\ tx[a].id = t /\ tx[a].ask.content = new.content
          /\ old.default # new.default =>
               \E a \in Admin :
                 /\ Commits(a)
                 /\ \/ tx[a].id = t /\ tx[a].ask.default = new.default
                    \/ /\ ~ new.default /\ tx[a].makes
                       /\ tx[a].id # t /\ tx[a].row.client = old.client
<1>1. TemplatesIInv /\ [TemplatesNext]_templateVars =>
        [\A t \in DOMAIN templates : Asked(t)]_templateVars
  <2> SUFFICES ASSUME TemplatesIInv, TemplatesNext, NEW t \in DOMAIN templates
               PROVE  Asked(t)
    BY DEF templateVars
  <2>1. CASE templates' = templates
    BY <2>1
  <2>2. CASE templates' # templates
    <3>1. PICK a \in Admin : Commit(a)
      BY <2>2, ChangesAreCommits
    <3>2. Commits(a)
      BY <2>2, <3>1, CommitCommits
    <3> QED  BY <3>1, <3>2, AskedAtCommit
  <2> QED  BY <2>1, <2>2
<1> QED  BY <1>1, TemplatesInvariant, PTL DEF TemplatesSpec, OnlyAsked

-----------------------------------------------------------------------------
(* The subscriptions. *)

(* Where there is a selection, it is one of what is available, which is    *)
(* there: neither the selection of a template nor a preview looks again.   *)
SelectionStands ==
  \A s \in DOMAIN subs :
    subs[s].template \in subs[s].available /\ subs[s].available \subseteq DOMAIN templates

SubsIInv == TemplatesIInv /\ TypeOK /\ SelectionStands /\ ServedAllowed

(* Templates are never deleted. *)
LEMMA TemplatesStay ==
  ASSUME TemplatesIInv, [TemplatesNext]_templateVars
  PROVE  DOMAIN templates \subseteq DOMAIN templates'
<1>1. CASE SeedTemplates
  BY <1>1 DEF SeedTemplates
<1>2. ASSUME NEW a \in Admin, AdminStep(a)  PROVE DOMAIN templates \subseteq DOMAIN templates'
  BY <1>2, StepShape, CommitWrites
     DEF TemplatesIInv, Begins, Begin, ClearBegins, ClearRow, Rollback
<1> QED  BY <1>1, <1>2 DEF TemplatesNext, templateVars

LEMMA UserStepSafe ==
  ASSUME SubsIInv, NEW s \in DOMAIN subs, UserStep(s)
  PROVE  DOMAIN subs' = DOMAIN subs /\ TypeOK' /\ SelectionStands' /\ ServedAllowed'
<1> USE DEF SubsIInv
<1>1. TemplatesTypeOK' <=> TemplatesTypeOK
  BY DEF UserStep, UpdateTemplate, PreviewRead, PreviewRender, templateVars, TemplatesTypeOK
<1>2. ASSUME UpdateTemplate(s)
      PROVE  DOMAIN subs' = DOMAIN subs /\ TypeOK' /\ SelectionStands' /\ ServedAllowed'
  <2>1. PICK t \in DOMAIN templates :
          /\ subs[s].available # {} => t \in subs[s].available
          /\ subs' = [subs EXCEPT ![s].template = t]
          /\ UNCHANGED <<preview, templateVars>>
    BY <1>2 DEF UpdateTemplate
  <2>2. t \in subs[s].available /\ t \in Template
    BY <2>1 DEF SelectionStands, TypeOK, TemplatesTypeOK
  <2>3. \A i \in DOMAIN subs : subs[i] \in [template : Template, available : SUBSET Template]
    BY DEF TypeOK
  <2>4. /\ DOMAIN subs' = DOMAIN subs
        /\ \A i \in DOMAIN subs :
             /\ subs'[i].template = IF i = s THEN t ELSE subs[i].template
             /\ subs'[i].available = subs[i].available
             /\ subs'[i] \in [template : Template, available : SUBSET Template]
    BY <2>1, <2>2, <2>3
  <2>5. subs' \in [DOMAIN subs' -> [template : Template, available : SUBSET Template]]
    BY <2>1, <2>4
  <2>6. TypeOK'
    BY <1>1, <2>1, <2>4, <2>5 DEF TypeOK
  <2>7. SelectionStands'
    BY <2>1, <2>2, <2>4 DEF SelectionStands, templateVars
  <2>8. ServedAllowed'
    BY <2>1, <2>4 DEF ServedAllowed, templateVars, TypeOK
  <2> QED  BY <2>4, <2>6, <2>7, <2>8
<1>3. ASSUME PreviewRead(s)
      PROVE  DOMAIN subs' = DOMAIN subs /\ TypeOK' /\ SelectionStands' /\ ServedAllowed'
  <2>1. PICK t \in Template :
          /\ IsTemplateAllowed(subs[s], t)
          /\ preview' = [i \in DOMAIN preview \cup {s} |-> IF i = s THEN t ELSE preview[i]]
          /\ UNCHANGED <<subs, templateVars>>
    BY <1>3 DEF PreviewRead
  <2>2. t \in subs[s].available \cap DOMAIN templates
    BY <2>1 DEF IsTemplateAllowed, SelectionStands
  <2>3. TypeOK'
    BY <1>1, <2>1 DEF TypeOK
  <2>4. SelectionStands' /\ ServedAllowed'
    BY <2>1, <2>2 DEF SelectionStands, ServedAllowed, templateVars
  <2> QED  BY <2>1, <2>3, <2>4
<1>4. ASSUME PreviewRender(s)
      PROVE  DOMAIN subs' = DOMAIN subs /\ TypeOK' /\ SelectionStands' /\ ServedAllowed'
  BY <1>1, <1>4 DEF PreviewRender, TypeOK, SelectionStands, ServedAllowed, templateVars
<1> QED  BY <1>2, <1>3, <1>4 DEF UserStep

LEMMA SubsStep ==
  ASSUME SubsIInv, [Next]_vars
  PROVE  SubsIInv' /\ [TemplatesNext]_templateVars
<1> USE DEF SubsIInv
<1>1. CASE TemplatesNext /\ UNCHANGED subVars
  <2>1. TemplatesIInv' /\ DOMAIN templates \subseteq DOMAIN templates'
    BY <1>1, TemplatesStep, TemplatesStay
  <2>2. TypeOK'
    BY <1>1, <2>1 DEF TypeOK, TemplatesIInv, subVars
  <2>3. SelectionStands' /\ ServedAllowed'
    BY <1>1, <2>1 DEF SelectionStands, ServedAllowed, subVars
  <2> QED  BY <1>1, <2>1, <2>2, <2>3
<1>2. ASSUME UNCHANGED templateVars  PROVE TemplatesIInv'
  BY <1>2, TemplatesStep DEF templateVars
<1>3. CASE SeedSubscriptions
  <2>1. UNCHANGED <<preview, templateVars>> /\ subs = <<>>
    BY <1>3 DEF SeedSubscriptions
  <2>2. PICK s \in Subscription, t \in DOMAIN templates :
          subs' = [i \in {s} |-> [template |-> t, available |-> DOMAIN templates]]
    BY <1>3 DEF SeedSubscriptions
  <2>3. TemplatesIInv' /\ DOMAIN preview = {}
    <3>1. UNCHANGED templateVars
      BY <2>1
    <3>2. DOMAIN preview = {}
      BY <2>1 DEF TypeOK
    <3> QED  BY <1>2, <3>1, <3>2
  <2>4. DOMAIN templates \subseteq Template
    BY DEF TypeOK, TemplatesTypeOK
  <2>5. TypeOK'
    BY <2>1, <2>2, <2>3, <2>4 DEF TypeOK, TemplatesIInv
  <2>6. SelectionStands' /\ ServedAllowed'
    BY <2>1, <2>2, <2>3 DEF SelectionStands, ServedAllowed, templateVars
  <2> QED  BY <2>1, <2>3, <2>5, <2>6
<1>4. ASSUME NEW s \in DOMAIN subs, UserStep(s)
      PROVE  SubsIInv' /\ [TemplatesNext]_templateVars
  <2>1. UNCHANGED templateVars
    BY <1>4 DEF UserStep, UpdateTemplate, PreviewRead, PreviewRender
  <2> QED  BY <1>2, <1>4, <2>1, UserStepSafe
<1>5. CASE UNCHANGED vars
  <2>1. UNCHANGED <<templateVars, subs, preview>>
    BY <1>5 DEF vars, subVars
  <2>2. TemplatesIInv'
    BY <1>2, <2>1
  <2>3. TypeOK' /\ SelectionStands' /\ ServedAllowed'
    BY <2>1, <2>2 DEF TypeOK, SelectionStands, ServedAllowed, templateVars, TemplatesIInv
  <2> QED  BY <2>1, <2>2, <2>3
<1> QED  BY <1>1, <1>3, <1>4, <1>5 DEF Next

(* The users' side leaves the templates to their own specification, and a  *)
(* preview only ever reads a template that is there and available to its   *)
(* subscription, although the selection may change in between.             *)
THEOREM ImplementsTemplates == Spec => TemplatesSpec /\ []SubsIInv
<1>1. Init => TemplatesInit /\ SubsIInv
  <2> SUFFICES ASSUME Init  PROVE TemplatesInit /\ SubsIInv
    OBVIOUS
  <2>1. TemplatesInit /\ TemplatesIInv
    BY TemplatesStart DEF Init
  <2>2. DOMAIN subs = {} /\ DOMAIN preview = {}
    BY DEF Init
  <2>3. TypeOK
    BY <2>1, <2>2 DEF Init, TypeOK, TemplatesIInv
  <2> QED  BY <2>1, <2>2, <2>3 DEF SubsIInv, SelectionStands, ServedAllowed
<1>2. SubsIInv /\ [Next]_vars => SubsIInv' /\ [TemplatesNext]_templateVars
  BY SubsStep
<1> QED  BY <1>1, <1>2, PTL DEF Spec, TemplatesSpec

(* Whatever a preview reads is there and available to its subscription.    *)
THEOREM ServedIsAllowed == Spec => []ServedAllowed
<1>1. SubsIInv => ServedAllowed
  BY DEF SubsIInv
<1> QED  BY <1>1, ImplementsTemplates, PTL

(* The properties of the template transactions hold of the whole.          *)
THEOREM TemplatesHold ==
  Spec => []TypeOK /\ []HistoryMatches /\ PublishesDraft /\ OnlyAsked /\ SoleDefault
<1>1. SubsIInv => TypeOK
  BY DEF SubsIInv
<1> QED
  BY <1>1, ImplementsTemplates, HistoryAlwaysMatches, DraftIsPublished, ChangesAreAsked,
     DefaultIsSole, PTL
=============================================================================
