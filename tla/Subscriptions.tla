---------------------------- MODULE Subscriptions ----------------------------
(***************************************************************************)
(* Users select the template of a subscription among those available to    *)
(* it, and preview what it renders.  A preview reads the subscription and  *)
(* then the template, with no transaction around the two.  Requests for a  *)
(* subscription of somebody else are refused and change nothing.           *)
(***************************************************************************)
EXTENDS Templates

CONSTANTS Subscription

VARIABLES
  subs,    \* by subscription: the template selected and those available
  preview  \* by subscription: the template a preview is about to read

subVars == <<subs, preview>>
vars == <<templateVars, subVars>>

TypeOK ==
  /\ TemplatesTypeOK
  /\ DOMAIN subs \subseteq Subscription
  /\ subs \in [DOMAIN subs -> [template : Template, available : SUBSET Template]]
  /\ DOMAIN preview \subseteq DOMAIN subs
  /\ preview \in [DOMAIN preview -> Template]

Init == TemplatesInit /\ subs = <<>> /\ preview = <<>>

(* Seeding fills an empty table: its subscription may use every template   *)
(* there is, and uses a default one if there is one.                       *)
SeedSubscriptions ==
  LET defaults == {t \in DOMAIN templates : templates[t].default}
  IN  /\ subs = <<>>
      /\ \E s \in Subscription, t \in DOMAIN templates :
           /\ defaults # {} => t \in defaults
           /\ subs' = [i \in {s} |-> [template |-> t, available |-> DOMAIN templates]]
      /\ UNCHANGED <<preview, templateVars>>

(* Mutation: the template is not looked up among those available. *)
UpdateTemplateAny(s) ==
  \E t \in DOMAIN templates :
    /\ subs' = [subs EXCEPT ![s].template = t]
    /\ UNCHANGED <<preview, templateVars>>

(* The subscription's row is locked from the check to the save; a list     *)
(* that is empty allows everything.                                        *)
UpdateTemplate(s) ==
  \E t \in DOMAIN templates :
    /\ subs[s].available # {} => t \in subs[s].available
    /\ subs' = [subs EXCEPT ![s].template = t]
    /\ UNCHANGED <<preview, templateVars>>

(* Here a list that is empty allows nothing but the template selected.     *)
IsTemplateAllowed(sub, t) == t = sub.template \/ t \in sub.available

PreviewRead(s) ==
  \E t \in Template :
    /\ IsTemplateAllowed(subs[s], t)
    /\ preview' = [i \in DOMAIN preview \cup {s} |-> IF i = s THEN t ELSE preview[i]]
    /\ UNCHANGED <<subs, templateVars>>

(* The row of the template, which is its draft, is rendered and answered.  *)
PreviewRender(s) ==
  /\ s \in DOMAIN preview
  /\ preview[s] \in DOMAIN templates
  /\ preview' = [i \in DOMAIN preview \ {s} |-> preview[i]]
  /\ UNCHANGED <<subs, templateVars>>

UserStep(s) == UpdateTemplate(s) \/ PreviewRead(s) \/ PreviewRender(s)

Next ==
  \/ TemplatesNext /\ UNCHANGED subVars
  \/ SeedSubscriptions
  \/ \E s \in DOMAIN subs : UserStep(s)

Spec == Init /\ [][Next]_vars

-----------------------------------------------------------------------------
(* A subscriber is only ever served a template that is there and available *)
(* to the subscription, although the selection may change during the       *)
(* preview.                                                                *)
ServedAllowed ==
  \A s \in DOMAIN preview : preview[s] \in subs[s].available \cap DOMAIN templates
=============================================================================
