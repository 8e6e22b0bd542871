--------------------------- MODULE MCSubscriptions ---------------------------
EXTENDS Subscriptions, TLC
MCEdit == [content : Content, default : {Keep}] \cup [content : {Keep}, default : BOOLEAN]
MCSymmetry == Permutations(Admin) \cup Permutations(Template)
                \cup Permutations(Client) \cup Permutations(Content)
=============================================================================
