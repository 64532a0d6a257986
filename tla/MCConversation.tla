--------------------------- MODULE MCConversation ---------------------------
(***************************************************************************)
(* Instances of Conversation for TLC.  The leads lA and lB are one         *)
(* person's, lC another's; a provider may choose any text as a message id, *)
(* so that telephones and message ids are drawn from the same values.      *)
(***************************************************************************)
EXTENDS Conversation, TLC

CONSTANTS r1, r2, r3, lA, lB, lC, a, b, hello, bye, k1, k2

ThreeRequests == {r1, r2, r3}
ThreeLeads == {lA, lB, lC}
Texts == {a, b}
Telephones == (lA :> a) @@ (lB :> a) @@ (lC :> b)
TwoBodies == {hello, bye}
TwoKeys == {k1, k2}

\* Two messages of one person, one of them also sent by the other.
Deliveries == {<<lA, a, hello>>, <<lA, a, bye>>, <<lB, b, hello>>, <<lC, a, hello>>}

Switched == {<<k1, "HUMAN_CONTROL">>, <<k1, "AI_ACTIVE">>, <<k2, "AI_ACTIVE">>}

EitherWay == BOOLEAN

=============================================================================
