------------------------------ MODULE MCService ------------------------------
(***************************************************************************)
(* Instances of Service: bodies that meet every bound of the schema on     *)
(* both sides.                                                             *)
(***************************************************************************)
EXTENDS Service

\* The defaults of the schema, for a prompt of three tokens.
DefaultBody ==
  [hosted |-> TRUE, promptLen |-> 3, maxTokens |-> None, targetLength |-> None,
   blockLength |-> None, numSteps |-> 128, topK |-> None, temperature |-> 0,
   leap |-> FALSE, radius |-> 4, single |-> FALSE, rejected |-> FALSE]

OtherModel == [DefaultBody EXCEPT !.hosted = FALSE]

UnknownField == [DefaultBody EXCEPT !.rejected = TRUE]

\* Lengths and counts, zero and negative ones included.
Lengths ==
  {[DefaultBody EXCEPT !.single = s, !.maxTokens = m, !.targetLength = t,
                       !.blockLength = b, !.numSteps = n] :
     s \in BOOLEAN, m \in {-1, 0, 6, None}, t \in {0, 4, None}, b \in {-2, 0, 2, 4, None},
     n \in {0, 1, 2, 512, 513}}

Sampling ==
  {[DefaultBody EXCEPT !.temperature = t, !.topK = k, !.leap = l, !.radius = r] :
     t \in -1 .. 3, k \in {0, 1, 2, None}, l \in BOOLEAN, r \in {0, 1, 16, 17}}

SomeBodies == {OtherModel, UnknownField} \cup Lengths \cup Sampling

\* The theorem SchemaSuffices, for these bodies.
ASSUME AcceptedHere == AcceptedIsDenoisable
=============================================================================
