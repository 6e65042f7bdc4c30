-------------------------------- MODULE MCFeed --------------------------------
(***************************************************************************)
(* Small instances of Feed for TLC.  One exploration covers two scopes, by *)
(* starting with part of the bounds used up:                               *)
(*   - every type and everything the server may do, on one channel (the    *)
(*     first id is gone, as after a create_feed_channel that failed);      *)
(*   - every channel, with one type, one loss, and a server that only      *)
(*     answers.                                                            *)
(***************************************************************************)
EXTENDS Feed

OneChannel ==
    /\ next_channel = 2 /\ disturbed = {1}
    /\ spent = [calls |-> 0, losses |-> 0, unasked |-> 0, rows |-> 0]

OnlyAnswers == spent.unasked > MaxUnasked
OneType ==
    /\ next_channel = 1 /\ disturbed = {}
    /\ spent = [calls |-> 1, losses |-> MaxLosses - 1,
                unasked |-> MaxUnasked + 1, rows |-> MaxRows]

\* Init, but for the variables the scopes set.
MCInit ==
    /\ channels = {} /\ schemas = [ch \in Channels |-> NoSchema]
    /\ book = [ch \in Channels |-> << >>]
    /\ call = Idle /\ requests = << >>
    /\ mailbox = [c \in Callers |-> Empty]
    /\ supervisor = "live" /\ todo = {} /\ stored = {}
    /\ schemas_before = [ch \in Channels |-> NoSchema]
    /\ session = "up" /\ server = Nothing /\ wire = << >>
    /\ OneChannel \/ OneType

MCSpec == MCInit /\ [][Next]_vars

Type == CHOOSE t \in Types : TRUE
Explored ==
    /\ SomeAgreement \/ (~OnlyAnswers /\ next_channel = 2)
    /\ OnlyAnswers => call.types \subseteq {Type}
=============================================================================
