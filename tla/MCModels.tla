------------------------------- MODULE MCModels -------------------------------
(* Small instances of Models and RemoteModel for TLC; a behaviour of this   *)
(* run is of one of the two, the other being at rest.                       *)
EXTENDS Models, RemoteModel

VARIABLE side

mcVars == <<modelsVars, remoteVars, side>>

\* An extension and a national number.
MCOwnNumbers == {<<1>>, <<1, 2>>}

Init == /\ ModelsInit /\ RemoteInit
        /\ \/ side = "rows"
           \/ side = "endpoint" /\ agent = NewAgent

Next == \/ side = "rows" /\ ModelsNext /\ UNCHANGED <<remoteVars, side>>
        \/ side = "endpoint" /\ RemoteNext /\ UNCHANGED <<modelsVars, side>>

Spec == Init /\ [][Next]_mcVars

TypeOK == IF side = "rows" THEN ModelsTypeOK ELSE RemoteTypeOK

\* The model a call would be given is the one its row says, in memory as in the
\* database (modelResolver.service.ts).
MemoryIsCurrent == TypeOK /\ ResolvedModelIsCurrent
=============================================================================
