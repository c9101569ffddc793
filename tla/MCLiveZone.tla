----------------------------- MODULE MCLiveZone -----------------------------
(***************************************************************************)
(* Small sessions for TLC, and plausible bugs of the code for each         *)
(* property to detect.                                                     *)
(***************************************************************************)
EXTENDS LiveZone

CONSTANTS grep, table, list, scan, leak, prose, figures, listing, secret

MCBlocks == {grep, table, list, scan, leak}
MCContents == {prose, figures, listing, secret}
MCContentOf == [b \in MCBlocks |->
    CASE b \in {grep, scan} -> prose [] b = table -> figures [] b = list -> listing [] b = leak -> secret]
\* For the restart, two names in two contents.
MCRestartContentOf == [MCContentOf EXCEPT ![scan] = listing]
MCConversations == {<<table, grep>>, <<scan, grep>>, <<list>>, <<leak>>}
MCRestartConversations == {<<grep, scan>>}
=============================================================================
