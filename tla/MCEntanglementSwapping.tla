------------------------ MODULE MCEntanglementSwapping ------------------------
EXTENDS EntanglementSwapping, TLC

\* End nodes 1 and 4, repeaters 2 and 3: 1 -- 2 -- 3 -- 4.
Chain == <<(0 :> 2), (0 :> 1 @@ 1 :> 3), (0 :> 2 @@ 1 :> 4), (0 :> 3)>>
=============================================================================
