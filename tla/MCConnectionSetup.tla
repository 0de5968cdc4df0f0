--------------------------- MODULE MCConnectionSetup ---------------------------
EXTENDS ConnectionSetup, TLC

\* End nodes 1, 4 and 5; repeaters 2 and 3: 1 -- 2 -- 3 -- 4 and 3 -- 5.
Fork == <<(0 :> 2), (0 :> 1 @@ 1 :> 3), (0 :> 2 @@ 1 :> 4 @@ 2 :> 5),
          (0 :> 3), (0 :> 3)>>
=============================================================================
