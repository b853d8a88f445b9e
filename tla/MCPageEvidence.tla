-------------------------- MODULE MCPageEvidence --------------------------
(* PageEvidence on a small instance: pages that agree with themselves, that *)
(* contradict themselves, repeat themselves, and say what is kept out.      *)
EXTENDS PageEvidence

MCDisplays ==
    {<<<<"k", "a">>, <<"k", "b">>, <<"k", "a">>>>,
     <<<<"o", "raw">>, <<"o", "shaped">>, <<"k", "a">>>>}
===========================================================================
