---------------------------- MODULE MCRouteLease ----------------------------
(* One keyed session, one task-derived scope, two user turns, two tools.    *)
EXTENDS RouteLease, TLC

CONSTANTS h1, h2, k1, k2, t1, t2, x, y

Req(scope, turn, tail, results, model, stream) ==
    [scope |-> scope, turn |-> turn, tail |-> tail, results |-> results,
     model |-> model, stream |-> stream]
Clean(tool) == [tool |-> tool, error |-> FALSE]
Failed(tool) == [tool |-> tool, error |-> TRUE]

\* User turns, clean steps of two tools, an error in a batch, a fixed model, no
\* fingerprint, and a call without a prompt_cache_key.
MCRequests ==
    { Req(k1, t1, "user", <<>>, "auto", TRUE),
      Req(k1, t1, "result", <<Clean(x)>>, "auto", TRUE),
      Req(k1, t1, "result", <<Clean(y)>>, "auto", FALSE),
      Req(k1, t1, "result", <<Failed(y), Clean(x)>>, "auto", TRUE),
      Req(k1, t1, "result", <<Clean(x)>>, "terra", TRUE),
      Req(k1, t2, "result", <<Clean(x)>>, "auto", TRUE),
      Req(k1, None, "result", <<Clean(x)>>, "auto", TRUE),
      Req(k2, t1, "result", <<Clean(x)>>, "auto", TRUE) }

\* The shadow switch and the all-Sol cohort, in any combination.
MCModes == BOOLEAN \X BOOLEAN
HandlerSymmetry == Permutations({h1, h2})
=============================================================================
