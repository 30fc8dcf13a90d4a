----------------------------- MODULE MCToolUse -----------------------------
(***************************************************************************)
(* Instances of ToolUse for TLC.                                           *)
(***************************************************************************)
EXTENDS ToolUse, TLC

CONSTANTS r1, files, shell, secret

T(tier, scope, group, level, schema) ==
  [tier |-> tier, scope |-> scope, group |-> group, level |-> level,
   schema |-> schema, required |-> TRUE]

\* Every tier; a dangerous scope; a name that sounds worse than its tier.
MCCatalog ==
  "file_read"  :> T("read", files, "other", "LOW", "strict") @@
  "file_write" :> T("write", files, "other", "HIGH", "broken") @@
  "shell"      :> T("execute", shell, "shell", "MEDIUM", "strict") @@
  "file_drop"  :> T("destructive", files, "other", "CRITICAL", "strict") @@
  "host_read"  :> T("read", secret, "other", "LOW", "strict")

MCDangerous == {secret}

Call(id, name, raw) == [id |-> id, name |-> name, raw |-> raw]
Answer3(native, fenced, invoke) == [native |-> native, fenced |-> fenced, invoke |-> invoke]

\* The same call in two protocols; every kind of refusal; an unclosed fence.
MCMessages ==
  {Answer3(<<Call(1, "file_write", "misfits")>>, <<Call(1, "file_write", "misfits")>>, <<>>),
   Answer3(<<>>, <<Call(2, "shell", "fits"), Call(3, "file_read", "absent")>>, <<>>),
   Answer3(<<>>, <<>>, <<Call(4, "unknown", "fits"), Call(5, "file_drop", "fits")>>),
   Answer3(<<>>, <<Call(6, "shell", "not_json"), Call(7, "host_read", "fits")>>, <<>>),
   Answer3(<<Call(8, "shell", "too_long")>>, <<>>, <<>>),
   Answer3(<<>>, <<Call(9, NoName, "absent")>>, <<Call(10, "shell", "fits")>>)}

S(mode, required, backend, limit) ==
  [mode |-> mode, required |-> required, backend |-> backend, limit |-> limit]

MCInit ==
  /\ settings \in {S("build", TRUE, "docker", 1), S("build", FALSE, "none", 1),
                    S("plan", TRUE, "jail", 1), S("plan", FALSE, "jail", 0),
                    S("auto", TRUE, "docker", 1), S("unrestricted", TRUE, "jail", 1)}
  /\ Init
MCSpec == MCInit /\ [][Next]_vars
=============================================================================
