-------------------------- MODULE MCScanExclusion --------------------------
EXTENDS ScanExclusion

\* The service runs in the scanned tree: its state file lies beside the index,
\* which the request names through a link.  A directory below has a user's files
\* under the same names, another one is excluded by the policy.
MCParent == [d \in {"sub", "target"} |-> "root"]
MCCanonical == [d \in {"root", "sub", "target", "link"} |-> IF d = "link" THEN "root" ELSE d]
MCNames == {"index", "index.lock", ".index.aifs-tmp-1", "state", ".state.aifs-tmp-1"}
MCLockName == [n \in {"index"} |-> "index.lock"]
MCTemporaries == [n \in MCNames |-> CASE n = "index" -> {".index.aifs-tmp-1"}
                                      [] n = "state" -> {".state.aifs-tmp-1"}
                                      [] OTHER -> {}]
MCGivenIndex == <<"link", "index">>
MCGivenArtifacts == {<<"link", "state">>}
MCPaths == ({"root"} \X MCNames)
           \union {<<"sub", ".state.aifs-tmp-1">>, <<"target", "index">>}
=============================================================================
