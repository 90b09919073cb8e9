--------------------------- MODULE MCAuthorization ---------------------------
(***************************************************************************)
(* Two connectors, a valid and an invalid tag, and three configurations that *)
(* between them reach every way a tag is granted.                           *)
(***************************************************************************)
EXTENDS Authorization

Config(mode, pre, c, remote, infra, unknown, holder, out) ==
    [mode |-> mode, preAuthorize |-> pre, cache |-> c, authorizeRemote |-> remote,
     infra |-> infra, unknown |-> unknown,
     reserved |-> [i \in Connectors |-> IF i = 1 THEN holder ELSE None],
     available |-> [i \in Connectors |-> i # out]]

MCConfigs == {
    Config("online", FALSE, TRUE, TRUE, FALSE, FALSE, "a", 0),
    Config("both", TRUE, TRUE, FALSE, FALSE, FALSE, None, 2),
    Config("both", FALSE, FALSE, FALSE, FALSE, TRUE, "b", 0)}
=============================================================================
