----------------------------- MODULE MCMcpClient -----------------------------
(***************************************************************************)
(* A small instance of McpClient for TLC: one caller initializes while     *)
(* another lists the tools, which the server answers with a tool that has  *)
(* no description, or with an error.                                       *)
(***************************************************************************)
EXTENDS McpClient

CONSTANTS c1, c2

MCMethod == [c \in Callers |-> IF c = c1 THEN "initialize" ELSE "tools/list"]

MCReplies ==
    [m \in Methods |->
        IF m = "initialize"
        THEN {Line(Success, 0, Object({"protocolVersion", "capabilities", "serverInfo",
                                       "capabilities.tools"}, {}))}
        ELSE {Line(Success, 0, Object({"tools"}, {{"name", "inputSchema"}})),
              Line(Error, 0, Null)}]

=============================================================================
