----------------------------- MODULE McpProtocol -----------------------------
(***************************************************************************)
(* McpProtocol: crates/agentverify-mcp/src/protocol.rs and the response    *)
(* types of client.rs.                                                     *)
(*                                                                         *)
(* A line is the set of members it has, its id and the value of its member *)
(* result.  Serde ignores members it does not know and refuses a line in   *)
(* which a required one is missing or has the wrong type, so a member that *)
(* does not decode counts as missing, and optional ones do not matter.     *)
(***************************************************************************)
EXTENDS Naturals

Methods == {"initialize", "tools/list", "tools/call", "resources/list", "prompts/list",
            "prompts/get"}

\* The value of a result: its members, and the members of each element of its list.
Object(members, items) == [has |-> members, items |-> items]
Null == Object({}, {})

Line(members, i, value) == [has |-> members, id |-> i, result |-> value]
EmptyLine == Line({}, 0, Null)

JsonRpcRequest == {"jsonrpc", "id", "method"}
JsonRpcNotification == {"jsonrpc", "method"}
Success == {"jsonrpc", "id", "result"}
Error == {"jsonrpc", "id", "error"}


\* The untagged enum JsonRpcMessage: the first variant that fits.
Decode(line) ==
    IF JsonRpcRequest \subseteq line.has THEN "request"
    ELSE IF Success \subseteq line.has THEN "success"
    ELSE IF Error \subseteq line.has THEN "error"
    ELSE IF JsonRpcNotification \subseteq line.has THEN "notification"
    ELSE "unparsable"

Capabilities == {"capabilities.resources", "capabilities.tools", "capabilities.prompts"}
ServerCapabilities(value) == Capabilities \cap value.has

InitializeResult(value) == {"protocolVersion", "capabilities", "serverInfo"} \subseteq value.has
Tool(item) == {"name", "description", "inputSchema"} \subseteq item
Resource(item) == {"uri", "name"} \subseteq item
Prompt(item) ==
    /\ "name" \in item
    /\ "arguments" \in item => {"argument.name", "argument.required"} \subseteq item
ContentBlock(item) ==
    \/ {"type=text", "text"} \subseteq item
    \/ {"type=image", "data", "mimeType"} \subseteq item
    \/ {"type=resource", "resource", "uri"} \subseteq item
PromptMessage(item) == "role" \in item /\ ContentBlock(item)

ToolsListResponse(value) == "tools" \in value.has /\ \A item \in value.items : Tool(item)
CallToolResult(value) == "content" \in value.has /\ \A item \in value.items : ContentBlock(item)
ResourcesListResponse(value) ==
    "resources" \in value.has /\ \A item \in value.items : Resource(item)
PromptsListResponse(value) == "prompts" \in value.has /\ \A item \in value.items : Prompt(item)
GetPromptResult(value) ==
    "messages" \in value.has /\ \A item \in value.items : PromptMessage(item)

\* serde_json::from_value in initialize and in the typed calls.
FromValue(method, value) ==
    \/ method = "initialize" /\ InitializeResult(value)
    \/ method = "tools/list" /\ ToolsListResponse(value)
    \/ method = "tools/call" /\ CallToolResult(value)
    \/ method = "resources/list" /\ ResourcesListResponse(value)
    \/ method = "prompts/list" /\ PromptsListResponse(value)
    \/ method = "prompts/get" /\ GetPromptResult(value)

=============================================================================
