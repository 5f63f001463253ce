------------------------------- MODULE Config -------------------------------
(***************************************************************************)
(* What config.load makes of the environment and the JSON file, what it    *)
(* refuses, and the questions the rest of the program asks of the result.  *)
(*                                                                         *)
(* Settings are a record of two functions, env and file, each defined on   *)
(* the settings it mentions.  A list is the set of its entries, in a file  *)
(* written as a JSON list or as text; the empty set is a variable that is  *)
(* set to nothing.  A value of the file that is empty, zero, false or null *)
(* is no value (`or`), so the file does not mention it.  Settings that     *)
(* only name places and sizes (ports, paths, TTL, scan cap) are left out.  *)
(*                                                                         *)
(* An operator that stands just before a similar one, and that nothing     *)
(* uses, is a mutant: what the code would be with one mistake.             *)
(***************************************************************************)
EXTENDS FiniteSets

Mentioned(source, key) == key \in DOMAIN source

\* A list or an object in the file where a text is expected.
Structured == "[...]"

GetFileFirst(s, key) ==
  IF Mentioned(s.file, key) /\ s.file[key] # Structured THEN s.file[key]
  ELSE IF Mentioned(s.env, key) THEN s.env[key] ELSE ""

\* A variable that is set but empty counts as not set.  "" stands for None as well: no caller
\* tells the two apart.
get(s, key) ==
  IF Mentioned(s.env, key) /\ s.env[key] # "" THEN s.env[key]
  ELSE IF Mentioned(s.file, key) /\ s.file[key] # Structured THEN s.file[key]
  ELSE ""

GetListUnlessEmpty(s, key) ==
  IF Mentioned(s.env, key) /\ s.env[key] # {} THEN s.env[key]
  ELSE IF Mentioned(s.file, key) THEN s.file[key]
  ELSE {}

\* For a list it does count: the file is not asked.
get_list(s, key) ==
  IF Mentioned(s.env, key) THEN s.env[key]
  ELSE IF Mentioned(s.file, key) THEN s.file[key]
  ELSE {}

CAPABILITIES == {"read", "write", "write:high-risk"}

Or(value, default) == IF value = "" THEN default ELSE value

capabilities(s) ==
  LET listed == get_list(s, "MCP_CAPABILITIES") IN IF listed = {} THEN {"read"} ELSE listed

\* .lower(), for the spellings that occur.
Lower(text) == IF text = "FULL" THEN "full" ELSE IF text = "Redacted" THEN "redacted" ELSE text

DefaultFull(s) == Lower(Or(get(s, "PII_MODE"), "full"))

pii_mode(s) == Lower(Or(get(s, "PII_MODE"), "redacted"))

Required == {"PRETIX_BASE_URL", "PRETIX_API_TOKEN", "PRETIX_ORGANIZER"}

\* The texts of the model that are no http(s) URL, and the ones that are no slug.
NoUrl == {"ftp://pretix"}
NoSlug == {"a/b"}

\* What load raises ConfigError for.
ConfigErrors(s) ==
  {key \in Required : get(s, key) = ""}
  \cup (IF get(s, "PRETIX_BASE_URL") \in NoUrl THEN {"url"} ELSE {})
  \cup (capabilities(s) \ CAPABILITIES)
  \cup (IF pii_mode(s) \in {"redacted", "full"} THEN {} ELSE {"PII_MODE"})
  \cup (({get(s, "PRETIX_ORGANIZER")} \cup get_list(s, "PRETIX_EVENT_ALLOWLIST")) \cap NoSlug)

load(s) == [event_allowlist |-> get_list(s, "PRETIX_EVENT_ALLOWLIST"),
            capabilities |-> capabilities(s),
            tool_allowlist |-> get_list(s, "MCP_TOOL_ALLOWLIST"),
            auto_approve |-> get_list(s, "MCP_AUTO_APPROVE"),
            pii_mode |-> pii_mode(s),
            mcp_bearer_token |-> get(s, "MCP_BEARER_TOKEN"),
            host |-> Or(get(s, "MCP_HOST"), "127.0.0.1")]

-----------------------------------------------------------------------------
(* The questions.                                                          *)

redact_pii(c) == c.pii_mode # "full"

tool_enabled(c, name, capability) ==
  IF c.tool_allowlist # {} THEN name \in c.tool_allowlist
  ELSE capability \in c.capabilities

event_allowed(c, slug) == c.event_allowlist = {} \/ slug \in c.event_allowlist

\* check_http_bind refuses every token that was not generated, whatever address is bound:
\* none, one shorter than 24 characters, the placeholder of .env.example.
Short == "short"
Placeholder == "replace-me"
check_http_bind(c) == c.mcp_bearer_token \notin {"", Short, Placeholder}
=============================================================================
