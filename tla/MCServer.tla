------------------------------ MODULE MCServer ------------------------------
EXTENDS Server, TLC

CONSTANTS e1, e2

All == CAPABILITIES

\* What every start that is to succeed mentions.
Needed == [PRETIX_BASE_URL |-> "https://pretix", PRETIX_API_TOKEN |-> "token",
           PRETIX_ORGANIZER |-> "org"]
Served == [MCP_BEARER_TOKEN |-> "generated"] @@ Needed
None_ == [key \in {} |-> ""]
Env(more) == [env |-> more @@ Served, file |-> None_]
Both(more, file) == [env |-> more @@ Served, file |-> file]

MCSettings ==
  [ silent |-> Env(None_),
    silent_automatic |-> Env([MCP_AUTO_APPROVE |-> HighRiskNames]),
    open |-> Env([MCP_CAPABILITIES |-> All, PII_MODE |-> "FULL",
                  PRETIX_EVENT_ALLOWLIST |-> {e1, e2}]),
    automatic |-> Env([MCP_CAPABILITIES |-> All, MCP_AUTO_APPROVE |-> HighRiskNames,
                       PRETIX_EVENT_ALLOWLIST |-> {e1}]),
    one_tool |-> Env([MCP_CAPABILITIES |-> {"read"}, MCP_TOOL_ALLOWLIST |-> {"refund_order"}]),
    \* the file alone, and the file overruled, by a value and by nothing
    file |-> [env |-> None_, file |-> [MCP_CAPABILITIES |-> All, PII_MODE |-> "full",
                                       PRETIX_EVENT_ALLOWLIST |-> {e1}] @@ Served],
    overruled |-> Both([MCP_CAPABILITIES |-> {"read"}, PII_MODE |-> "Redacted"],
                       [MCP_CAPABILITIES |-> All, PII_MODE |-> "full"]),
    emptied |-> Both([MCP_CAPABILITIES |-> {}, PII_MODE |-> "", PRETIX_EVENT_ALLOWLIST |-> {}],
                     [MCP_CAPABILITIES |-> All, PII_MODE |-> "full",
                      PRETIX_EVENT_ALLOWLIST |-> {e1}]),
    \* http refuses, stdio does not
    placeholder |-> [env |-> [MCP_BEARER_TOKEN |-> Placeholder] @@ Needed, file |-> None_],
    short |-> [env |-> [MCP_BEARER_TOKEN |-> ""] @@ Needed,
               file |-> [MCP_BEARER_TOKEN |-> Short, PII_MODE |-> Structured,
                         MCP_CAPABILITIES |-> {"write:high-risk"}]],
    \* both refuse
    nothing |-> [env |-> None_, file |-> None_],
    no_url |-> Env([PRETIX_BASE_URL |-> "ftp://pretix"]),
    no_capability |-> Env([MCP_CAPABILITIES |-> {"read", "admin"}]),
    no_mode |-> Env([PII_MODE |-> "none"]),
    no_slug |-> Env([PRETIX_EVENT_ALLOWLIST |-> {"a/b"}]) ]

MCConfs == {p.conf : p \in Processes}

\* A leaf, a dict of trees by key, and a list of trees, as the functions that they are.
Just(leaf) == <<>> :> leaf
Under(step, tree) == [path \in {<<step>> \o p : p \in DOMAIN tree} |-> tree[Tail(path)]]
Joined(parts) ==
  [path \in UNION {DOMAIN p : p \in parts} |-> (CHOOSE p \in parts : path \in DOMAIN p)[path]]
Dict(entries) == Joined({Under(By(key), entries[key]) : key \in DOMAIN entries})
List(elements) == Joined({Under(At(i), elements[i]) : i \in DOMAIN elements})
Number == Just(Plain)
Word == Just(Text("word"))
Address == Just(Text("address"))
Empty == Just(Text("empty"))

\* Dicts of one or two keys, alone, in a list, and both again under a key of another dict.
Keys == {"email", "name", "name_parts", "country", "phone", "code"}
Single(key, values) == {Dict(key :> v) : v \in values}
Pairs == UNION {{Dict(f) : f \in [D -> {Word, Number}]} : D \in kSubset(2, Keys)}
Flat == Pairs \cup UNION {Single(k, {Address}) : k \in Keys}
Inner == Flat \cup {List(<<d, List(<<Word>>)>>) : d \in Flat}
AllPayloads ==
  {Dict("email" :> Number @@ "code" :> Number), Dict("email" :> Word @@ "name" :> Empty),
   Dict("email" :> Empty @@ "name_parts" :> Dict("name" :> Empty)),
   Dict("email" :> List(<<Word>>))}
  \cup UNION {Single(k, Inner) : k \in {"name_parts", "code", "email"}}
  \cup {Dict("email" :> Address @@ "code" :> v) : v \in Inner}
  \cup UNION {Single("name_parts", Single("code", {v})) : v \in Inner}
\* The same set, written so that TLC enumerates it once.
MCPayloads == {p : p \in AllPayloads}

MCArguments == {Dict("email" :> Address @@ "name" :> Word),
                Dict("code" :> List(<<Dict("name_parts" :> Word)>>))}
=============================================================================
