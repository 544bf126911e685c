---------------------------- MODULE ToolCatalog ----------------------------
(***************************************************************************)
(* The tools of EDITH: what the connectors expose, how they register, and  *)
(* how ToolCatalog turns the registry into the names the model sees.       *)
(*                                                                         *)
(* A tool is reduced to what decides how a call of it may go:              *)
(*   cls       "auto" or "confirm"                                         *)
(*   needs     what must be there for the handler to do anything           *)
(*   deed      "computes" (cannot fail), "reads", "stores" (in EDITH's own *)
(*             tables) or "acts" (outside, and cannot be taken back)       *)
(*   required  the handler has a parameter without a default               *)
(***************************************************************************)
EXTENDS Integers, Sequences, FiniteSets, SequencesExt

Tool(name, cls, needs, deed, required) ==
    [name |-> name, cls |-> cls, needs |-> needs, deed |-> deed, required |-> required]

\* sound: the key is snake_case, an OAuth connector has its configuration, and every
\* tool has a name, a class, an object schema and an async handler.
Connector(key, tools, sound) == [key |-> key, tools |-> tools, sound |-> sound]

----------------------------------------------------------------------------
(* The connectors that come with the server *)

EchoConnector ==
    Connector("example_echo",
              << Tool("echo", "auto", "nothing", "computes", TRUE),
                 Tool("self_destruct", "confirm", "nothing", "computes", FALSE) >>, TRUE)

FoundationalConnector ==
    Connector("foundational",
              << Tool("current_time", "auto", "nothing", "computes", FALSE),
                 Tool("web_lookup", "auto", "nothing", "computes", TRUE),
                 Tool("remember", "auto", "nothing", "stores", TRUE),
                 Tool("recall", "auto", "nothing", "reads", TRUE) >>, TRUE)

GmailConnector ==
    Connector("gmail",
              << Tool("read_recent_emails", "auto", "mailbox", "reads", FALSE),
                 Tool("search_emails", "auto", "mailbox", "reads", TRUE) >>, TRUE)

GoogleCalendarConnector ==
    Connector("google_calendar",
              << Tool("list_upcoming_events", "auto", "calendar grant", "reads", FALSE) >>,
              TRUE)

GoogleContactsConnector ==
    Connector("google_contacts",
              << Tool("search_contacts", "auto", "contacts grant", "reads", TRUE),
                 Tool("list_contacts", "auto", "contacts grant", "reads", FALSE) >>, TRUE)

HomeAssistantConnector ==
    Connector("home_assistant",
              << Tool("list_devices", "auto", "home assistant", "reads", FALSE),
                 Tool("set_device", "confirm", "home assistant", "acts", TRUE) >>, TRUE)

RemindersConnector ==
    Connector("reminders",
              << Tool("set_reminder", "auto", "database", "stores", TRUE),
                 Tool("list_reminders", "auto", "database", "reads", FALSE) >>, TRUE)

WhatsAppConnector ==
    Connector("whatsapp",
              << Tool("send_whatsapp_message", "confirm", "whatsapp", "acts", TRUE) >>, TRUE)

\* discover_connectors: the packages of examples and of tools, then the single modules.
Discovered ==
    << EchoConnector, FoundationalConnector, GmailConnector, GoogleCalendarConnector,
       GoogleContactsConnector, HomeAssistantConnector, RemindersConnector,
       WhatsAppConnector >>

----------------------------------------------------------------------------
(* The registry *)

\* validate_connector: the contract, and no tool name twice in one connector.
IsValid(connector) ==
    /\ connector.sound
    /\ \A i, j \in DOMAIN connector.tools :
          i # j => connector.tools[i].name # connector.tools[j].name

HasKey(registry, key) == \E i \in DOMAIN registry : registry[i].key = key

\* ConnectorRegistry.register raises where this is false.
MayRegister(registry, connector) == IsValid(connector) /\ ~HasKey(registry, connector.key)

----------------------------------------------------------------------------
(* The names *)

\* Every tool of the registry with the key of its connector, in the order of all().
AllTools(registry) ==
    FlattenSeq([i \in DOMAIN registry |->
                  [j \in DOMAIN registry[i].tools |->
                     [key |-> registry[i].key, tool |-> registry[i].tools[j]]]])

Namespaced(key, name) == key \o "." \o name

\* Mutant: the last connector to expose a name takes it over.
LastTakesName(registry) ==
    FoldLeft(LAMBDA resolved, t : [name \in DOMAIN resolved \cup {t.tool.name} |->
                                     IF name = t.tool.name THEN t ELSE resolved[name]],
             [name \in {} |-> {}], AllTools(registry))

\* One tool more: its name stays bare unless it is taken; then the tool is exposed under
\* the key of its connector as well.
Expose(resolved, t) ==
    LET name == IF t.tool.name \in DOMAIN resolved
                  THEN Namespaced(t.key, t.tool.name)
                  ELSE t.tool.name
    IN  [n \in DOMAIN resolved \cup {name} |-> IF n = name THEN t ELSE resolved[n]]

\* _resolve_names
ResolveNames(registry) == FoldLeft(Expose, [name \in {} |-> {}], AllTools(registry))

\* specs: the names the model is shown.
Exposed(registry) == DOMAIN ResolveNames(registry)

\* lookup, of a name that is exposed.
Lookup(registry, name) == ResolveNames(registry)[name].tool
============================================================================
