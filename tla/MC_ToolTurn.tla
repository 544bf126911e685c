---------------------------- MODULE MC_ToolTurn ----------------------------
EXTENDS ToolTurn

\* Connectors of contributors: one that exposes a name that is taken, one with a key
\* that is taken, and one with two tools of one name.
MCCommunities ==
    { Connector("notes", << Tool("remember", "confirm", "notes", "acts", TRUE) >>, TRUE),
      Connector("foundational", << Tool("note", "auto", "notes", "stores", TRUE) >>, TRUE),
      Connector("lists", << Tool("add", "auto", "nothing", "computes", TRUE),
                            Tool("add", "auto", "nothing", "reads", FALSE) >>, TRUE) }

\* What the model may mean: a call of each class, one that lacks its arguments and one
\* of a tool that does not exist.
MCMeant == { [name |-> "remember", parts |-> 3], [name |-> "remember", parts |-> 0],
             [name |-> "set_device", parts |-> 3], [name |-> "list_devices", parts |-> 0],
             [name |-> "unheard_of", parts |-> 0] }

\* What the theorems on names and deeds ask of the connectors holds of these.
ASSUME ConnectorsKeepApart == NamesApart /\ ActingToolsConfirm
=============================================================================
