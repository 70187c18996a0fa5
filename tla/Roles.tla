------------------------------- MODULE Roles -------------------------------
(***************************************************************************)
(* thecargo.permissions, role_templates, features and dependencies.auth:   *)
(* what the roles an organization starts with may do, what its plan leaves *)
(* of that, what the roles' editor shows, and what a request is granted.   *)
(*                                                                         *)
(* The auth service expands a template into a role and, when it mints a    *)
(* token, keeps the grants whose resources the organization's features     *)
(* allow. A question asks for one person's rights.                         *)
(***************************************************************************)
VARIABLE question    \* what is asked about, or NoQuestion

roleVars == <<question>>

NONE == "none"    \* no access

\* The grants of both, the first's where both have one.
f @@ g == [p \in DOMAIN f \union DOMAIN g |-> IF p \in DOMAIN f THEN f[p] ELSE g[p]]

Actions == {"view", "create", "update", "delete"}

----------------------------------------------------------------------------
(* The catalogue. *)

STAGES == {"lead", "quote", "order"}
TOOLBAR_SECTIONS == {"toolbar_note", "toolbar_task", "toolbar_file", "toolbar_contract",
                     "toolbar_sms", "toolbar_email", "toolbar_payment"}

PHONE_RESOURCES ==
    {"contact", "wallet", "subscription", "analytics", "conversation", "template", "campaign",
     "notification", "sip_credential", "power_dialer", "telephony", "phone_number", "tag", "user",
     "team", "role", "company_info", "audit", "thecargo_mail", "integrations"}

CARRIER_RESOURCES == PHONE_RESOURCES \union {"dashboard", "insight"}

RESOURCES ==
    STAGES \union TOOLBAR_SECTIONS \union CARRIER_RESOURCES \union
    {"shipment", "customer", "carrier", "task", "loadboard", "contract", "automation",
     "distribution", "provider", "target", "lead_parsing", "order_feedback", "payment", "refund",
     "commission", "payroll", "payment_method", "credit_card", "shipment_reason", "toolbar",
     "toolbar_activity", "report"}

ResourcesFor(type) ==
    CASE type = "phone" -> PHONE_RESOURCES [] type = "carrier" -> CARRIER_RESOURCES [] OTHER -> RESOURCES

\* What each feature with resources unlocks; others unlock nothing.
FEATURES ==
    [phone |-> {"telephony", "conversation", "phone_number", "sip_credential", "contact",
                "template", "tag", "notification"},
     os |-> STAGES \union TOOLBAR_SECTIONS \union
            {"shipment", "customer", "carrier", "task", "loadboard", "contract", "distribution",
             "provider", "target", "lead_parsing", "order_feedback", "shipment_reason", "payment",
             "refund", "commission", "payroll", "payment_method", "credit_card", "toolbar",
             "toolbar_activity", "report"},
     analytics |-> {"analytics"},
     campaign |-> {"campaign", "automation"},
     power_dialer |-> {"power_dialer"}]

Unlocked(features) == UNION {FEATURES[f] : f \in features}

GATED_RESOURCES == Unlocked(DOMAIN FEATURES)

\* Mutant: what no feature mentions has to be unlocked too.
OnlyUnlocked(features) == Unlocked(features)

AllowedResources(features) == (RESOURCES \ GATED_RESOURCES) \union Unlocked(features)

----------------------------------------------------------------------------
(* The templates: <<resource, action>> -> scope. *)

Give(resources, actions, scope) == [p \in resources \X actions |-> scope]
CRU == {"view", "create", "update"}

\* A comprehension that gives one action another scope than the rest.
GiveBut(resources, action, scope, rest) == Give(resources, {action}, scope) @@ Give(resources, Actions, rest)

SUPERUSER == Give(RESOURCES, Actions, "all")

\* "goal" is no resource, so its grants are dropped when the template is expanded.
MANAGER ==
    Give({"analytics", "shipment", "lead", "quote", "order", "customer", "carrier", "task", "contract",
           "provider", "notification", "conversation", "order_feedback", "dashboard", "insight",
           "payroll", "goal", "target", "team", "user", "role", "toolbar_activity"}, {"view"}, "all")
    @@ Give({"shipment", "lead", "quote", "order", "customer", "task", "contract"}, {"create", "update"}, "own")
    @@ Give({"automation", "distribution", "template", "lead_parsing"}, CRU, "all")
    @@ Give({"tag"}, Actions, "all")
    @@ Give({"company_info", "integrations"}, {"view", "update"}, "all")
    @@ GiveBut(TOOLBAR_SECTIONS, "delete", "own", "all")
    @@ Give({"thecargo_mail"}, {"create"}, "all") @@ Give({"report"}, {"view", "create"}, "all")

SALES_AGENT ==
    Give({"lead", "quote", "order", "customer", "task", "contract", "order_feedback", "notification",
           "conversation", "dashboard", "goal", "target", "toolbar_activity"}, {"view"}, "own")
    @@ Give({"lead", "quote", "customer", "task"}, {"create"}, "all")
    @@ Give({"lead", "quote", "customer", "task"}, {"update"}, "own")
    @@ Give({"analytics", "carrier", "provider", "tag", "template", "report"}, {"view"}, "all")
    @@ Give({"tag", "conversation", "thecargo_mail"}, {"create"}, "all")
    @@ GiveBut(TOOLBAR_SECTIONS, "create", "all", "own")

DISPATCHER ==
    Give({"analytics", "shipment", "lead", "quote", "customer", "automation", "shipment_reason", "contract",
           "notification", "conversation", "template", "tag", "dashboard", "insight", "team",
           "company_info", "toolbar_activity", "report"}, {"view"}, "all")
    @@ Give({"order", "order_feedback", "carrier", "provider", "loadboard", "distribution", "task"}, CRU, "all")
    @@ Give({"shipment_reason", "conversation", "tag", "thecargo_mail", "report"}, {"create"}, "all")
    @@ GiveBut(TOOLBAR_SECTIONS, "delete", "own", "all")

ACCOUNTANT ==
    Give({"payment_method", "credit_card", "toolbar_payment"}, Actions, "all")
    @@ Give({"analytics", "shipment", "quote", "order", "customer", "contract", "dashboard", "insight", "target",
              "company_info", "toolbar_note", "toolbar_file", "payment", "toolbar_activity", "report"}, {"view"}, "all")
    @@ Give({"notification"}, {"view"}, "own")
    @@ Give({"thecargo_mail", "report"}, {"create"}, "all")

SUPPORT_AGENT ==
    Give({"conversation"}, CRU, "all")
    @@ Give({"analytics", "notification", "template", "customer", "shipment", "lead", "quote", "order",
              "contract", "tag", "report"}, {"view"}, "all")
    @@ Give({"notification", "task", "thecargo_mail", "report"}, {"create"}, "all")
    @@ Give({"customer"}, {"update"}, "own") @@ Give({"task"}, {"view", "update"}, "own")
    @@ Give({"dashboard", "toolbar_activity"}, {"view"}, "own")
    @@ GiveBut(TOOLBAR_SECTIONS, "create", "all", "own")

TEMPLATES ==
    [Superuser |-> SUPERUSER, Manager |-> MANAGER, SalesAgent |-> SALES_AGENT,
     Dispatcher |-> DISPATCHER, Accountant |-> ACCOUNTANT, SupportAgent |-> SUPPORT_AGENT]

ON_THE_LINES ==
    Give({"telephony"}, {"view", "update"}, "all") @@ Give({"phone_number"}, {"view"}, "all")
    @@ Give({"contact"}, CRU, "all")

APP_BROKER_GRANTS(name) ==
    CASE name = "Manager"    -> Give({"conversation"}, {"create"}, "all") @@ ON_THE_LINES
      [] name = "Accountant" -> Give({"contact"}, {"view"}, "all")
      [] name = "Superuser"  -> Give({}, Actions, "all")
      [] OTHER               -> ON_THE_LINES

PHONE_OWNER == Give(PHONE_RESOURCES, Actions, "all")

PHONE_ADMIN ==
    Give({"conversation", "contact", "template", "campaign", "power_dialer", "phone_number",
           "sip_credential", "tag", "user", "team"}, Actions, "all")
    @@ Give({"telephony", "notification", "role", "audit", "analytics", "wallet", "subscription"}, {"view"}, "all")
    @@ Give({"telephony"}, {"update"}, "all")
    @@ Give({"company_info", "integrations"}, {"view", "update"}, "all")
    @@ Give({"thecargo_mail"}, {"create"}, "all")

PHONE_AGENT ==
    Give({"telephony"}, {"view", "update"}, "all")
    @@ Give({"conversation", "power_dialer"}, {"create"}, "all")
    @@ Give({"conversation", "power_dialer"}, {"view", "update"}, "own")
    @@ Give({"contact"}, {"update"}, "own")
    @@ Give({"contact", "phone_number", "template", "tag", "team", "company_info"}, {"view"}, "all")
    @@ Give({"notification", "analytics"}, {"view"}, "own")
    @@ Give({"contact", "tag", "thecargo_mail"}, {"create"}, "all")

PHONE_TEMPLATES == [Owner |-> PHONE_OWNER, Admin |-> PHONE_ADMIN, Agent |-> PHONE_AGENT]

CARRIER_SUPERUSER == Give(CARRIER_RESOURCES, Actions, "all")

CARRIER_MANAGER ==
    Give({"conversation", "template", "campaign", "power_dialer", "tag"}, Actions, "all")
    @@ Give({"contact"}, CRU, "all")
    @@ Give({"telephony", "phone_number", "sip_credential", "notification", "dashboard", "insight",
              "analytics", "user", "team", "role", "company_info"}, {"view"}, "all")
    @@ Give({"telephony"}, {"update"}, "all") @@ Give({"thecargo_mail"}, {"create"}, "all")

CARRIER_OPERATOR ==
    Give({"telephony"}, {"view", "update"}, "all")
    @@ Give({"conversation", "power_dialer"}, {"view", "update"}, "own")
    @@ Give({"contact", "conversation", "power_dialer", "tag", "thecargo_mail"}, {"create"}, "all")
    @@ Give({"contact", "phone_number", "template", "campaign", "tag", "team", "company_info"}, {"view"}, "all")
    @@ Give({"notification", "dashboard", "analytics"}, {"view"}, "own")

CARRIER_TEMPLATES ==
    [Superuser |-> CARRIER_SUPERUSER, Manager |-> CARRIER_MANAGER, Operator |-> CARRIER_OPERATOR]

\* Mutant: who signed up in the app is taken for a broker first.
AppFirst(type, fromApp) ==
    CASE fromApp            -> [name \in DOMAIN TEMPLATES |-> APP_BROKER_GRANTS(name) @@ TEMPLATES[name]]
      [] type = "phone"     -> PHONE_TEMPLATES
      [] type = "carrier"   -> CARRIER_TEMPLATES
      [] OTHER              -> TEMPLATES

TemplatesFor(type, fromApp) ==
    CASE type = "phone"   -> PHONE_TEMPLATES
      [] type = "carrier" -> CARRIER_TEMPLATES
      [] OTHER -> IF ~fromApp THEN TEMPLATES
                  ELSE [name \in DOMAIN TEMPLATES |-> APP_BROKER_GRANTS(name) @@ TEMPLATES[name]]

Expand(template) ==
    [p \in RESOURCES \X Actions |-> IF p \in DOMAIN template THEN template[p] ELSE NONE]

----------------------------------------------------------------------------
(* The editor of a role. *)

\* GROUPS as one list: the keys at its top, and the children of two of them.
Children(key) ==
    CASE key = "shipment" -> STAGES
      [] key = "toolbar"  -> TOOLBAR_SECTIONS \union {"toolbar_activity"}
      [] OTHER            -> {}

TopKeys == RESOURCES \ (Children("shipment") \union Children("toolbar"))

\* _visible_node: a node is there for itself or for a child of it.
Visible(key, allowed) ==
    LET children == Children(key) \intersect allowed
    IN IF key \in allowed \/ children # {} THEN {key} \union children ELSE {}

\* build_permission_groups: a scope for every action of every node in sight.
Menu(scopes, type) ==
    LET keys == UNION {Visible(key, ResourcesFor(type)) : key \in TopKeys}
    IN [p \in keys \X Actions |-> scopes[p]]

----------------------------------------------------------------------------
(* A request. *)

Requires(user, resource, action) ==
    IF user.superuser THEN "all"
    ELSE IF <<resource, action>> \in DOMAIN user.permissions THEN user.permissions[<<resource, action>>]
    ELSE NONE

\* check_stage_permission: a stage that is none is an error for all but superusers.
CheckStagePermission(user, stage, action) ==
    IF user.superuser THEN "all"
    ELSE IF stage \notin STAGES THEN "invalid"
    ELSE IF <<stage, action>> \in DOMAIN user.permissions THEN user.permissions[<<stage, action>>]
    ELSE NONE

\* What the auth service puts into the token of a person with the role.
Permissions(q) ==
    LET role == Expand(TemplatesFor(q.type, q.fromApp)[q.name])
    IN [p \in {r \in DOMAIN role : role[r] # NONE /\ r[1] \in AllowedResources(q.features)} |-> role[p]]

NoQuestion == [type |-> "nobody"]

Questions ==
    UNION {[type : {type}, fromApp : {fromApp}, name : DOMAIN TemplatesFor(type, fromApp),
            features : SUBSET DOMAIN FEATURES]
             : type \in {"phone", "carrier", "broker"}, fromApp \in BOOLEAN}

RolesInit == question = NoQuestion

Ask == question = NoQuestion /\ question' \in Questions

RolesNext == Ask

RolesSpec == RolesInit /\ [][RolesNext]_roleVars

----------------------------------------------------------------------------
(* Properties. *)

User == [superuser |-> FALSE, permissions |-> Permissions(question)]

Can(resource, action) == Requires(User, resource, action) # NONE

\* The editor shows what the role is: the groups of a type list all that any role
\* of it is granted, with the scope a request gets, and nothing that none
\* may be granted, so that what is saved from it is no other role.
MenuShowsRights ==
    question # NoQuestion =>
        LET role == Expand(TemplatesFor(question.type, question.fromApp)[question.name])
            menu == Menu(role, question.type)
        IN /\ \A p \in DOMAIN role : role[p] # NONE => p \in DOMAIN menu /\ menu[p] = role[p]
           /\ {p[1] : p \in DOMAIN menu} = ResourcesFor(question.type)
           /\ \A p \in DOMAIN menu : Requires(User, p[1], p[2]) \in {menu[p], NONE}

\* A plan never locks its organization out: whatever features are off, the first
\* role of every type still manages people and roles, and reads what it pays;
\* with the phone alone, everyone in a broker that signed up in the app but its
\* accountant still sees the lines, calls, and keeps the contact book.
PlansLeaveTheKeys ==
    question # NoQuestion =>
        /\ question.name \in {"Superuser", "Owner"} =>
            /\ \A r \in {"user", "role", "team", "company_info"}, a \in Actions : Can(r, a)
            /\ Can("subscription", "view") /\ Can("wallet", "view")
        /\ question.type = "broker" /\ question.fromApp /\ "phone" \in question.features =>
            /\ question.name # "Accountant" =>
                Can("telephony", "update") /\ Can("phone_number", "view") /\ Can("contact", "create")
            /\ Can("contact", "view")
            /\ \A s \in STAGES, a \in Actions :
                CheckStagePermission(User, s, a) # NONE => "os" \in question.features

\* The tables kept by hand in three files agree: of roles, of what the editor
\* shows, and of what features unlock.
TablesAgree == MenuShowsRights /\ PlansLeaveTheKeys
=============================================================================
