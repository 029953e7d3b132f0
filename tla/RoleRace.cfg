SPECIFICATION IdentitySpec
CONSTANTS
    Page = {p1, p2}
    Role = {client, primary, backup}
    Client = client
    NoRole = NoRole
PROPERTIES
    RoleChangeConfirmed
CHECK_DEADLOCK FALSE
