--------------------------- MODULE MCOrganization ---------------------------
(***************************************************************************)
(* Small organizations, each with the requests that interfere in it.       *)
(***************************************************************************)
EXTENDS Organization, TLC

Person(role, d, i, name) ==
    [status |-> "enabled", role |-> role, dept |-> d, integration |-> i, name |-> name,
     billed |-> FALSE]
On(i) == [status |-> "enabled", integration |-> i]
Department(owner) == [status |-> "enabled", integration |-> 0, owner |-> owner]
OwnKey(u, limit) == [status |-> "enabled", owner |-> u, project |-> 0, limit |-> limit,
                     used |-> 0, idem |-> <<"", 0>>]

Nothing == [ops |-> {}, left |-> 0, users |-> <<>>, depts |-> <<>>, integrations |-> <<>>,
            tokens |-> <<>>, projects |-> <<>>, keys |-> <<>>]

\* Two roots and a user change each other.
Authority ==
    [Nothing EXCEPT !.ops = {"status", "update_user", "delete_user", "batch"}, !.left = 2,
        !.users = <<Person("root", 0, 0, "n1"), Person("root", 0, 0, "n2"),
                    Person("user", 0, 0, "n3")>>]
LongAuthority == [Authority EXCEPT !.ops = {"status", "delete_user"}, !.left = 4]
MixedAuthority == [Authority EXCEPT !.ops = {"status", "update_user"}, !.left = 3,
        !.users[2].role = "admin"]

\* Users move between departments that come and go.
Departments ==
    [Nothing EXCEPT !.ops = {"create_dept", "update_dept", "delete_dept", "members",
                             "update_user"}, !.left = 3,
        !.users = <<Person("root", 0, 0, "n1"), Person("user", 1, 0, "n2")>>,
        !.depts = <<Department(2)>>]

\* Accounts are created, imported and removed while their department may go.
Accounts ==
    [Nothing EXCEPT !.ops = {"create_user", "import", "delete_user", "delete_dept", "grant_batch",
                             "batch"},
        !.left = 2,
        !.users = <<Person("admin", 1, 0, "n1"), Person("root", 0, 0, "n2")>>,
        !.depts = <<Department(1)>>]

\* An integration is disabled while its tokens and accounts change.
Partners ==
    [Nothing EXCEPT !.ops = {"disable", "create_token", "token_status", "status"}, !.left = 4,
        !.users = <<Person("root", 0, 0, "n1"), Person("managed", 0, 1, "n2")>>,
        !.integrations = <<On(0)>>, !.tokens = <<On(1)>>]
NewPartners == [Partners EXCEPT !.ops = {"create_integration", "create_token", "disable",
                                         "create_user"}, !.left = 2]

\* Keys are issued, again after a lost answer, up to the quota.
Issuing ==
    [Nothing EXCEPT !.ops = {"create_key", "delete_key", "delete_user"}, !.left = 4,
        !.users = <<Person("root", 0, 0, "n1"), Person("user", 0, 0, "n2")>>]

\* A key with a limit is in use while it is changed.
InUse ==
    [Nothing EXCEPT !.ops = {"update_key", "relay", "delete_user"}, !.left = 4,
        !.users = <<Person("root", 0, 0, "n1"), Person("user", 0, 0, "n2")>>,
        !.keys = <<OwnKey(2, 1)>>]

\* Projects go while keys are attached to them.
Projects ==
    [Nothing EXCEPT !.ops = {"create_project", "delete_project", "create_key", "update_key",
                             "delete_key"}, !.left = 2,
        !.users = <<Person("root", 0, 0, "n1"), Person("user", 0, 0, "n2"),
                    Person("managed", 0, 1, "n3")>>, !.keys = <<OwnKey(2, 1)>>,
        !.integrations = <<On(0)>>, !.tokens = <<On(1)>>, !.projects = <<On(0)>>]

\* A name's password is tried, rightly and wrongly, while time passes.
Guessing == [Nothing EXCEPT !.ops = {"login", "time"}, !.left = 4,
                            !.users = <<Person("root", 0, 0, "n1")>>]

\* Passwords change while their user signs in on two browsers.
Signing == [Nothing EXCEPT !.ops = {"login", "password", "status"}, !.left = 4,
               !.users = <<Person("root", 0, 0, "n1"), Person("user", 0, 0, "n2")>>]

\* A setting is read and changed while its copy ages.
Settings == [Nothing EXCEPT !.ops = {"setting", "time"}, !.left = 5,
                            !.users = <<Person("root", 0, 0, "n1")>>]

MCScenarios == {Authority, LongAuthority, MixedAuthority, Departments, Accounts,
                Partners, NewPartners, Issuing, InUse, Projects,
                Guessing, Signing, Settings}

MCSymmetry == Permutations(Requests) \cup Permutations(Browsers)
=============================================================================
