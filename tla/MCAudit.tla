------------------------------ MODULE MCAudit ------------------------------
(* Rules in the spellings that docs/profiles/audit-plugin.md lists, some   *)
(* with the same path or key, and one that hardline cannot read.           *)
EXTENDS Audit

Etc(slash) == <<"etc", slash>>
Watch == <<<<"-w", Etc(TRUE)>>, <<"-k", "changes">>>>
WatchAsFields ==
    << <<"-a", <<"exit", "always">>>>, <<"-F", <<"perm", "=", <<"w", "a", "r", "x">>>>>>,
       <<"-F", <<"dir", "=", Etc(FALSE)>>>>, <<"-F", <<"key", "=", "changes">>>> >>
WatchByUsers ==
    << <<"-a", <<"exit", "always">>>>, <<"-F", <<"perm", "=", Permissions>>>>,
       <<"-F", <<"dir", "=", Etc(FALSE)>>>>, <<"-F", <<"auid", ">=", "1000">>>>,
       <<"-k", "changes">> >>
Deletions ==
    << <<"-a", <<"always", "exit">>>>, <<"-F", <<"auid", "!=", "4294967295">>>>,
       <<"-S", <<"unlink", "rename">>>>, <<"-k", "changes">> >>
NoLogins == << <<"-A", <<"never", "user">>>>, <<"-F", <<"uid", "=", "0">>>> >>
Unreadable == << <<"-a", <<"always", "exit">>>>, <<"-C", "auid!=uid">>, <<"-S", <<"unlink">>>> >>

Profiles ==
    {{WatchAsFields, NoLogins}, {WatchByUsers}, {Deletions, Watch}, {Unreadable, Deletions}}
OtherFiles == {{}, {Watch}, {Unreadable, Deletions}}

ASSUME ToldApart == SpellingsTold
=============================================================================
