------------------------- MODULE MCScenarioExecution -------------------------
(***************************************************************************)
(* ScenarioExecution with the catalogs, actors and configurations its      *)
(* guards tell apart.                                                      *)
(***************************************************************************)
EXTENDS ScenarioExecution

CONSTANTS anna, renamed, bob    \* object ids and UPNs

Record(id, action, permissions, enabled, destructive) ==
    [is |-> "record", id |-> id, action |-> action, workload |-> "auth",
     permissions |-> permissions, enabled |-> enabled,
     destructive |-> destructive, defective |-> FALSE]

SignInRecord == Record("SCN-AUTH", "INTERACTIVE_SIGNIN", {}, TRUE, FALSE)
MailRecord == Record("SCN-MAIL", "SEND_MAIL", {"Mail.Send"}, FALSE, FALSE)
DeleteRecord ==
    Record("SCN-FILE", "DELETE_FILE", {"Files.ReadWrite"}, TRUE, TRUE)

Entry(id, file) == [id |-> id, file |-> file]

MCEntries ==
    {Entry("SCN-AUTH", SignInRecord),
     Entry("SCN-AUTH", [SignInRecord EXCEPT !.enabled = FALSE]),
     Entry("SCN-AUTH", [SignInRecord EXCEPT !.action = "POST_MESSAGE"]),
     Entry("SCN-MAIL", MailRecord),
     Entry("SCN-MAIL", [SignInRecord EXCEPT !.defective = TRUE]),
     Entry("SCN-MAIL", SignInRecord),
     Entry("SCN-FILE", DeleteRecord),
     Entry("noop_validation", [SignInRecord EXCEPT !.id = "noop_validation"]),
     Entry("SCN-FILE", [is |-> "not_json"]),
     Entry(NoId, [is |-> "absent"])}

Followers ==
    {Entry("SCN-AUTH", SignInRecord),
     Entry("SCN-MAIL", SignInRecord),
     Entry("SCN-FILE", DeleteRecord)}

Totals(all, enabled, disabled) ==
    [all |-> all, enabled |-> enabled, disabled |-> disabled]

(* A file whose id the index does not tell, behind an entry that hides it. *)
Hidden ==
    <<Entry("SCN-AUTH", SignInRecord),
      Entry("SCN-AUTH", [MailRecord EXCEPT !.enabled = TRUE]),
      Entry("SCN-MAIL", MailRecord)>>

MCCatalogs ==
    [entries : {<<a, b>> : a \in MCEntries, b \in Followers},
     totals : {Totals({2}, {}, {}), Totals({3}, {}, {})}, badActor : {FALSE}]
    \cup [entries : {Hidden},
          totals : {Totals({3}, {2}, {1}), Totals({3}, {2}, {2}),
                    Totals({}, {2}, {1}), Totals({3}, {2}, {})},
          badActor : {FALSE}]
    \cup [entries : {<<>>}, totals : {Totals({}, {}, {})}, badActor : BOOLEAN]

Actor(id, enabled, scenarios, workloads) ==
    [id |-> id, enabled |-> enabled, allowedScenarios |-> scenarios,
     allowedWorkloads |-> workloads]

MCActors ==
    {Actor("operator", TRUE, {}, {}),
     Actor("dormant", FALSE, {}, {}),
     Actor("mailer", TRUE, {}, {{"mail"}})}

Identity(oid, upn) == [oid |-> oid, upn |-> upn]

MCIdentities ==
    {Identity(anna, anna), Identity(anna, renamed), Identity(bob, anna)}

Configuration(mode, destructive, intact, expected, confirms) ==
    [mode |-> mode, allowDestructive |-> destructive,
     scopesIntact |-> intact, expected |-> expected, confirms |-> confirms]

MCConfigurations ==
    {Configuration("dry_run", TRUE, TRUE, Identity(anna, anna), TRUE),
     Configuration("live_off", FALSE, TRUE, Identity(anna, anna), TRUE),
     Configuration("live", FALSE, FALSE, Identity(anna, anna), TRUE),
     Configuration("live", FALSE, TRUE, Identity(Unset, Unset), TRUE),
     Configuration("live", FALSE, TRUE, Identity(anna, anna), TRUE),
     Configuration("live", FALSE, TRUE, Identity(Unset, anna), FALSE),
     Configuration("live", FALSE, TRUE, Identity(anna, Unset), FALSE)}

=============================================================================
