---- MODULE MCPipelineRunner ----
(* Instances of the pipelines of an application: two environments and two components,
   deployed by an old job, and two jobs that may overlap. *)
EXTENDS PipelineRunner

MCJobs == {"old", "a", "b"}
MCEnvironments == {"dev", "prod"}
MCComponents == {"web", "api"}
MCCommits == {1, 2, 3}
(* The second radixconfig gives the image of web, and that of api in dev only; it has api
   in prod, too, from a folder of its own, and an alias there. *)
MCConfigs == {1, 2}
MCEnvs == << <<"dev", "prod">>, <<"dev", "prod">> >>
MCMapped == << <<"dev", "prod">>, <<"prod">> >>
MCEnabled == << [dev |-> {"web", "api"}, prod |-> {"web"}],
                [dev |-> {"web", "api"}, prod |-> {"web", "api"}] >>
MCFixed == << [dev |-> {}, prod |-> {}], [dev |-> {"web", "api"}, prod |-> {"web"}] >>
(* Commit 2 changes web, and what is in the other folder of api; commit 3 changes web back,
   and api. *)
MCBuilt == [web |-> <<1, 2, 1>>, api |-> <<1, 1, 2>>]
MCSource == << [dev |-> MCBuilt, prod |-> MCBuilt],
               [dev |-> MCBuilt, prod |-> [MCBuilt EXCEPT !.api = <<3, 4, 5>>]] >>
MCDns == << [dev |-> {}, prod |-> {}], [dev |-> {}, prod |-> {"web"}] >>

MCMissing == [image |-> "none"]
MCNoRd == [job |-> "none", cond |-> "none"]

Ask(type, commit, to) ==
  [type |-> type, commit |-> commit, to |-> to, from |-> "none", rd |-> "old", only |-> {}]
Promotion(rd, from, to) == [Ask("promote", 0, to) EXCEPT !.rd = rd, !.from = from]

Both(a, b) == [old |-> a, a |-> a, b |-> b]
MCRequests == {
  Both(Ask("build-deploy", 2, "none"), Ask("build-deploy", 3, "none")),
  Both(Ask("build-deploy", 2, "none"), Ask("build-deploy", 2, "prod")),
  Both(Ask("build-deploy", 2, "none"), Ask("apply-config", 0, "none")),
  Both(Ask("build-deploy", 1, "prod"), Ask("apply-config", 0, "none")),
  Both(Ask("build-deploy", 2, "none"), Promotion("a", "dev", "prod")),
  Both(Ask("build-deploy", 2, "prod"), Promotion("a", "prod", "dev")),
  Both(Promotion("old", "prod", "dev"), Ask("build-deploy", 0, "dev")),
  Both(Ask("deploy", 0, "dev"), [Ask("deploy", 0, "dev") EXCEPT !.only = {"web"}]),
  Both(Ask("build", 2, "none"), Ask("apply-config", 0, "none"))}
====
