----------------------------- MODULE MCArchive -----------------------------
(* Archive for TLC: three small databases, and a job or two, a file and, in  *)
(* one of them, a remoteci to be inserted.                                  *)
EXTENDS Archive

CONSTANTS p1, p2, tp1, tp2, t1, t2, r1, c1, cf1, l1, u1, u2, m1, m2, j1, j2, f1

SeedJob(remoteci, team, topic, product, pipeline) ==
  Row("jobs", [remoteci_id |-> remoteci, team_id |-> team, topic_id |-> topic,
               product_id |-> product, previous_job_id |-> None,
               update_previous_job_id |-> None, pipeline_id |-> pipeline])

(* A job of one team in the pipeline of another.                             *)
TwoTeams ==
  tp1 :> Row("topics", [product_id |-> None, next_topic_id |-> None])
  @@ t1 :> Row("teams", <<>>)
  @@ t2 :> Row("teams", <<>>)
  @@ l1 :> Row("pipelines", [team_id |-> t2])
  @@ r1 :> Row("remotecis", [team_id |-> t1])
  @@ j1 :> SeedJob(r1, t1, tp1, None, l1)

(* A topic of one product, the topic after it of another, one team, a job    *)
(* and a component of the first topic, each with a file.                     *)
TwoTopics ==
  p1 :> Row("products", <<>>)
  @@ p2 :> Row("products", <<>>)
  @@ tp1 :> Row("topics", [product_id |-> p1, next_topic_id |-> tp2])
  @@ tp2 :> Row("topics", [product_id |-> p2, next_topic_id |-> None])
  @@ t1 :> Row("teams", <<>>)
  @@ r1 :> Row("remotecis", [team_id |-> t1])
  @@ c1 :> Row("components", [topic_id |-> tp1, team_id |-> None])
  @@ cf1 :> Row("component_files", [component_id |-> c1])
  @@ j1 :> SeedJob(r1, t1, tp1, p1, None)
  @@ f1 :> Row("files", [job_id |-> j1, team_id |-> t1])

(* A topic and a team with nothing yet.                                      *)
Fresh ==
  tp1 :> Row("topics", [product_id |-> None, next_topic_id |-> None])
  @@ t1 :> Row("teams", <<>>)

MCSeeds == {TwoTeams, TwoTopics, Fresh}
MCUnborn == j1 :> "jobs" @@ j2 :> "jobs" @@ f1 :> "files" @@ r1 :> "remotecis"

(* A team of two users.                                                      *)
UsersSeeds ==
  {t1 :> Row("teams", <<>>)
   @@ u1 :> Row("users", <<>>)
   @@ u2 :> Row("users", <<>>)
   @@ m1 :> Row("users_teams", [user_id |-> u1, team_id |-> t1])
   @@ m2 :> Row("users_teams", [user_id |-> u2, team_id |-> t1])}

ArchiveSymmetry == Permutations(Requests)
=============================================================================
