SPECIFICATION FairSpec
CONSTANTS
    tactician = tactician
    guardian = guardian
    plan = plan
    team = team
    notSure = notSure
    q1 = q1
    q2 = q2
    q3 = q3
    q4 = q4
    q5 = q5
    Target = {tactician, guardian}
    Question = {q1, q2, q3, q4, q5}
    Answer = {plan, team, notSure}
    Idk = notSure
    Authored <- MCAuthored
    MaxQuestions = 4
    MaxIdk = 3
    MaxRecoveries = 2
    Diffuse <- MCDiffuse
    None = None
CHECK_DEADLOCK FALSE
INVARIANT TypeOK EvidenceKept NoveltyHonest
PROPERTY InterviewEnds
