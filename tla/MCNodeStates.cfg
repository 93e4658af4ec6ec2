SPECIFICATION FairSpec
CONSTANTS
    Nodes = {n1, n2}
    MaxPolls = 2
    MaxPods = 2
    n1 = n1
    n2 = n2
    Scenarios <- Trouble
PROPERTIES AnswersSettle
