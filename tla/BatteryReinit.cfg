CONSTANT Builds = {FALSE}
SPECIFICATION FairSpec
PROPERTY DiedMeansReinit
