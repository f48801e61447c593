CONSTANTS
    Atoms <- MCAtoms
    Records <- MCRecords
    Rules <- MCRules
    Axioms = {}
    Functional = {"color"}
    Queries <- MCQueries
    MaxAnswers = 2
SPECIFICATION Spec
CHECK_DEADLOCK FALSE
INVARIANTS CoreMustGive SupportIsIndependent AnswersCohere
