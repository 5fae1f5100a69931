------------------------------- MODULE Domains -------------------------------
(***************************************************************************)
(* The nodes and edges of the twelve domains beside thermal transport, each  *)
(* group in the order of its domain's NODES and EDGES tuples, the domains in *)
(* the order of map_data._domains().                                         *)
(***************************************************************************)
EXTENDS MapElements

\* The one node domains share.
SharedNodes == << Observable("Structure", "opaque") >>

\* dft_ground_state/operator/nodes.py, TOTAL_ENERGY to POTENTIAL_VIRIAL_FIT_ERROR.
DftNodes == <<
    Observable("TotalEnergy", "energy"),
    Observable("Forces", "force"),
    Observable("Stress", "energy_per_length_cubed"),
    Observable("MagneticMoment", "magnetic_moment"),
    Observable("BandGap", "energy"),
    Observable("PotentialEnergyFitError", "energy"),
    Observable("PotentialForceFitError", "force"),
    Observable("PotentialVirialFitError", "energy") >>

\* dft_ground_state/operator/edges.py, solve_ground_state to compute_potential_energy_fit_error.
DftEdges == <<
    Implicit("solve_ground_state", <<"Structure", "Potential">>, <<"TotalEnergy">>),
    Implicit("compute_forces_hf", <<"TotalEnergy", "Structure">>, <<"Forces">>),
    Implicit("compute_stress_cell", <<"TotalEnergy", "Structure">>, <<"Stress">>),
    Implicit("compute_fc2_finite_displacement", <<"Forces", "Structure">>,
        <<"ForceConstants[order=2]">>),
    Implicit("compute_magnetic_moments", <<"Structure", "Potential">>, <<"MagneticMoment">>),
    Implicit("compute_band_gap", <<"Structure", "Potential">>, <<"BandGap">>),
    Implicit("compute_potential_energy_fit_error", <<"Potential", "TotalEnergy">>,
        <<"PotentialEnergyFitError">>) >>

\* dft_ground_state/operator/edges.py, compute_potential_force_fit_error to compute_potential_virial_fit_error.
FitErrorEdges == <<
    Implicit("compute_potential_force_fit_error", <<"Potential", "Forces">>,
        <<"PotentialForceFitError">>),
    Implicit("compute_potential_virial_fit_error", <<"Potential", "Stress">>,
        <<"PotentialVirialFitError">>) >>

\* mechanics/operator/nodes.py, ELASTIC_CONSTANTS to MASS_DENSITY_STATE.
MechanicsNodes == <<
    Observable("ElasticConstants", "energy_per_length_cubed"),
    Observable("BulkModulus", "energy_per_length_cubed"),
    Observable("ShearModulus", "energy_per_length_cubed"),
    Observable("Pressure", "energy_per_length_cubed"),
    Observable("YoungsModulus", "energy_per_length_cubed"),
    Observable("PoissonRatio", "dimensionless"),
    Observable("MassDensity", "mass_density") >>

\* mechanics/operator/edges.py, compute_elastic_constants to contract_poisson_ratio.
MechanicsEdges == <<
    Implicit("compute_elastic_constants", <<"Stress", "Structure">>, <<"ElasticConstants">>),
    Unevaluable("contract_pressure", <<"Stress">>, <<"Pressure">>),
    Unevaluable("contract_bulk_modulus", <<"ElasticConstants">>, <<"BulkModulus">>),
    Unevaluable("contract_shear_modulus", <<"ElasticConstants">>, <<"ShearModulus">>),
    Unevaluable("contract_youngs_modulus", <<"BulkModulus", "ShearModulus">>, <<"YoungsModulus">>),
    Closed("contract_poisson_ratio", <<"BulkModulus", "ShearModulus">>, <<"PoissonRatio">>) >>

\* mechanics/operator/edges.py, compute_bulk_modulus_eos to contract_density.
EquationOfStateEdges == <<
    Implicit("compute_bulk_modulus_eos", <<"TotalEnergy", "Structure">>, <<"BulkModulus">>),
    Implicit("contract_density", <<"Structure">>, <<"MassDensity">>) >>

\* stability/operator/nodes.py, FORMATION_ENERGY to GRAIN_BOUNDARY_ENERGY.
StabilityNodes == <<
    Observable("FormationEnergy", "energy"),
    Observable("EnergyAboveHull", "energy"),
    Observable("SurfaceEnergy", "energy_per_length_squared"),
    Observable("Voltage", "voltage"),
    Observable("AdsorptionEnergy", "energy"),
    Observable("ReactionEnergy", "energy"),
    Observable("GrainBoundaryEnergy", "energy_per_length_squared") >>

\* stability/operator/edges.py, compute_formation_energy to compute_adsorption_energy.
StabilityEdges == <<
    Implicit("compute_formation_energy", <<"TotalEnergy", "Structure">>, <<"FormationEnergy">>),
    Implicit("compute_energy_above_hull", <<"FormationEnergy", "Structure">>,
        <<"EnergyAboveHull">>),
    Implicit("compute_surface_energy", <<"TotalEnergy", "Structure">>, <<"SurfaceEnergy">>),
    Implicit("compute_intercalation_voltage", <<"TotalEnergy", "Structure">>, <<"Voltage">>),
    Implicit("compute_adsorption_energy", <<"TotalEnergy", "Structure">>, <<"AdsorptionEnergy">>) >>

\* stability/operator/edges.py, compute_reaction_energy to compute_grain_boundary_energy.
ReactionEdges == <<
    Unevaluable("compute_reaction_energy", <<"FormationEnergy">>, <<"ReactionEnergy">>),
    Implicit("compute_grain_boundary_energy", <<"TotalEnergy", "Structure">>,
        <<"GrainBoundaryEnergy">>) >>

\* thermochemistry/operator/nodes.py, ASSESSED_DATABASE to TRANSITION_TEMPERATURE.
ThermochemistryNodes == <<
    Observable("AssessedDatabase", "opaque"),
    Observable("MolarGibbsEnergy", "energy_per_mole"),
    Observable("MolarEnthalpy", "energy_per_mole"),
    Observable("ChemicalPotential", "energy_per_mole"),
    Observable("PhaseFraction", "dimensionless"),
    Observable("TransitionTemperature", "temperature"),
    Observable("CalphadMolarEntropy", "energy_per_temperature_per_mole") >>

\* thermochemistry/operator/edges.py, solve_equilibrium to contract_gibbs_hts.
ThermochemistryEdges == <<
    Implicit("solve_equilibrium", <<"AssessedDatabase", "Temperature">>, <<"MolarGibbsEnergy">>),
    Implicit("compute_molar_enthalpy", <<"AssessedDatabase", "Temperature">>,
        <<"MolarEnthalpy">>),
    Implicit("compute_chemical_potentials", <<"MolarGibbsEnergy">>, <<"ChemicalPotential">>),
    Implicit("compute_phase_fractions", <<"AssessedDatabase", "Temperature">>,
        <<"PhaseFraction">>),
    Implicit("compute_transition_temperature", <<"PhaseFraction", "Temperature">>,
        <<"TransitionTemperature">>),
    Implicit("compute_calphad_entropy", <<"AssessedDatabase", "Temperature">>,
        <<"CalphadMolarEntropy">>),
    Closed("contract_gibbs_hts", <<"MolarEnthalpy", "Temperature", "CalphadMolarEntropy">>,
        <<"MolarGibbsEnergy">>) >>

\* quasiharmonic/operator/nodes.py, QHA_GIBBS_ENERGY to THERMAL_GRUNEISEN.
QuasiharmonicNodes == <<
    Observable("QHAGibbsEnergy", "energy_per_mole"),
    Observable("ThermalExpansion", "thermal_expansivity"),
    Observable("HeatCapacityConstantP", "energy_per_temperature_per_mole"),
    Observable("ThermalGruneisen", "dimensionless") >>

\* quasiharmonic/operator/edges.py, compute_qha_gibbs to contract_thermal_gruneisen.
QuasiharmonicEdges == <<
    Implicit("compute_qha_gibbs", <<"TotalEnergy", "Structure", "Frequency">>,
        <<"QHAGibbsEnergy">>),
    Implicit("compute_bulk_modulus_qha", <<"TotalEnergy", "Structure", "Frequency">>,
        <<"BulkModulus">>),
    Implicit("compute_thermal_expansion", <<"QHAGibbsEnergy">>, <<"ThermalExpansion">>),
    Implicit("compute_heat_capacity_p", <<"QHAGibbsEnergy">>, <<"HeatCapacityConstantP">>),
    Implicit("contract_thermal_gruneisen", <<"Gruneisen", "Frequency">>, <<"ThermalGruneisen">>) >>

\* molecular/operator/nodes.py, HOMO_LUMO_GAP to MOLECULAR_FREQUENCY.
MolecularNodes == <<
    Observable("HOMOLUMOGap", "energy"),
    Observable("ReactionBarrier[construction=neb_mep]", "energy"),
    Observable("BondDissociationEnergy", "energy"),
    Observable("MolecularFrequency", "frequency") >>

\* molecular/operator/edges.py, compute_homo_lumo_gap to compute_molecular_frequencies.
MolecularEdges == <<
    Implicit("compute_homo_lumo_gap", <<"Structure", "Potential">>, <<"HOMOLUMOGap">>),
    Implicit("compute_reaction_barrier", <<"TotalEnergy", "Structure">>,
        <<"ReactionBarrier[construction=neb_mep]">>),
    Implicit("compute_bond_dissociation", <<"TotalEnergy", "Structure">>,
        <<"BondDissociationEnergy">>),
    Implicit("compute_molecular_frequencies", <<"Structure", "Potential">>,
        <<"MolecularFrequency">>) >>

\* electronic_transport/operator/nodes.py, STATIC_DIELECTRIC_TENSOR to ELECTRONIC_DOS.
ElectronicNodes == <<
    Observable("StaticDielectricTensor", "dimensionless"),
    Observable("ElectronicDOS", "inverse_energy"),
    Observable("ElectricalConductivity[carrier=electronic]", "electrical_conductivity"),
    Observable("SeebeckCoefficient", "seebeck"),
    Observable("ElectronicThermalConductivity", "thermal_conductivity"),
    Observable("CarrierMobility", "mobility") >>

\* electronic_transport/operator/edges.py, compute_static_dielectric to compute_electronic_dos.
ElectronicEdges == <<
    Implicit("compute_static_dielectric", <<"DielectricTensor", "BornCharges", "Frequency",
        "Eigenvectors">>, <<"StaticDielectricTensor">>),
    Implicit("compute_electronic_dos", <<"Structure", "Potential">>, <<"ElectronicDOS">>),
    Implicit("compute_electronic_conductivity",
        <<"Structure", "StaticDielectricTensor", "ElasticConstants", "Frequency">>,
        <<"ElectricalConductivity[carrier=electronic]">>),
    Implicit("compute_seebeck", <<"Structure", "StaticDielectricTensor", "ElasticConstants",
        "Frequency">>, <<"SeebeckCoefficient">>),
    Implicit("compute_electronic_thermal_conductivity",
        <<"Structure", "StaticDielectricTensor", "ElasticConstants", "Frequency">>,
        <<"ElectronicThermalConductivity">>),
    Implicit("compute_carrier_mobility", <<"Structure", "StaticDielectricTensor",
        "ElasticConstants", "Frequency">>, <<"CarrierMobility">>) >>

\* materials/operator/nodes.py, DIFFUSIVITY_STATE to CONFIGURATIONAL_ENERGY.
MaterialsNodes == <<
    Observable("Diffusivity", "diffusivity"),
    Observable("ActivationEnergy", "energy"),
    Observable("MigrationBarrier", "energy"),
    Observable("ElectricalConductivity[carrier=ionic]", "electrical_conductivity"),
    Observable("ConfigurationalEnergy", "energy"),
    Observable("CarrierDensity", "number_density") >>

\* materials/operator/edges.py, contract_diffusivity to compute_configurational_energy.
MaterialsEdges == <<
    Closed("contract_diffusivity", <<"MeanSquaredDisplacement">>, <<"Diffusivity">>),
    Implicit("fit_arrhenius", <<"Diffusivity", "Temperature">>, <<"ActivationEnergy">>),
    Implicit("compute_carrier_density", <<"Structure">>, <<"CarrierDensity">>),
    Closed("compute_ionic_conductivity", <<"CarrierDensity", "Diffusivity", "Temperature">>,
        <<"ElectricalConductivity[carrier=ionic]">>),
    Implicit("compute_configurational_energy", <<"Potential", "Structure">>,
        <<"ConfigurationalEnergy">>) >>

\* thermodynamic_identities/operator/nodes.py, THERMAL_CONDUCTIVITY_TOTAL to ZT.
IdentityNodes == <<
    Observable("ThermalConductivity[contribution=total]", "thermal_conductivity"),
    Observable("MolarVolume", "volume_per_mole"),
    Observable("PowerFactor", "power_factor"),
    Observable("ZT", "dimensionless") >>

\* thermodynamic_identities/operator/edges.py, contract_thermal_gruneisen_identity to contract_zt.
IdentityEdges == <<
    Closed("contract_thermal_gruneisen_identity",
        <<"ThermalExpansion", "BulkModulus", "VolumetricHeatCapacity">>, <<"ThermalGruneisen">>),
    Closed("sum_thermal_conductivity", <<"ThermalConductivity[bte_solver=direct_inverse]",
        "ElectronicThermalConductivity">>, <<"ThermalConductivity[contribution=total]">>),
    Provide("contract_molar_volume", "MolarVolume"),
    Closed("contract_heat_capacity_p_identity",
        <<"MolarHeatCapacity", "Temperature", "MolarVolume", "ThermalExpansion", "BulkModulus">>,
        <<"HeatCapacityConstantP">>),
    Closed("contract_power_factor", <<"ElectricalConductivity[carrier=electronic]",
        "SeebeckCoefficient">>, <<"PowerFactor">>),
    Closed("contract_zt", <<"PowerFactor", "Temperature",
        "ThermalConductivity[contribution=total]">>, <<"ZT">>) >>

\* composites/operator/nodes.py, MATRIX_CONDUCTIVITY to EFFECTIVE_CONDUCTIVITY_ALIGNED.
CompositeNodes == <<
    Observable("ThermalConductivity[role=matrix]", "thermal_conductivity"),
    Observable("ThermalConductivity[role=filler]", "thermal_conductivity"),
    Observable("InterfaceConductance", "interface_conductance"),
    Observable("FillerVolumeFraction", "dimensionless"),
    Observable("DepolarizationFactor", "dimensionless"),
    Observable("ThermalConductivity[effective_medium=nan,orientation=random]",
        "thermal_conductivity"),
    Observable("ThermalConductivity[effective_medium=nan,orientation=aligned]",
        "thermal_conductivity") >>

\* composites/operator/nodes.py, INTERFACE_CONDUCTANCE_NEMD to INTERFACE_CONDUCTANCE_NEMD.
InterfaceNodes == <<
    Observable("InterfaceConductance[transport_model=nemd]", "interface_conductance") >>

\* composites/operator/edges.py, depolarization_factors to hasselman_johnson.
CompositeEdges == <<
    Provide("depolarization_factors", "DepolarizationFactor"),
    Closed("nan_effective_kappa", <<"ThermalConductivity[role=matrix]",
        "ThermalConductivity[role=filler]", "InterfaceConductance", "FillerVolumeFraction",
        "DepolarizationFactor">>, <<"ThermalConductivity[effective_medium=nan,orientation=random]">>),
    Closed("nan_effective_kappa_aligned", <<"ThermalConductivity[role=matrix]",
        "ThermalConductivity[role=filler]", "InterfaceConductance", "FillerVolumeFraction",
        "DepolarizationFactor">>,
        <<"ThermalConductivity[effective_medium=nan,orientation=aligned]">>),
    Closed("hasselman_johnson", <<"ThermalConductivity[role=matrix]",
        "ThermalConductivity[role=filler]", "InterfaceConductance", "FillerVolumeFraction">>,
        <<"ThermalConductivity[effective_medium=nan,orientation=random]">>) >>

\* composites/operator/edges.py, resolve_effective_conductivity to contract_interface_conductance_nemd.
InterfaceEdges == <<
    Unevaluable("resolve_effective_conductivity",
        <<"ThermalConductivity[effective_medium=nan,orientation=random]">>,
        <<"ThermalConductivity">>),
    Unevaluable("contract_interface_conductance[transport_model=nemd]",
        <<"HeatCurrent", "Temperature">>, <<"InterfaceConductance[transport_model=nemd]">>) >>

\* analog_device_metrology/operator/nodes.py, CONDUCTANCE_STATE to SET_VOLTAGE.
DeviceNodes == <<
    Observable("ConductanceState", "conductance"),
    Observable("ConductanceWindow", "dimensionless"),
    Observable("ConductanceDriftExponent", "dimensionless"),
    Observable("StateCoefficientOfVariation", "dimensionless"),
    Observable("DotProductError", "dimensionless"),
    Observable("SchottkyBarrierHeight[band_carrier=electron]", "energy"),
    Observable("WorkFunction", "energy"),
    Observable("ElectronAffinity", "energy"),
    Observable("ProgrammingPulseEnergy", "energy"),
    Observable("SetVoltage", "voltage") >>

\* analog_device_metrology/operator/nodes.py, RETENTION_TIME to CLASSIFICATION_ACCURACY.
ReservoirNodes == <<
    Observable("RetentionTime", "time"),
    Observable("ConductanceRelaxationTime", "time"),
    Observable("InterfaceTrapRelaxationTime", "time"),
    Observable("ClassificationAccuracy", "dimensionless") >>

\* analog_device_metrology/operator/edges.py, contract_device_conductance to emit_thermionic_conductance.
DeviceEdges == <<
    Closed("contract_device_conductance", <<"ElectricalConductivity[carrier=electronic]">>,
        <<"ConductanceState">>),
    Closed("contract_conductance_window", <<"ConductanceState">>, <<"ConductanceWindow">>),
    Closed("contract_state_coefficient_of_variation", <<"ConductanceState">>,
        <<"StateCoefficientOfVariation">>),
    Closed("apply_conductance_drift", <<"ConductanceDriftExponent">>, <<"ConductanceState">>),
    Closed("propagate_programming_error", <<"StateCoefficientOfVariation", "ConductanceWindow">>,
        <<"DotProductError">>),
    Closed("emit_thermionic_conductance", <<"SchottkyBarrierHeight[band_carrier=electron]",
        "Temperature">>, <<"ConductanceState">>) >>

\* analog_device_metrology/operator/edges.py, schottky_mott_barrier to subthreshold_conductance_tangent_time.
PulseEdges == <<
    Closed("schottky_mott_barrier", <<"WorkFunction", "ElectronAffinity">>,
        <<"SchottkyBarrierHeight[band_carrier=electron]">>),
    Closed("dissipate_pulse_energy", <<"ConductanceState">>, <<"ProgrammingPulseEnergy">>),
    Closed("ramp_set_voltage", <<"MigrationBarrier", "Temperature">>, <<"SetVoltage">>),
    Closed("zero_bias_retention", <<"MigrationBarrier", "Temperature">>, <<"RetentionTime">>),
    Closed("subthreshold_conductance_tangent_time",
        <<"InterfaceTrapRelaxationTime", "ConductanceState">>, <<"ConductanceRelaxationTime">>) >>

\* analog_device_metrology/operator/edges.py, evaluate_reservoir_classification to evaluate_reservoir_classification.
ReservoirEdges == <<
    Implicit("evaluate_reservoir_classification", <<"ConductanceState">>,
        <<"ClassificationAccuracy">>) >>

\* cure_kinetics/operator/nodes.py, CURE_CONVERSION to GLASS_TRANSITION_TEMPERATURE.
CureNodes == <<
    Observable("CureConversion", "dimensionless"),
    Observable("GlassTransitionTemperature", "temperature") >>

\* cure_kinetics/operator/edges.py, kamal_cure_conversion to dibenedetto_glass_transition.
CureEdges == <<
    Implicit("kamal_cure_conversion", <<"Temperature">>, <<"CureConversion">>),
    Closed("dibenedetto_glass_transition", <<"CureConversion">>, <<"GlassTransitionTemperature">>) >>

OtherNodes ==
    SharedNodes \o DftNodes \o MechanicsNodes \o StabilityNodes
    \o ThermochemistryNodes \o QuasiharmonicNodes \o MolecularNodes \o ElectronicNodes
    \o MaterialsNodes \o IdentityNodes \o CompositeNodes \o InterfaceNodes
    \o DeviceNodes \o ReservoirNodes \o CureNodes
OtherEdges ==
    DftEdges \o FitErrorEdges \o MechanicsEdges \o EquationOfStateEdges
    \o StabilityEdges \o ReactionEdges \o ThermochemistryEdges \o QuasiharmonicEdges
    \o MolecularEdges \o ElectronicEdges \o MaterialsEdges \o IdentityEdges
    \o CompositeEdges \o InterfaceEdges \o DeviceEdges \o PulseEdges
    \o ReservoirEdges \o CureEdges
=============================================================================
